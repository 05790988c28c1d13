----------------------------- MODULE AbsCmdProofs -----------------------------
(***************************************************************************)
(* Proofs about the functions on abstract commands: what each function's   *)
(* list of accesses holds, that the state keeps its types, that autoexec   *)
(* is off when a call returns 0, what commands write to memory, and what a *)
(* call and a start-up achieve.  All of it for any memory, any words and   *)
(* any length of a bulk write.                                             *)
(*                                                                         *)
(* Accesses(r) is a CASE over the functions.  The lemmas of the first part *)
(* take each list apart once, so that no later proof expands it.           *)
(***************************************************************************)
EXTENDS AbsCmd, TLAPS

-------------------------------------------------------------------------------
(* The lists of accesses                                                   *)

Functions == {"halt_cpu", "resume_cpu", "clear_cmderr", "dbg_test_init", "read_register",
              "write_register", "read_xpr_buf", "write_xpr_buf", "read_memory_abs",
              "read_memory_buf", "write_memory_abs", "write_memory_buf",
              "write_memory_bulk"}

\* What the arguments of a call range over.
LEMMA Arguments ==
  ASSUME NEW r \in Calls
  PROVE  /\ r.f \in Functions
         /\ r.f \in {"read_memory_abs", "read_memory_buf", "write_memory_abs",
                     "write_memory_buf", "write_memory_bulk"} => r.addr \in Addrs
         /\ r.f \in {"write_memory_abs", "write_memory_buf", "write_register",
                     "write_xpr_buf"} => r.data \in Words
         /\ r.f \in {"read_register", "write_register", "read_xpr_buf", "write_xpr_buf"}
              => r.reg \in {"s0", "s1"}
BY DEF Functions, Calls, NoArgs, RegCalls, MemCalls, BulkCalls

\* Each function's accesses, one by one.
LEMMA HaltList ==
  ASSUME NEW r \in Calls, r.f = "halt_cpu"
  PROVE  /\ Len(Accesses(r)) = 2
         /\ Accesses(r)[1] = Rd("dmcontrol?")
         /\ Accesses(r)[2] = Wr("dmcontrol", "halt")
<1>1. Accesses(r) = HaltCpu
  BY DEF Accesses
<1>. QED BY <1>1 DEF HaltCpu

LEMMA ResumeList ==
  ASSUME NEW r \in Calls, r.f = "resume_cpu"
  PROVE  /\ Len(Accesses(r)) = 2
         /\ Accesses(r)[1] = Rd("dmcontrol?")
         /\ Accesses(r)[2] = Wr("dmcontrol", "resume")
<1>1. Accesses(r) = ResumeCpu
  BY DEF Accesses
<1>. QED BY <1>1 DEF ResumeCpu

LEMMA ClearList ==
  ASSUME NEW r \in Calls, r.f = "clear_cmderr"
  PROVE  /\ Len(Accesses(r)) = 1
         /\ Accesses(r)[1] = Rd("cmderr")
<1>1. Accesses(r) = ClearCmderr
  BY DEF Accesses
<1>. QED BY <1>1 DEF ClearCmderr

LEMMA ReadRegisterList ==
  ASSUME NEW r \in Calls, r.f = "read_register"
  PROVE  /\ Len(Accesses(r)) = 2
         /\ Accesses(r)[1] = Wr("command", RegCommand("read", r.reg, FALSE))
         /\ Accesses(r)[2] = Rd("data0?")
<1>1. Accesses(r) = ReadRegisterUsingAbsCmd(r.reg)
  BY DEF Accesses
<1>. QED BY <1>1 DEF ReadRegisterUsingAbsCmd

LEMMA WriteRegisterList ==
  ASSUME NEW r \in Calls, r.f = "write_register"
  PROVE  /\ Len(Accesses(r)) = 2
         /\ Accesses(r)[1] = Wr("data0", r.data)
         /\ Accesses(r)[2] = Wr("command", RegCommand("write", r.reg, FALSE))
<1>1. Accesses(r) = WriteRegisterUsingAbsCmd(r.reg, r.data)
  BY DEF Accesses
<1>. QED BY <1>1 DEF WriteRegisterUsingAbsCmd

LEMMA ReadXprList ==
  ASSUME NEW r \in Calls, r.f = "read_xpr_buf"
  PROVE  /\ Len(Accesses(r)) = 5
         /\ Accesses(r)[1] = Wr("progbuf0", "addi_s0_s1")
         /\ Accesses(r)[2] = Wr("progbuf1", "ebreak")
         /\ Accesses(r)[3] = Wr("command", RegCommand("no", "s0", TRUE))
         /\ Accesses(r)[4] = Wr("command", RegCommand("read", "s1", FALSE))
         /\ Accesses(r)[5] = Rd("data0?")
<1>. DEFINE list == ReadXprUsingPrgBuf
<1>1. Accesses(r) = list
  BY DEF Accesses
<1>2. /\ Len(list) = 5
      /\ list[1] = Wr("progbuf0", "addi_s0_s1")
      /\ list[2] = Wr("progbuf1", "ebreak")
      /\ list[3] = Wr("command", RegCommand("no", "s0", TRUE))
      /\ list[4] = Wr("command", RegCommand("read", "s1", FALSE))
      /\ list[5] = Rd("data0?")
  BY DEF ReadXprUsingPrgBuf
<1>. HIDE DEF list
<1>. QED BY <1>1, <1>2

LEMMA WriteXprList ==
  ASSUME NEW r \in Calls, r.f = "write_xpr_buf"
  PROVE  /\ Len(Accesses(r)) = 5
         /\ Accesses(r)[1] = Wr("data0", r.data)
         /\ Accesses(r)[2] = Wr("progbuf0", "addi_s1_s0")
         /\ Accesses(r)[3] = Wr("progbuf1", "ebreak")
         /\ Accesses(r)[4] = Wr("command", RegCommand("no", "s0", TRUE))
         /\ Accesses(r)[5] = Wr("command", RegCommand("write", "s0", TRUE))
<1>. DEFINE list == WriteXprUsingPrgBuf(r.data)
<1>1. Accesses(r) = list
  BY DEF Accesses
<1>2. /\ Len(list) = 5
      /\ list[1] = Wr("data0", r.data)
      /\ list[2] = Wr("progbuf0", "addi_s1_s0")
      /\ list[3] = Wr("progbuf1", "ebreak")
      /\ list[4] = Wr("command", RegCommand("no", "s0", TRUE))
      /\ list[5] = Wr("command", RegCommand("write", "s0", TRUE))
  BY DEF WriteXprUsingPrgBuf
<1>. HIDE DEF list
<1>. QED BY <1>1, <1>2

LEMMA ReadAbsList ==
  ASSUME NEW r \in Calls, r.f = "read_memory_abs"
  PROVE  /\ Len(Accesses(r)) = 3
         /\ Accesses(r)[1] = Wr("data1", r.addr)
         /\ Accesses(r)[2] = Wr("command", MemCommand(FALSE, FALSE))
         /\ Accesses(r)[3] = Rd("data0?")
<1>1. Accesses(r) = ReadMemoryUsingAbsCmd(r.addr)
  BY DEF Accesses
<1>. QED BY <1>1 DEF ReadMemoryUsingAbsCmd

LEMMA ReadBufList ==
  ASSUME NEW r \in Calls, r.f = "read_memory_buf"
  PROVE  /\ Len(Accesses(r)) = 6
         /\ Accesses(r)[1] = Wr("progbuf0", "lw_s0_s0")
         /\ Accesses(r)[2] = Wr("progbuf1", "ebreak")
         /\ Accesses(r)[3] = Wr("data0", r.addr)
         /\ Accesses(r)[4] = Wr("command", RegCommand("write", "s0", TRUE))
         /\ Accesses(r)[5] = Wr("command", RegCommand("read", "s0", FALSE))
         /\ Accesses(r)[6] = Rd("data0?")
<1>. DEFINE list == ReadMemoryUsingPrgBuf(r.addr)
<1>1. Accesses(r) = list
  BY DEF Accesses
<1>2. /\ Len(list) = 6
      /\ list[1] = Wr("progbuf0", "lw_s0_s0")
      /\ list[2] = Wr("progbuf1", "ebreak")
      /\ list[3] = Wr("data0", r.addr)
      /\ list[4] = Wr("command", RegCommand("write", "s0", TRUE))
      /\ list[5] = Wr("command", RegCommand("read", "s0", FALSE))
      /\ list[6] = Rd("data0?")
  BY DEF ReadMemoryUsingPrgBuf
<1>. HIDE DEF list
<1>. QED BY <1>1, <1>2

LEMMA WriteAbsList ==
  ASSUME NEW r \in Calls, r.f = "write_memory_abs"
  PROVE  /\ Len(Accesses(r)) = 3
         /\ Accesses(r)[1] = Wr("data1", r.addr)
         /\ Accesses(r)[2] = Wr("data0", r.data)
         /\ Accesses(r)[3] = Wr("command", MemCommand(TRUE, FALSE))
<1>1. Accesses(r) = WriteMemoryUsingAbsCmd(r.addr, r.data)
  BY DEF Accesses
<1>. QED BY <1>1 DEF WriteMemoryUsingAbsCmd

LEMMA WriteBufList ==
  ASSUME NEW r \in Calls, r.f = "write_memory_buf"
  PROVE  /\ Len(Accesses(r)) = 6
         /\ Accesses(r)[1] = Wr("progbuf0", "sw_s1_s0")
         /\ Accesses(r)[2] = Wr("progbuf1", "ebreak")
         /\ Accesses(r)[3] = Wr("data0", r.addr)
         /\ Accesses(r)[4] = Wr("command", RegCommand("write", "s0", FALSE))
         /\ Accesses(r)[5] = Wr("data0", r.data)
         /\ Accesses(r)[6] = Wr("command", RegCommand("write", "s1", TRUE))
<1>. DEFINE list == WriteMemoryUsingPrgBuf(r.addr, r.data)
<1>1. Accesses(r) = list
  BY DEF Accesses
<1>2. /\ Len(list) = 6
      /\ list[1] = Wr("progbuf0", "sw_s1_s0")
      /\ list[2] = Wr("progbuf1", "ebreak")
      /\ list[3] = Wr("data0", r.addr)
      /\ list[4] = Wr("command", RegCommand("write", "s0", FALSE))
      /\ list[5] = Wr("data0", r.data)
      /\ list[6] = Wr("command", RegCommand("write", "s1", TRUE))
  BY DEF WriteMemoryUsingPrgBuf
<1>. HIDE DEF list
<1>. QED BY <1>1, <1>2

\* A bulk write of n words makes n + 4 accesses.
LEMMA BulkList ==
  ASSUME NEW r \in Calls, r.f = "write_memory_bulk"
  PROVE  /\ Len(r.data) \in Nat \ {0} /\ Len(r.data) <= MaxLen
         /\ \A i \in 1 .. Len(r.data) : r.data[i] \in Words
         /\ Len(Accesses(r)) = Len(r.data) + 4
         /\ Accesses(r)[1] = Wr("data1", r.addr)
         /\ Accesses(r)[2] = Wr("data0", r.data[1])
         /\ Accesses(r)[3] = Wr("command", MemCommand(TRUE, TRUE))
         /\ Accesses(r)[4] = Wr("abstractauto", TRUE)
         /\ \A i \in 5 .. Len(r.data) + 3 : Accesses(r)[i] = Wr("data0", r.data[i - 3])
         /\ Accesses(r)[Len(r.data) + 4] = Wr("abstractauto", FALSE)
<1>1. PICK n \in 1 .. MaxLen : r.data \in [1 .. n -> Words]
  BY DEF Calls, NoArgs, RegCalls, MemCalls, BulkCalls
<1>2. n \in Nat \ {0} /\ n <= MaxLen /\ Len(r.data) = n /\ r.data \in Seq(Words)
  BY <1>1, AbsCmdAssumption
<1>. DEFINE head == << Wr("data1", r.addr), Wr("data0", r.data[1]),
                       Wr("command", MemCommand(TRUE, TRUE)), Wr("abstractauto", TRUE) >>
            more == [i \in 1 .. Len(r.data) - 1 |-> Wr("data0", r.data[i + 1])]
            last == << Wr("abstractauto", FALSE) >>
            most == head \o more
            all  == most \o last
<1>3. Accesses(r) = WriteMemoryBulkAbsCmd(r.addr, r.data)
  BY DEF Accesses
<1>4. Accesses(r) = all
  BY <1>3 DEF WriteMemoryBulkAbsCmd
<1>5. /\ Len(head) = 4
      /\ head[1] = Wr("data1", r.addr) /\ head[2] = Wr("data0", r.data[1])
      /\ head[3] = Wr("command", MemCommand(TRUE, TRUE))
      /\ head[4] = Wr("abstractauto", TRUE)
  OBVIOUS
<1>6. Len(more) = n - 1 /\ \A i \in 1 .. n - 1 : more[i] = Wr("data0", r.data[i + 1])
  BY <1>2
<1>7. Len(last) = 1 /\ last[1] = Wr("abstractauto", FALSE)
  OBVIOUS
<1>8. /\ Len(most) = n + 3
      /\ \A i \in 1 .. 4 : most[i] = head[i]
      /\ \A i \in 5 .. n + 3 : most[i] = more[i - 4]
  BY <1>2, <1>5, <1>6
<1>9. Len(all) = n + 4
  BY <1>2, <1>5, <1>6, <1>8
<1>10. \A i \in 1 .. n + 3 : all[i] = most[i]
  BY <1>2, <1>8
<1>11. all[n + 4] = last[1]
  <2>1. n + 4 \in 1 .. Len(most) + 1 /\ ~(n + 4 <= Len(most)) /\ n + 4 - Len(most) = 1
    BY <1>2, <1>8
  <2>2. \A i \in 1 .. Len(most) + 1 : ~(i <= Len(most)) => all[i] = last[i - Len(most)]
    BY <1>2, <1>8
  <2>. HIDE DEF head, more, last, most, all
  <2>. QED BY <2>1, <2>2
<1>. HIDE DEF head, more, last, most, all
<1>12. \A i \in 1 .. 4 : all[i] = head[i]
  BY <1>2, <1>8, <1>10
<1>13. \A i \in 5 .. n + 3 : all[i] = Wr("data0", r.data[i - 3])
  <2>. TAKE i \in 5 .. n + 3
  <2>1. all[i] = more[i - 4] /\ i - 4 \in 1 .. n - 1 /\ i - 4 + 1 = i - 3
    BY <1>2, <1>8, <1>10
  <2>. QED BY <2>1, <1>6
<1>14. \A i \in 1 .. n : r.data[i] \in Words
  BY <1>1
<1>15. all[1] = head[1] /\ all[2] = head[2] /\ all[3] = head[3] /\ all[4] = head[4]
  BY <1>12
<1>16. /\ all[1] = Wr("data1", r.addr) /\ all[2] = Wr("data0", r.data[1])
       /\ all[3] = Wr("command", MemCommand(TRUE, TRUE))
       /\ all[4] = Wr("abstractauto", TRUE)
  BY <1>5, <1>15
<1>17. all[n + 4] = Wr("abstractauto", FALSE)
  BY <1>7, <1>11
<1>. QED
  BY <1>2, <1>4, <1>9, <1>13, <1>14, <1>16, <1>17

\* dbg_test_init of the test bench, and of the two port programs.
LEMMA BenchList ==
  ASSUME NEW r \in Calls, r.f = "dbg_test_init", session.program = "dbg_test_init"
  PROVE  /\ Len(Accesses(r)) = 9
         /\ Accesses(r)[1] = Rd("dmcontrol?")
         /\ Accesses(r)[2] = Wr("dmcontrol", "enable")
         /\ Accesses(r)[3] = Wr("command", Unsupported)
         /\ Accesses(r)[4] = Rd("cmderr")
         /\ Accesses(r)[5] = Rd("dmcontrol?")
         /\ Accesses(r)[6] = Wr("dmcontrol", "halt")
         /\ Accesses(r)[7] = Wr("data1", LedAddr)
         /\ Accesses(r)[8] = Wr("data0", LedWord)
         /\ Accesses(r)[9] = Wr("command", MemCommand(TRUE, FALSE))
<1>. DEFINE trial == << Wr("command", Unsupported), Rd("cmderr") >>
            begin == EnableDmi \o trial
            halt  == begin \o HaltCpu
            write == WriteMemoryUsingAbsCmd(LedAddr, LedWord)
<1>1. DbgTestInit("dbg_test_init") = halt \o write
  BY DEF DbgTestInit, BenchInit
<1>2. Accesses(r) = DbgTestInit("dbg_test_init")
  BY DEF Accesses
<1>3. /\ Len(begin) = 4
      /\ begin[1] = Rd("dmcontrol?") /\ begin[2] = Wr("dmcontrol", "enable")
      /\ begin[3] = Wr("command", Unsupported) /\ begin[4] = Rd("cmderr")
  BY DEF EnableDmi
<1>4. /\ Len(halt) = 6
      /\ \A i \in 1 .. 4 : halt[i] = begin[i]
      /\ \A i \in 5 .. 6 : halt[i] = HaltCpu[i - 4]
  BY <1>3 DEF HaltCpu, EnableDmi
<1>5. /\ Len(write) = 3
      /\ write[1] = Wr("data1", LedAddr) /\ write[2] = Wr("data0", LedWord)
      /\ write[3] = Wr("command", MemCommand(TRUE, FALSE))
  BY DEF WriteMemoryUsingAbsCmd
<1>6. /\ HaltCpu[1] = Rd("dmcontrol?") /\ HaltCpu[2] = Wr("dmcontrol", "halt")
  BY DEF HaltCpu
<1>. DEFINE all == halt \o write
<1>7. Len(all) = 9
  BY <1>4, <1>5 DEF WriteMemoryUsingAbsCmd, HaltCpu, EnableDmi
<1>8. \A i \in 1 .. 6 : all[i] = halt[i]
  BY <1>4, <1>5 DEF WriteMemoryUsingAbsCmd, HaltCpu, EnableDmi
<1>9. \A i \in 7 .. 9 : all[i] = write[i - 6]
  BY <1>4, <1>5 DEF WriteMemoryUsingAbsCmd, HaltCpu, EnableDmi
<1>10. Accesses(r) = all
  BY <1>1, <1>2
<1>. HIDE DEF halt, begin, write, all
<1>11. \A i \in 1 .. 4 : all[i] = begin[i]
  BY <1>4, <1>8
<1>12. \A i \in 5 .. 6 : all[i] = HaltCpu[i - 4]
  BY <1>4, <1>8
<1>13. /\ all[1] = Rd("dmcontrol?") /\ all[2] = Wr("dmcontrol", "enable")
       /\ all[3] = Wr("command", Unsupported) /\ all[4] = Rd("cmderr")
  BY <1>3, <1>11
<1>14. /\ all[5] = Rd("dmcontrol?") /\ all[6] = Wr("dmcontrol", "halt")
  BY <1>6, <1>12
<1>15. all[7] = write[1] /\ all[8] = write[2] /\ all[9] = write[3]
  BY <1>9
<1>16. /\ all[7] = Wr("data1", LedAddr) /\ all[8] = Wr("data0", LedWord)
       /\ all[9] = Wr("command", MemCommand(TRUE, FALSE))
  BY <1>5, <1>15
<1>. QED BY <1>7, <1>10, <1>13, <1>14, <1>16

LEMMA PortList ==
  ASSUME NEW r \in Calls, r.f = "dbg_test_init", session.program # "dbg_test_init"
  PROVE  /\ Len(Accesses(r)) = 8
         /\ Accesses(r)[1] = Wr("reset", "pulse")
         /\ Accesses(r)[2] = Rd("dmcontrol?")
         /\ Accesses(r)[3] = Wr("dmcontrol", "enable")
         /\ Accesses(r)[4] = Rd("dmcontrol?")
         /\ Accesses(r)[5] = Rd("command?")
         /\ Accesses(r)[6] = Wr("command", Unsupported)
         /\ Accesses(r)[7] = Rd("command?")
         /\ Accesses(r)[8] = Rd("cmderr")
<1>1. Accesses(r) = PortInit
  BY DEF Accesses, DbgTestInit
<1>. QED BY <1>1 DEF PortInit, EnableDmi, StartJtagTask

\* The accesses the lists are made of; only a bulk write has ABSTRACTAUTO among
\* them.
PlainOps ==
  [reg : {"data0", "data1"}, val : Values]
    \cup [reg : {"command"}, val : Commands]
    \cup [reg : {"progbuf0", "progbuf1"}, val : Instructions]
    \cup [reg : {"dmcontrol"}, val : {"halt", "resume", "enable"}]
    \cup [reg : {"reset"}, val : {"pulse"}]
    \cup [reg : {"dmcontrol?", "command?", "data0?", "cmderr"}]

Ops == PlainOps \cup [reg : {"abstractauto"}, val : BOOLEAN]

LEMMA OpsMade ==
  /\ \A v \in Values : Wr("data0", v) \in PlainOps /\ Wr("data1", v) \in PlainOps
  /\ \A c \in Commands : Wr("command", c) \in PlainOps
  /\ \A i \in Instructions : Wr("progbuf0", i) \in PlainOps /\ Wr("progbuf1", i) \in PlainOps
  /\ \A q \in {"halt", "resume", "enable"} : Wr("dmcontrol", q) \in PlainOps
  /\ Wr("reset", "pulse") \in PlainOps
  /\ \A q \in {"dmcontrol?", "command?", "data0?", "cmderr"} : Rd(q) \in PlainOps
BY DEF PlainOps, Wr, Rd

LEMMA CommandsMade ==
  /\ \A t \in {"read", "write", "no"}, r \in {"s0", "s1"}, p \in BOOLEAN :
       RegCommand(t, r, p) \in Commands
  /\ \A w, i \in BOOLEAN : MemCommand(w, i) \in Commands
  /\ Unsupported \in Commands
BY DEF RegCommand, MemCommand, Commands, RegCommands, MemCommands

\* A list has at least one access, each of its type.
Lists(r) ==
  /\ Len(Accesses(r)) \in Nat \ {0}
  /\ \A i \in 1 .. Len(Accesses(r)) :
       \/ Accesses(r)[i] \in PlainOps
       \/ /\ r.f = "write_memory_bulk" /\ Len(Accesses(r)) > 4
          /\ \/ i = 4 /\ Accesses(r)[i] = Wr("abstractauto", TRUE)
             \/ i = Len(Accesses(r)) /\ Accesses(r)[i] = Wr("abstractauto", FALSE)

LEMMA AccessesTyped ==
  ASSUME NEW r \in Calls
  PROVE  Lists(r)
<1>1. /\ r.f \in Functions
      /\ r.f \in {"read_memory_abs", "read_memory_buf", "write_memory_abs",
                  "write_memory_buf", "write_memory_bulk"} => r.addr \in Values
      /\ r.f \in {"write_memory_abs", "write_memory_buf", "write_register",
                  "write_xpr_buf"} => r.data \in Values
      /\ r.f \in {"read_register", "write_register", "read_xpr_buf", "write_xpr_buf"}
           => r.reg \in {"s0", "s1"}
  BY Arguments DEF Values
<1>2. LedAddr \in Values /\ LedWord \in Values
  BY AbsCmdAssumption DEF Values, Addrs
<1>3. CASE r.f = "halt_cpu"
  <2>1. Accesses(r)[1] \in PlainOps /\ Accesses(r)[2] \in PlainOps
    BY <1>3, HaltList, OpsMade, CommandsMade
  <2>2. Len(Accesses(r)) = 2
    BY <1>3, HaltList
  <2>3. /\ Len(Accesses(r)) \in Nat \ {0}
        /\ \A i \in 1 .. Len(Accesses(r)) : Accesses(r)[i] \in PlainOps
    BY <2>1, <2>2
  <2>. QED BY <2>3 DEF Lists
<1>4. CASE r.f = "resume_cpu"
  <2>1. Accesses(r)[1] \in PlainOps /\ Accesses(r)[2] \in PlainOps
    BY <1>4, ResumeList, OpsMade, CommandsMade
  <2>2. Len(Accesses(r)) = 2
    BY <1>4, ResumeList
  <2>3. /\ Len(Accesses(r)) \in Nat \ {0}
        /\ \A i \in 1 .. Len(Accesses(r)) : Accesses(r)[i] \in PlainOps
    BY <2>1, <2>2
  <2>. QED BY <2>3 DEF Lists
<1>5. CASE r.f = "clear_cmderr"
  <2>1. Accesses(r)[1] \in PlainOps
    BY <1>5, ClearList, OpsMade, CommandsMade
  <2>2. Len(Accesses(r)) = 1
    BY <1>5, ClearList
  <2>3. /\ Len(Accesses(r)) \in Nat \ {0}
        /\ \A i \in 1 .. Len(Accesses(r)) : Accesses(r)[i] \in PlainOps
    BY <2>1, <2>2
  <2>. QED BY <2>3 DEF Lists
<1>6. CASE r.f = "read_register"
  <2>1. Accesses(r)[1] \in PlainOps /\ Accesses(r)[2] \in PlainOps
    BY <1>1, <1>6, ReadRegisterList, OpsMade, CommandsMade
  <2>2. Len(Accesses(r)) = 2
    BY <1>6, ReadRegisterList
  <2>3. /\ Len(Accesses(r)) \in Nat \ {0}
        /\ \A i \in 1 .. Len(Accesses(r)) : Accesses(r)[i] \in PlainOps
    BY <2>1, <2>2
  <2>. QED BY <2>3 DEF Lists
<1>7. CASE r.f = "write_register"
  <2>1. Accesses(r)[1] \in PlainOps /\ Accesses(r)[2] \in PlainOps
    BY <1>1, <1>7, WriteRegisterList, OpsMade, CommandsMade
  <2>2. Len(Accesses(r)) = 2
    BY <1>7, WriteRegisterList
  <2>3. /\ Len(Accesses(r)) \in Nat \ {0}
        /\ \A i \in 1 .. Len(Accesses(r)) : Accesses(r)[i] \in PlainOps
    BY <2>1, <2>2
  <2>. QED BY <2>3 DEF Lists
<1>8. CASE r.f = "read_xpr_buf"
  <2>1. /\ Accesses(r)[1] \in PlainOps /\ Accesses(r)[2] \in PlainOps /\ Accesses(r)[3] \in PlainOps
        /\ Accesses(r)[4] \in PlainOps /\ Accesses(r)[5] \in PlainOps
    BY <1>1, <1>8, ReadXprList, OpsMade, CommandsMade DEF Instructions
  <2>2. Len(Accesses(r)) = 5
    BY <1>8, ReadXprList
  <2>3. /\ Len(Accesses(r)) \in Nat \ {0}
        /\ \A i \in 1 .. Len(Accesses(r)) : Accesses(r)[i] \in PlainOps
    BY <2>1, <2>2
  <2>. QED BY <2>3 DEF Lists
<1>9. CASE r.f = "write_xpr_buf"
  <2>1. /\ Accesses(r)[1] \in PlainOps /\ Accesses(r)[2] \in PlainOps /\ Accesses(r)[3] \in PlainOps
        /\ Accesses(r)[4] \in PlainOps /\ Accesses(r)[5] \in PlainOps
    BY <1>1, <1>9, WriteXprList, OpsMade, CommandsMade DEF Instructions
  <2>2. Len(Accesses(r)) = 5
    BY <1>9, WriteXprList
  <2>3. /\ Len(Accesses(r)) \in Nat \ {0}
        /\ \A i \in 1 .. Len(Accesses(r)) : Accesses(r)[i] \in PlainOps
    BY <2>1, <2>2
  <2>. QED BY <2>3 DEF Lists
<1>10. CASE r.f = "read_memory_abs"
  <2>1. Accesses(r)[1] \in PlainOps /\ Accesses(r)[2] \in PlainOps /\ Accesses(r)[3] \in PlainOps
    BY <1>1, <1>10, ReadAbsList, OpsMade, CommandsMade
  <2>2. Len(Accesses(r)) = 3
    BY <1>10, ReadAbsList
  <2>3. /\ Len(Accesses(r)) \in Nat \ {0}
        /\ \A i \in 1 .. Len(Accesses(r)) : Accesses(r)[i] \in PlainOps
    BY <2>1, <2>2
  <2>. QED BY <2>3 DEF Lists
<1>11. CASE r.f = "read_memory_buf"
  <2>1. /\ Accesses(r)[1] \in PlainOps /\ Accesses(r)[2] \in PlainOps /\ Accesses(r)[3] \in PlainOps
        /\ Accesses(r)[4] \in PlainOps /\ Accesses(r)[5] \in PlainOps /\ Accesses(r)[6] \in PlainOps
    BY <1>1, <1>11, ReadBufList, OpsMade, CommandsMade DEF Instructions
  <2>2. Len(Accesses(r)) = 6
    BY <1>11, ReadBufList
  <2>3. /\ Len(Accesses(r)) \in Nat \ {0}
        /\ \A i \in 1 .. Len(Accesses(r)) : Accesses(r)[i] \in PlainOps
    BY <2>1, <2>2
  <2>. QED BY <2>3 DEF Lists
<1>12. CASE r.f = "write_memory_abs"
  <2>1. Accesses(r)[1] \in PlainOps /\ Accesses(r)[2] \in PlainOps /\ Accesses(r)[3] \in PlainOps
    BY <1>1, <1>12, WriteAbsList, OpsMade, CommandsMade
  <2>2. Len(Accesses(r)) = 3
    BY <1>12, WriteAbsList
  <2>3. /\ Len(Accesses(r)) \in Nat \ {0}
        /\ \A i \in 1 .. Len(Accesses(r)) : Accesses(r)[i] \in PlainOps
    BY <2>1, <2>2
  <2>. QED BY <2>3 DEF Lists
<1>13. CASE r.f = "write_memory_buf"
  <2>1. /\ Accesses(r)[1] \in PlainOps /\ Accesses(r)[2] \in PlainOps /\ Accesses(r)[3] \in PlainOps
        /\ Accesses(r)[4] \in PlainOps /\ Accesses(r)[5] \in PlainOps /\ Accesses(r)[6] \in PlainOps
    BY <1>1, <1>13, WriteBufList, OpsMade, CommandsMade DEF Instructions
  <2>2. Len(Accesses(r)) = 6
    BY <1>13, WriteBufList
  <2>3. /\ Len(Accesses(r)) \in Nat \ {0}
        /\ \A i \in 1 .. Len(Accesses(r)) : Accesses(r)[i] \in PlainOps
    BY <2>1, <2>2
  <2>. QED BY <2>3 DEF Lists
<1>14. CASE r.f = "write_memory_bulk"
  <2>1. /\ Len(r.data) \in Nat \ {0}
        /\ \A i \in 1 .. Len(r.data) : r.data[i] \in Values
    BY <1>14, BulkList DEF Values
  <2>2. \A i \in 1 .. 3 : Accesses(r)[i] \in PlainOps
    <3>1. r.data[1] \in Values
      BY <2>1
    <3>2. /\ Accesses(r)[1] \in PlainOps /\ Accesses(r)[2] \in PlainOps
          /\ Accesses(r)[3] \in PlainOps
      BY <1>1, <1>14, <3>1, BulkList, OpsMade, CommandsMade
    <3>. QED BY <3>2
  <2>3. \A i \in 5 .. Len(r.data) + 3 : Accesses(r)[i] \in PlainOps
    <3>. TAKE i \in 5 .. Len(r.data) + 3
    <3>1. i - 3 \in 1 .. Len(r.data) /\ r.data[i - 3] \in Values
      BY <2>1
    <3>. QED BY <1>14, <3>1, BulkList, OpsMade
  <2>4. /\ Len(Accesses(r)) = Len(r.data) + 4
        /\ Accesses(r)[4] = Wr("abstractauto", TRUE)
        /\ Accesses(r)[Len(r.data) + 4] = Wr("abstractauto", FALSE)
    BY <1>14, BulkList
  <2>5. \A i \in 1 .. Len(r.data) + 4 :
          i \in 1 .. 3 \/ i = 4 \/ i \in 5 .. Len(r.data) + 3 \/ i = Len(r.data) + 4
    BY <2>1
  <2>6. Len(Accesses(r)) \in Nat \ {0} /\ Len(Accesses(r)) > 4
    BY <2>1, <2>4
  <2>7. ASSUME NEW i \in 1 .. Len(Accesses(r))
        PROVE  \/ Accesses(r)[i] \in PlainOps
               \/ i = 4 /\ Accesses(r)[i] = Wr("abstractauto", TRUE)
               \/ i = Len(Accesses(r)) /\ Accesses(r)[i] = Wr("abstractauto", FALSE)
    BY <2>2, <2>3, <2>4, <2>5
  <2>. QED BY <1>14, <2>6, <2>7 DEF Lists
<1>15. CASE r.f = "dbg_test_init" /\ session.program = "dbg_test_init"
  <2>1. /\ Accesses(r)[1] \in PlainOps /\ Accesses(r)[2] \in PlainOps /\ Accesses(r)[3] \in PlainOps
        /\ Accesses(r)[4] \in PlainOps /\ Accesses(r)[5] \in PlainOps /\ Accesses(r)[6] \in PlainOps
        /\ Accesses(r)[7] \in PlainOps /\ Accesses(r)[8] \in PlainOps /\ Accesses(r)[9] \in PlainOps
    BY <1>2, <1>15, BenchList, OpsMade, CommandsMade
  <2>2. Len(Accesses(r)) = 9
    BY <1>15, BenchList
  <2>3. /\ Len(Accesses(r)) \in Nat \ {0}
        /\ \A i \in 1 .. Len(Accesses(r)) : Accesses(r)[i] \in PlainOps
    BY <2>1, <2>2
  <2>. QED BY <2>3 DEF Lists
<1>16. CASE r.f = "dbg_test_init" /\ session.program # "dbg_test_init"
  <2>1. /\ Accesses(r)[1] \in PlainOps /\ Accesses(r)[2] \in PlainOps /\ Accesses(r)[3] \in PlainOps
        /\ Accesses(r)[4] \in PlainOps /\ Accesses(r)[5] \in PlainOps /\ Accesses(r)[6] \in PlainOps
        /\ Accesses(r)[7] \in PlainOps /\ Accesses(r)[8] \in PlainOps
    BY <1>16, PortList, OpsMade, CommandsMade
  <2>2. Len(Accesses(r)) = 8
    BY <1>16, PortList
  <2>3. /\ Len(Accesses(r)) \in Nat \ {0}
        /\ \A i \in 1 .. Len(Accesses(r)) : Accesses(r)[i] \in PlainOps
    BY <2>1, <2>2
  <2>. QED BY <2>3 DEF Lists
<1>. QED
  BY <1>1, <1>3, <1>4, <1>5, <1>6, <1>7, <1>8, <1>9,
     <1>10, <1>11, <1>12, <1>13, <1>14, <1>15, <1>16 DEF Functions

\* The fields of an access.
LEMMA Fields ==
  /\ \A x, v : Wr(x, v).reg = x /\ Wr(x, v).val = v
  /\ \A x : Rd(x).reg = x
BY DEF Wr, Rd

LEMMA ListsTyped ==
  ASSUME NEW r \in Calls
  PROVE  /\ Len(Accesses(r)) \in Nat \ {0}
         /\ \A i \in 1 .. Len(Accesses(r)) : Accesses(r)[i] \in Ops
<1>1. Wr("abstractauto", TRUE) \in Ops /\ Wr("abstractauto", FALSE) \in Ops
  BY DEF Ops, Wr
<1>. QED BY <1>1, AccessesTyped DEF Lists, Ops

\* The list depends on the program of the session, which stays.
LEMMA SameAccesses ==
  ASSUME NEW r, session' = session
  PROVE  Accesses(r)' = Accesses(r)
BY DEF Accesses, DbgTestInit, HaltCpu, ResumeCpu, ClearCmderr, ReadRegisterUsingAbsCmd,
       WriteRegisterUsingAbsCmd, ReadXprUsingPrgBuf, WriteXprUsingPrgBuf,
       ReadMemoryUsingAbsCmd, ReadMemoryUsingPrgBuf, WriteMemoryUsingAbsCmd,
       WriteMemoryUsingPrgBuf, WriteMemoryBulkAbsCmd

-------------------------------------------------------------------------------
(* Types                                                                   *)

\* An access of the right type, and a step of the hart, keep the types of the
\* Debug Module.
LEMMA PerformTyped ==
  ASSUME DmTypeOK, NEW o \in Ops, Perform(o)
  PROVE  DmTypeOK'
<1>1. CASE o.reg = "reset" /\ ResetChip
  BY <1>1 DEF DmTypeOK, ResetChip, Values, Instructions
<1>2. CASE o.reg = "dmcontrol" /\ WriteDmcontrol(o.val)
  <2>1. o.val \in {"halt", "resume", "enable"}
    BY <1>2 DEF Ops, PlainOps
  <2>2. asked' \in {"nothing", "halt", "resume"}
    BY <1>2, <2>1 DEF DmTypeOK, WriteDmcontrol
  <2>3. active' \in BOOLEAN
    BY <1>2, <2>1 DEF DmTypeOK, WriteDmcontrol
  <2>. QED BY <1>2, <2>2, <2>3 DEF DmTypeOK, WriteDmcontrol
<1>3. CASE UNCHANGED dm
  BY <1>3 DEF DmTypeOK, dm
<1>4. CASE active /\ UNCHANGED active /\ o.reg = "data0" /\ WriteData0(o.val)
  <2>1. o.val \in Values
    BY <1>4 DEF Ops, PlainOps
  <2>. QED BY <1>4, <2>1 DEF DmTypeOK, WriteData0, WhileBusy, Autoexec
<1>5. CASE active /\ UNCHANGED active /\ o.reg = "data1" /\ WriteData1(o.val)
  <2>1. o.val \in Values
    BY <1>5 DEF Ops, PlainOps
  <2>. QED BY <1>5, <2>1 DEF DmTypeOK, WriteData1, WhileBusy
<1>6. CASE active /\ UNCHANGED active /\ o.reg = "data0?" /\ ReadData0
  BY <1>6 DEF DmTypeOK, ReadData0, WhileBusy, Autoexec
<1>7. CASE active /\ UNCHANGED active /\ o.reg = "command" /\ WriteCommand(o.val)
  <2>1. o.val \in Commands
    BY <1>7 DEF Ops, PlainOps
  <2>. QED BY <1>7, <2>1 DEF DmTypeOK, WriteCommand, WhileBusy
<1>8. CASE active /\ UNCHANGED active /\ o.reg = "abstractauto" /\ WriteAbstractauto(o.val)
  <2>1. o.val \in BOOLEAN
    BY <1>8 DEF Ops, PlainOps
  <2>. QED BY <1>8, <2>1 DEF DmTypeOK, WriteAbstractauto, WhileBusy
<1>9. ASSUME NEW i \in {0, 1}, active /\ UNCHANGED active,
             o.reg \in {"progbuf0", "progbuf1"}, WriteProgbuf(i, o.val)
      PROVE  DmTypeOK'
  <2>1. o.val \in Instructions
    BY <1>9 DEF Ops, PlainOps
  <2>. QED BY <1>9, <2>1 DEF DmTypeOK, WriteProgbuf, WhileBusy
<1>10. CASE active /\ UNCHANGED active /\ WriteCmderr
  BY <1>10 DEF DmTypeOK, WriteCmderr, WhileBusy
<1>. QED
  BY <1>1, <1>2, <1>3, <1>4, <1>5, <1>6, <1>7, <1>8, <1>9, <1>10 DEF Perform, ReadRegister

LEMMA HartTyped ==
  ASSUME DmTypeOK, Hart
  PROVE  DmTypeOK'
<1>. active' = active
  BY DEF Hart
<1>1. CASE HartHonours
  BY <1>1 DEF HartHonours, DmTypeOK
<1>2. CASE Refuse
  BY <1>2 DEF Refuse, CommandError, DmTypeOK
<1>3. CASE AccessMemory
  <2>1. CASE ~halted \/ data1 \notin Mapped
    BY <1>3, <2>1 DEF AccessMemory, CommandError, DmTypeOK
  <2>2. CASE halted /\ data1 \in Mapped
    <3>1. data1 + 1 \in Values
      BY <2>2 DEF Values
    <3>2. data1' \in Values /\ data0' \in Values /\ mem' \in [Mapped -> Values]
      BY <1>3, <2>2, <3>1 DEF AccessMemory, DmTypeOK
    <3>. QED BY <1>3, <2>2, <3>2 DEF AccessMemory, DmTypeOK
  <2>. QED BY <2>1, <2>2
<1>4. CASE AccessRegister
  <2>1. CASE ~halted
    BY <1>4, <2>1 DEF AccessRegister, CommandError, DmTypeOK
  <2>2. CASE halted
    <3>1. running \in RegCommands
      BY <1>4, NoneAssumption DEF AccessRegister, Busy, DmTypeOK, Commands, MemCommands,
                                  Unsupported
    <3>2. data0' \in Values
      BY <1>4, <2>2, <3>1 DEF AccessRegister, DmTypeOK, RegCommands
    <3>3. Transferred(running) \in [{"s0", "s1"} -> Values]
      BY <3>1 DEF Transferred, DmTypeOK, RegCommands
    <3>4. CASE ~running.postexec
      BY <1>4, <2>2, <3>2, <3>3, <3>4 DEF AccessRegister, DmTypeOK
    <3>5. CASE running.postexec
      <4>1. RunProgram(Transferred(running))
        BY <1>4, <2>2, <3>5 DEF AccessRegister
      <4>2. ASSUME NEW r \in [{"s0", "s1"} -> Values], RunProgram(r)
            PROVE  /\ regs' \in [{"s0", "s1"} -> Values] /\ mem' \in [Mapped -> Values]
                   /\ running' = None
                   /\ cmderr' \in {"none", "busy", "exception", "haltresume", "notsup"}
        BY <4>2 DEF RunProgram, DmTypeOK
      <4>. QED BY <1>4, <2>2, <3>2, <3>3, <4>1, <4>2 DEF AccessRegister, DmTypeOK
    <3>. QED BY <3>4, <3>5
  <2>. QED BY <2>1, <2>2
<1>. QED BY <1>1, <1>2, <1>3, <1>4 DEF Hart

LEMMA InitTyped == Init => TypeOK
<1>. SUFFICES ASSUME Init PROVE TypeOK
  OBVIOUS
<1>1. DmTypeOK
  BY DEF Init, DmInit, DmTypeOK, Values, Instructions
<1>2. req \in Calls
  BY DEF Init, Calls, NoArgs
<1>3. k \in 1 .. Len(Accesses(req)) + 1
  BY <1>2, AccessesTyped DEF Init, Lists
<1>. QED BY <1>1, <1>2, <1>3 DEF Init, TypeOK

LEMMA AccessTyped ==
  ASSUME TypeOK, Access \/ AccessFails
  PROVE  TypeOK'
<1>. DEFINE o == Accesses(req)[k]
<1>1. req' = req /\ session' = session /\ k <= Len(Accesses(req))
  BY DEF Access, AccessFails
<1>2. Accesses(req)' = Accesses(req)
  BY <1>1, SameAccesses
<1>3. Len(Accesses(req)) \in Nat /\ o \in Ops /\ k \in 1 .. Len(Accesses(req))
  BY <1>1, ListsTyped DEF TypeOK
<1>4. DmTypeOK'
  <2>1. CASE Perform(o)
    BY <2>1, <1>3, PerformTyped DEF TypeOK
  <2>2. CASE UNCHANGED dm
    BY <2>2 DEF TypeOK, DmTypeOK, dm
  <2>. QED BY <2>1, <2>2 DEF Access, AccessFails
<1>5. k' \in 1 .. Len(Accesses(req)) + 1
  BY <1>3 DEF Access, AccessFails
<1>6. issuer' \in Calls \cup {None}
  BY DEF Access, AccessFails, NoteIssuer, TypeOK
<1>7. /\ out' \in Values \cup {None} /\ link' \in {"up", "down"}
      /\ pc' \in {"idle", "call"} /\ ret' \in {"none", "ok", "error"}
      /\ {started, ready, cut}' \subseteq BOOLEAN
  BY DEF Access, AccessFails, TypeOK, DmTypeOK
<1>. QED BY <1>1, <1>2, <1>4, <1>5, <1>6, <1>7 DEF TypeOK

LEMMA StepTyped == TypeOK /\ [Next]_vars => TypeOK'
<1>. SUFFICES ASSUME TypeOK, [Next]_vars PROVE TypeOK'
  OBVIOUS
<1>1. session' = session
  BY DEF Next, Call, Access, AccessFails, Return, Restart, Hart, vars, driver
<1>2. ASSUME NEW r \in Calls, Call(r) PROVE TypeOK'
  <2>1. Accesses(r)' = Accesses(r) /\ Len(Accesses(r)) \in Nat
    BY <1>1, SameAccesses, AccessesTyped DEF Lists
  <2>2. DmTypeOK'
    BY <1>2 DEF Call, TypeOK, DmTypeOK
  <2>3. k' \in 1 .. Len(Accesses(req))' + 1
    BY <1>2, <2>1 DEF Call
  <2>4. cut' \in BOOLEAN /\ ready' \in BOOLEAN
    BY <1>2, <2>2 DEF Call, TypeOK, DmTypeOK
  <2>. QED BY <1>2, <2>2, <2>3, <2>4 DEF Call, TypeOK
<1>3. CASE Access \/ AccessFails
  BY <1>3, AccessTyped
<1>4. CASE Return \/ Restart
  <2>1. Accesses(req)' = Accesses(req) /\ Len(Accesses(req)) \in Nat
    BY <1>1, <1>4, SameAccesses, AccessesTyped DEF Lists, Return, Restart, TypeOK
  <2>2. DmTypeOK'
    BY <1>4 DEF Return, Restart, TypeOK, DmTypeOK, dm
  <2>3. req' = req /\ k' \in 1 .. Len(Accesses(req))' + 1
    BY <1>4, <2>1 DEF Return, Restart
  <2>4. ret' \in {"none", "ok", "error"} /\ out' \in Values \cup {None}
    BY <1>4 DEF Return, Restart, TypeOK
  <2>. QED BY <1>4, <2>2, <2>3, <2>4 DEF Return, Restart, TypeOK
<1>5. CASE Hart
  <2>1. Accesses(req)' = Accesses(req)
    BY <1>1, <1>5, SameAccesses DEF Hart
  <2>2. DmTypeOK'
    BY <1>5, HartTyped DEF TypeOK
  <2>. QED BY <1>5, <2>1, <2>2 DEF Hart, TypeOK
<1>6. CASE UNCHANGED vars
  <2>1. Accesses(req)' = Accesses(req)
    BY <1>1, <1>6, SameAccesses DEF vars, driver
  <2>. QED BY <1>6, <2>1 DEF vars, dm, driver, TypeOK, DmTypeOK
<1>. QED BY <1>2, <1>3, <1>4, <1>5, <1>6 DEF Next

\* What the driver and the Debug Module hold is always one of the values the
\* model gives them: a word, an address, the address after a cell, or 0.
THEOREM TypeCorrect == Spec => []TypeOK
BY InitTyped, StepTyped, PTL DEF Spec

-------------------------------------------------------------------------------
(* Autoexec                                                                *)

\* A hart slower than the link is not given a bulk write: it may still run a
\* command when the last access of the list comes, which then is lost.
NoSlowBulk == \A s \in Sessions : s.slow => "write_memory_bulk" \notin s.functions

\* Between its fourth access and its last a bulk write has autoexec on, and
\* after it only when it was cut short there.
AutoInv ==
  /\ active \/ ~auto
  /\ pc = "call" => req.f \in session.functions
  /\ session.slow => ~auto /\ ~cut
  /\ auto => \/ cut
             \/ /\ req.f = "write_memory_bulk"
                /\ IF pc = "idle" THEN ret # "ok" ELSE k \in 5 .. Len(Accesses(req))

\* Only the bulk write touches ABSTRACTAUTO.
LEMMA AutoAccesses ==
  ASSUME NEW r \in Calls, NEW i \in 1 .. Len(Accesses(r)),
         Accesses(r)[i].reg = "abstractauto"
  PROVE  /\ r.f = "write_memory_bulk" /\ Len(Accesses(r)) > 4
         /\ i = 4 \/ (i = Len(Accesses(r)) /\ Accesses(r)[i] = Wr("abstractauto", FALSE))
<1>1. Accesses(r)[i] \notin PlainOps
  BY DEF PlainOps
<1>2. Lists(r)
  BY AccessesTyped
<1>. QED BY <1>1, <1>2 DEF Lists

\* Any other access leaves autoexec as it is; a reset may switch it off.
LEMMA AutoPerformed ==
  ASSUME DmTypeOK, NEW o \in Ops, Perform(o), active \/ ~auto
  PROVE  /\ active' \/ ~auto'
         /\ o.reg # "abstractauto" => ~auto' \/ auto' = auto
         /\ o = Wr("abstractauto", FALSE) /\ ~Busy => ~auto'
BY DEF DmTypeOK, Perform, ResetChip, WriteDmcontrol, ReadRegister, dm, WriteData0,
       WriteData1, ReadData0, WriteCommand, WriteAbstractauto, WriteProgbuf, WriteCmderr,
       WhileBusy, Wr

LEMMA AutoStep ==
  ASSUME NoSlowBulk, TypeOK, AutoInv, [Next]_vars
  PROVE  AutoInv'
<1>1. session' = session
  BY DEF Next, Call, Access, AccessFails, Return, Restart, Hart, vars, driver
<1>2. ASSUME NEW r \in Calls, Call(r) PROVE AutoInv'
  BY <1>1, <1>2 DEF Call, AutoInv
<1>3. CASE Access \/ AccessFails
  <2>. DEFINE o == Accesses(req)[k]
  <2>1. /\ req' = req /\ cut' = cut /\ pc = "call" /\ k \in 1 .. Len(Accesses(req))
        /\ Accesses(req)' = Accesses(req) /\ o \in Ops /\ Len(Accesses(req)) \in Nat
    BY <1>1, <1>3, SameAccesses, ListsTyped DEF Access, AccessFails, TypeOK
  <2>2. /\ Access => Perform(o) /\ pc' = "call" /\ k' = k + 1
        /\ AccessFails => Perform(o) \/ UNCHANGED dm
    BY <2>1 DEF Access, AccessFails
  <2>3. AccessFails => \/ pc' = "idle" /\ (ret' = "error" \/ LeavesUnset)
                       \/ pc' = "call" /\ req.f = "dbg_test_init"
    BY <2>1 DEF AccessFails, GoesOn, LeavesUnset
  <2>4. /\ active' \/ ~auto'
        /\ o.reg # "abstractauto" => ~auto' \/ auto' = auto
    <3>1. CASE Perform(o)
      BY <2>1, <3>1, AutoPerformed DEF TypeOK, AutoInv
    <3>2. CASE UNCHANGED dm
      BY <3>2 DEF AutoInv, dm
    <3>. QED BY <1>3, <2>2, <3>1, <3>2
  <2>5. o.reg = "abstractauto"
          => /\ req.f = "write_memory_bulk" /\ Len(Accesses(req)) > 4
             /\ k = 4 \/ (k = Len(Accesses(req)) /\ o = Wr("abstractauto", FALSE))
    BY <2>1, AutoAccesses DEF TypeOK
  <2>6. req.f = "write_memory_bulk" => ~session.slow /\ ~LeavesUnset
    BY <2>1 DEF AutoInv, TypeOK, NoSlowBulk, LeavesUnset, TableFunctions
  <2>7. session.slow => ~auto'
    BY <2>1, <2>4, <2>5, <2>6 DEF AutoInv, TypeOK
  <2>8. ASSUME auto', ~cut
        PROVE  /\ req.f = "write_memory_bulk"
               /\ Access => k \in 4 .. Len(Accesses(req)) - 1
    <3>1. CASE o.reg = "abstractauto"
      <4>1. ~Busy
        BY <2>5, <2>6, <3>1, <1>3 DEF Access, AccessFails, InTime, Settled
      <4>2. CASE k = 4
        BY <2>1, <2>5, <3>1, <4>2
      <4>3. CASE o = Wr("abstractauto", FALSE)
        <5>1. Perform(o) => ~auto'
          BY <2>1, <4>1, <4>3, AutoPerformed DEF TypeOK, AutoInv
        <5>. QED BY <2>2, <2>5, <2>8, <3>1, <5>1
      <4>. QED BY <2>5, <3>1, <4>2, <4>3
    <3>2. CASE o.reg # "abstractauto"
      <4>1. auto /\ req.f = "write_memory_bulk" /\ k \in 5 .. Len(Accesses(req))
        BY <2>1, <2>4, <2>8, <3>2 DEF AutoInv
      <4>2. Accesses(req)[Len(Accesses(req))] = Wr("abstractauto", FALSE)
        BY <2>1, <4>1, BulkList DEF TypeOK
      <4>3. k # Len(Accesses(req))
        BY <3>2, <4>2, Fields
      <4>. QED BY <2>1, <4>1, <4>3
    <3>. QED BY <3>1, <3>2
  <2>. QED
    BY <1>1, <1>3, <2>1, <2>2, <2>3, <2>4, <2>6, <2>7, <2>8 DEF AutoInv, TypeOK
<1>4. CASE Return
  BY <1>1, <1>4 DEF Return, AutoInv, dm, TypeOK
<1>5. CASE Restart
  BY <1>1, <1>5 DEF Restart, AutoInv, dm, TypeOK
<1>6. CASE Hart
  <2>1. Accesses(req)' = Accesses(req)
    BY <1>1, <1>6, SameAccesses DEF Hart
  <2>2. auto' = auto /\ active' = active
    BY <1>6 DEF Hart, HartHonours, AccessRegister, AccessMemory, Refuse, CommandError
  <2>. QED BY <1>6, <2>1, <2>2 DEF Hart, AutoInv
<1>7. CASE UNCHANGED vars
  <2>1. Accesses(req)' = Accesses(req)
    BY <1>1, <1>7, SameAccesses DEF vars, driver
  <2>. QED BY <1>7, <2>1 DEF vars, dm, driver, AutoInv
<1>. QED BY <1>2, <1>3, <1>4, <1>5, <1>6, <1>7 DEF Next

\* The invariant behind AutoexecOff: autoexec is on only inside a bulk write,
\* between its fourth access and its last, or after one was cut short.
THEOREM AutoInvHolds ==
  ASSUME NoSlowBulk
  PROVE  Spec => []AutoInv
<1>1. Init => AutoInv
  BY AbsCmdAssumption DEF Init, DmInit, AutoInv
<1>2. TypeOK /\ AutoInv /\ [Next]_vars => AutoInv'
  BY AutoStep
<1>. QED BY <1>1, <1>2, TypeCorrect, PTL DEF Spec

\* A call that returns 0 leaves autoexec off, so that no access to DATA0 after
\* it runs the bulk write's command again; only a bulk write that was cut short
\* before the call leaves it on.
THEOREM AutoexecOffHolds ==
  ASSUME NoSlowBulk
  PROVE  Spec => []AutoexecOff
<1>1. TypeOK /\ AutoInv => AutoexecOff
  BY DEF TypeOK, AutoInv, AutoexecOff, Returned
<1>. QED BY <1>1, AutoInvHolds, TypeCorrect, PTL

-------------------------------------------------------------------------------
(***************************************************************************)
(* The memory writes of commands (OnlyAsked, NoneAstray).  The invariant   *)
(* says, function by function, what the accesses carried out so far have   *)
(* left where the next command will look for it (Course); from it follows  *)
(* what a command that writes to memory writes when it is started          *)
(* (OneOfIssuer, NextOfCall), and that nothing on the way changes it       *)
(* before the hart is done with it.                                        *)
(***************************************************************************)

\* The running command writes to memory when it is done, and what.
Writing == /\ Busy
           /\ \/ running.type = "mem" /\ running.write
              \/ running.type = "reg" /\ running.postexec /\ progbuf[0] = "sw_s1_s0"
Target  == IF running.type = "mem" THEN <<data1, data0>>
           ELSE <<Transferred(running)["s0"], Transferred(running)["s1"]>>

\* Every access of the call so far has been carried out.
Clean == pc = "call" /\ ~cut /\ active /\ cmderr = "none" /\ link = "up"

\* Where the call in progress is, function by function: what the accesses so
\* far have left in the registers that the next command uses.
WriteAbsCourse ==
  Clean /\ req.f = "write_memory_abs" =>
    /\ k \in {2, 3} => ~Busy /\ data1 = req.addr
    /\ k = 3 => data0 = req.data

WriteBufCourse ==
  Clean /\ req.f = "write_memory_buf" =>
    /\ k > 1 => progbuf[0] = "sw_s1_s0"
    /\ k \in {2, 3, 4, 6} => ~Busy
    /\ k \in {4, 5} => data0 = req.addr
    /\ k = 5 /\ Busy => running = RegCommand("write", "s0", FALSE)
    /\ k = 5 /\ ~Busy => regs["s0"] = req.addr
    /\ k = 6 => regs["s0"] = req.addr /\ data0 = req.data

BenchCourse ==
  Clean /\ req.f = "dbg_test_init" /\ session.program = "dbg_test_init" =>
    /\ k \in {8, 9} => ~Busy /\ data1 = LedAddr
    /\ k = 9 => data0 = LedWord

\* The words of a bulk write whose command has been started.
Begun == IF k = 4 THEN 1 ELSE k - 4

BulkCourse ==
  Clean /\ req.f = "write_memory_bulk" =>
    /\ k \in {2, 3} => ~Busy /\ data1 = req.addr
    /\ k = 3 => data0 = req.data[1]
    /\ k \in 4 .. Len(req.data) + 4 =>
         /\ command = MemCommand(TRUE, TRUE) /\ (k > 4 => auto)
         /\ Busy => /\ running = MemCommand(TRUE, TRUE) /\ Len(writes) = Begun - 1
                    /\ data1 = req.addr + Begun - 1 /\ data0 = req.data[Begun]
         /\ ~Busy => data1 = req.addr + Begun /\ Len(writes) = Begun

\* The functions that run a program that writes nothing have put it there.
OtherProgram ==
  /\ Clean /\ req.f = "read_memory_buf" /\ k > 1 => progbuf[0] = "lw_s0_s0"
  /\ Clean /\ req.f = "read_xpr_buf" /\ k > 1    => progbuf[0] = "addi_s0_s1"
  /\ Clean /\ req.f = "write_xpr_buf" /\ k > 2   => progbuf[0] = "addi_s1_s0"

Course == WriteAbsCourse /\ WriteBufCourse /\ BenchCourse /\ BulkCourse /\ OtherProgram

\* A running command writes what its call asked for ...
OneOfIssuer ==
  Writing /\ ~cut =>
    issuer # None /\ \E i \in DOMAIN Asked(issuer) : Asked(issuer)[i] = Target

\* ... and, with a hart that keeps up, the next of the call in progress.
NextOfCall ==
  ~session.slow /\ ~cut /\ Writing =>
    Len(writes) < Len(Asked(req)) /\ Asked(req)[Len(writes) + 1] = Target

\* The position of the access that starts the first memory write.
FirstWrite ==
  CASE req.f = "write_memory_abs"  -> 3
    [] req.f = "write_memory_buf"  -> 6
    [] req.f = "write_memory_bulk" -> 3
    [] OTHER -> 9

NoneYet ==
  ~session.slow /\ ~cut /\ pc = "call" /\ k <= FirstWrite => writes = << >> /\ ~Writing

\* The invariant of this module.
WriteInv ==
  /\ writes \in Seq(Values \X Values)
  /\ Course /\ OneOfIssuer /\ NextOfCall /\ NoneYet /\ OnlyAsked

\* What is left by an access that was carried out: the block is active, and
\* there is no error after it.
Done == active' /\ cmderr' = "none"
Reached == active /\ cmderr = "none" /\ ~Busy

\* Each access, when it was carried out.
LEMMA Data0Done ==
  ASSUME NEW v, Perform(Wr("data0", v)), Done
  PROVE  /\ Reached /\ data0' = v
         /\ running' = IF auto THEN command ELSE running
         /\ UNCHANGED <<halted, asked, command, auto, data1, progbuf, regs, mem, writes>>
BY DEF Perform, Wr, WriteData0, WhileBusy, Autoexec, Control, Done, Reached, dm

LEMMA Data1Done ==
  ASSUME NEW v, Perform(Wr("data1", v)), Done
  PROVE  /\ Reached /\ data1' = v
         /\ UNCHANGED <<halted, asked, running, command, auto, data0, progbuf, regs, mem,
                        writes>>
BY DEF Perform, Wr, WriteData1, WhileBusy, Control, Done, Reached, dm

LEMMA CommandDone ==
  ASSUME NEW c, Perform(Wr("command", c)), Done
  PROVE  /\ Reached /\ command' = c /\ running' = c
         /\ UNCHANGED <<halted, asked, auto, data0, data1, progbuf, regs, mem, writes>>
BY DEF Perform, Wr, WriteCommand, WhileBusy, Control, Done, Reached, dm

LEMMA AbstractautoDone ==
  ASSUME NEW b, Perform(Wr("abstractauto", b)), Done
  PROVE  /\ Reached /\ auto' = b
         /\ UNCHANGED <<halted, asked, running, command, data0, data1, progbuf, regs, mem,
                        writes>>
BY DEF Perform, Wr, WriteAbstractauto, WhileBusy, Control, Done, Reached, dm

LEMMA ProgbufDone ==
  /\ \A v : Perform(Wr("progbuf0", v)) /\ Done =>
       /\ Reached /\ progbuf' = [progbuf EXCEPT ![0] = v]
       /\ UNCHANGED <<halted, asked, running, command, auto, data0, data1, regs, mem, writes>>
  /\ \A v : Perform(Wr("progbuf1", v)) /\ Done =>
       /\ Reached /\ progbuf' = [progbuf EXCEPT ![1] = v]
       /\ UNCHANGED <<halted, asked, running, command, auto, data0, data1, regs, mem, writes>>
BY DEF Perform, Wr, WriteProgbuf, WhileBusy, Control, Done, Reached, dm

LEMMA Data0Read ==
  ASSUME Perform(Rd("data0?")), Done
  PROVE  /\ Reached
         /\ running' = IF auto THEN command ELSE running
         /\ UNCHANGED <<halted, asked, command, auto, data0, data1, progbuf, regs, mem, writes>>
BY DEF Perform, Rd, ReadData0, WhileBusy, Autoexec, Control, Done, Reached, dm

\* What a call asks for.
LEMMA AskedByAbsOrBuf ==
  ASSUME NEW r, r.f \in {"write_memory_abs", "write_memory_buf"}
  PROVE  Len(Asked(r)) = 1 /\ Asked(r)[1] = <<r.addr, r.data>> /\ DOMAIN Asked(r) = {1}
BY DEF Asked

LEMMA AskedByBench ==
  ASSUME NEW r, r.f = "dbg_test_init", session.program = "dbg_test_init"
  PROVE  Len(Asked(r)) = 1 /\ Asked(r)[1] = <<LedAddr, LedWord>> /\ DOMAIN Asked(r) = {1}
BY DEF Asked

LEMMA AskedByBulk ==
  ASSUME NEW r \in Calls, r.f = "write_memory_bulk"
  PROVE  /\ Len(Asked(r)) = Len(r.data) /\ DOMAIN Asked(r) = 1 .. Len(r.data)
         /\ \A i \in 1 .. Len(r.data) : Asked(r)[i] = <<r.addr + i - 1, r.data[i]>>
BY BulkList DEF Asked

LEMMA SameAsked ==
  ASSUME session' = session
  PROVE  \A r : Asked(r)' = Asked(r)
BY DEF Asked

LEMMA NotNone ==
  /\ \A t \in {"read", "write", "no"}, r \in {"s0", "s1"}, p \in BOOLEAN :
       RegCommand(t, r, p) # None
  /\ \A w, i \in BOOLEAN : MemCommand(w, i) # None
BY CommandsMade, NoneAssumption

\* Accesses that leave the first word of the program buffer alone.
LEMMA KeepsProgram ==
  ASSUME DmTypeOK, NEW o, o.reg \in {"progbuf1", "data0", "command", "data0?"},
         Perform(o), Done
  PROVE  Reached /\ progbuf'[0] = progbuf[0]
<1>1. active /\ active' = active
  BY DEF Perform, Control, Done, dm
<1>2. CASE o.reg = "progbuf1"
  <2>1. WriteProgbuf(1, o.val)
    BY <1>1, <1>2 DEF Perform, Control
  <2>. QED BY <1>1, <2>1 DEF DmTypeOK, WriteProgbuf, WhileBusy, Done, Reached
<1>3. CASE o.reg = "data0"
  <2>1. WriteData0(o.val)
    BY <1>1, <1>3 DEF Perform, Control
  <2>. QED BY <1>1, <2>1 DEF WriteData0, WhileBusy, Done, Reached
<1>4. CASE o.reg = "command"
  <2>1. WriteCommand(o.val)
    BY <1>1, <1>4 DEF Perform, Control
  <2>. QED BY <1>1, <2>1 DEF WriteCommand, WhileBusy, Done, Reached
<1>5. CASE o.reg = "data0?"
  <2>1. ReadData0
    BY <1>1, <1>5 DEF Perform, Control
  <2>. QED BY <1>1, <2>1 DEF ReadData0, WhileBusy, Done, Reached
<1>. QED BY <1>2, <1>3, <1>4, <1>5

\* What every access of a call has in common that matters here.
LEMMA AccessBasics ==
  ASSUME TypeOK, AutoInv, Access
  PROVE  /\ session' = session /\ req' = req /\ cut' = cut /\ pc = "call" /\ pc' = "call"
         /\ k' = k + 1 /\ k \in 1 .. Len(Accesses(req)) /\ Len(Accesses(req)) \in Nat
         /\ req \in Calls /\ req.f \in session.functions
         /\ Perform(Accesses(req)[k])
         /\ Accesses(req)[k].reg # "reset" => link = "up"
         /\ session.slow \/ ~Busy
         /\ auto => cut \/ req.f = "write_memory_bulk"
BY ListsTyped DEF Access, TypeOK, AutoInv, InTime, Settled

\* An access after which the course is clean was carried out, and the course
\* was clean before it.
LEMMA CleanDone == Clean' => Done
BY DEF Clean, Done

LEMMA CleanBefore ==
  ASSUME TypeOK, AutoInv, Access, Clean', Accesses(req)[k].reg # "reset", Reached
  PROVE  Clean /\ (req.f # "write_memory_bulk" => ~auto)
BY AccessBasics DEF Clean, Reached

\* The course of each function, access by access.
LEMMA WriteAbsAccess ==
  ASSUME TypeOK, AutoInv, Course, Access
  PROVE  WriteAbsCourse'
<1>. SUFFICES ASSUME Clean', req.f = "write_memory_abs"
              PROVE  /\ k' \in {2, 3} => ~Busy' /\ data1' = req.addr
                     /\ k' = 3 => data0' = req.data
  BY AccessBasics DEF WriteAbsCourse
<1>. DEFINE o == Accesses(req)[k]
<1>1. k \in 1 .. 3
  BY AccessBasics, WriteAbsList
<1>2. k = 1 \/ k = 2 \/ k = 3
  BY <1>1
<1>3. CASE k = 1
  <2>1. o = Wr("data1", req.addr)
    BY <1>3, AccessBasics, WriteAbsList
  <2>2. o.reg = "data1"
    BY <2>1 DEF Wr, Rd
  <2>3. k' = 2
    BY <1>3, AccessBasics
  <2>4. Reached /\ data1' = req.addr /\ running' = running
    BY <2>1, AccessBasics, CleanDone, Data1Done
  <2>. QED BY <1>3, <2>3, <2>4 DEF Reached, Busy
<1>4. CASE k = 2
  <2>1. o = Wr("data0", req.data)
    BY <1>4, AccessBasics, WriteAbsList
  <2>2. o.reg = "data0"
    BY <2>1 DEF Wr, Rd
  <2>3. k' = 3
    BY <1>4, AccessBasics
  <2>4. /\ Reached /\ data0' = req.data /\ data1' = data1
        /\ running' = IF auto THEN command ELSE running
    BY <2>1, AccessBasics, CleanDone, Data0Done
  <2>5. Clean /\ ~auto
    BY <2>2, <2>4, CleanBefore
  <2>6. data1 = req.addr
    BY <1>4, <2>5 DEF Course, WriteAbsCourse
  <2>. QED BY <1>4, <2>3, <2>4, <2>5, <2>6 DEF Reached, Busy
<1>5. CASE k = 3
  BY <1>5, AccessBasics
<1>. QED BY <1>2, <1>3, <1>4, <1>5

LEMMA WriteBufAccess ==
  ASSUME TypeOK, AutoInv, Course, Access
  PROVE  WriteBufCourse'
<1>. SUFFICES ASSUME Clean', req.f = "write_memory_buf"
              PROVE  /\ k' > 1 => progbuf'[0] = "sw_s1_s0"
                     /\ k' \in {2, 3, 4, 6} => ~Busy'
                     /\ k' \in {4, 5} => data0' = req.addr
                     /\ k' = 5 /\ Busy' => running' = RegCommand("write", "s0", FALSE)
                     /\ k' = 5 /\ ~Busy' => regs'["s0"] = req.addr
                     /\ k' = 6 => regs'["s0"] = req.addr /\ data0' = req.data
  BY AccessBasics DEF WriteBufCourse
<1>. DEFINE o == Accesses(req)[k]
<1>1. k \in 1 .. 6
  BY AccessBasics, WriteBufList
<1>2. k = 1 \/ k = 2 \/ k = 3 \/ k = 4 \/ k = 5 \/ k = 6
  BY <1>1
<1>3. CASE k = 1
  <2>1. o = Wr("progbuf0", "sw_s1_s0")
    BY <1>3, AccessBasics, WriteBufList
  <2>2. o.reg = "progbuf0"
    BY <2>1 DEF Wr, Rd
  <2>3. k' = 2
    BY <1>3, AccessBasics
  <2>4. Reached /\ progbuf' = [progbuf EXCEPT ![0] = "sw_s1_s0"] /\ running' = running
    BY <2>1, AccessBasics, CleanDone, ProgbufDone
  <2>. QED BY <1>3, <2>3, <2>4 DEF Reached, Busy, TypeOK, DmTypeOK
<1>4. CASE k = 2
  <2>1. o = Wr("progbuf1", "ebreak")
    BY <1>4, AccessBasics, WriteBufList
  <2>2. o.reg = "progbuf1"
    BY <2>1 DEF Wr, Rd
  <2>3. k' = 3
    BY <1>4, AccessBasics
  <2>4. Reached /\ progbuf' = [progbuf EXCEPT ![1] = "ebreak"] /\ running' = running
    BY <2>1, AccessBasics, CleanDone, ProgbufDone
  <2>5. Clean /\ ~auto
    BY <2>2, <2>4, CleanBefore
  <2>6. progbuf[0] = "sw_s1_s0"
    BY <1>4, <2>5 DEF Course, WriteBufCourse
  <2>. QED BY <1>4, <2>3, <2>4, <2>5, <2>6 DEF Reached, Busy, TypeOK, DmTypeOK
<1>5. CASE k = 3
  <2>1. o = Wr("data0", req.addr)
    BY <1>5, AccessBasics, WriteBufList
  <2>2. o.reg = "data0"
    BY <2>1 DEF Wr, Rd
  <2>3. k' = 4
    BY <1>5, AccessBasics
  <2>4. /\ Reached /\ data0' = req.addr /\ progbuf' = progbuf
        /\ running' = IF auto THEN command ELSE running
    BY <2>1, AccessBasics, CleanDone, Data0Done
  <2>5. Clean /\ ~auto
    BY <2>2, <2>4, CleanBefore
  <2>6. progbuf[0] = "sw_s1_s0"
    BY <1>5, <2>5 DEF Course, WriteBufCourse
  <2>. QED BY <1>5, <2>3, <2>4, <2>5, <2>6 DEF Reached, Busy
<1>6. CASE k = 4
  <2>1. o = Wr("command", RegCommand("write", "s0", FALSE))
    BY <1>6, AccessBasics, WriteBufList
  <2>2. o.reg = "command"
    BY <2>1 DEF Wr, Rd
  <2>3. k' = 5
    BY <1>6, AccessBasics
  <2>4. /\ Reached /\ data0' = data0 /\ progbuf' = progbuf
        /\ running' = RegCommand("write", "s0", FALSE)
    BY <2>1, AccessBasics, CleanDone, CommandDone
  <2>5. Busy'
    BY <2>4, NotNone DEF Busy
  <2>6. Clean /\ ~auto
    BY <2>2, <2>4, CleanBefore
  <2>7. progbuf[0] = "sw_s1_s0" /\ data0 = req.addr
    BY <1>6, <2>6 DEF Course, WriteBufCourse
  <2>. QED BY <1>6, <2>3, <2>4, <2>5, <2>6, <2>7
<1>7. CASE k = 5
  <2>1. o = Wr("data0", req.data)
    BY <1>7, AccessBasics, WriteBufList
  <2>2. o.reg = "data0"
    BY <2>1 DEF Wr, Rd
  <2>3. k' = 6
    BY <1>7, AccessBasics
  <2>4. /\ Reached /\ data0' = req.data /\ progbuf' = progbuf /\ regs' = regs
        /\ running' = IF auto THEN command ELSE running
    BY <2>1, AccessBasics, CleanDone, Data0Done
  <2>5. Clean /\ ~auto
    BY <2>2, <2>4, CleanBefore
  <2>6. progbuf[0] = "sw_s1_s0" /\ (~Busy => regs["s0"] = req.addr)
    BY <1>7, <2>5 DEF Course, WriteBufCourse
  <2>. QED BY <1>7, <2>3, <2>4, <2>5, <2>6 DEF Reached, Busy
<1>8. CASE k = 6
  <2>1. o = Wr("command", RegCommand("write", "s1", TRUE))
    BY <1>8, AccessBasics, WriteBufList
  <2>2. o.reg = "command"
    BY <2>1 DEF Wr, Rd
  <2>3. k' = 7
    BY <1>8, AccessBasics
  <2>4. Reached /\ progbuf' = progbuf
    BY <2>1, AccessBasics, CleanDone, CommandDone
  <2>5. Clean /\ ~auto
    BY <2>2, <2>4, CleanBefore
  <2>6. progbuf[0] = "sw_s1_s0"
    BY <1>8, <2>5 DEF Course, WriteBufCourse
  <2>. QED BY <1>8, <2>3, <2>4, <2>5, <2>6
<1>. QED BY <1>2, <1>3, <1>4, <1>5, <1>6, <1>7, <1>8

LEMMA BenchAccess ==
  ASSUME TypeOK, AutoInv, Course, Access
  PROVE  BenchCourse'
<1>. SUFFICES ASSUME Clean', req.f = "dbg_test_init", session.program = "dbg_test_init"
              PROVE  /\ k' \in {8, 9} => ~Busy' /\ data1' = LedAddr
                     /\ k' = 9 => data0' = LedWord
  BY AccessBasics DEF BenchCourse
<1>. DEFINE o == Accesses(req)[k]
<1>1. k \in Nat /\ k' = k + 1
  BY AccessBasics
<1>2. CASE k = 7
  <2>1. o = Wr("data1", LedAddr)
    BY <1>2, AccessBasics, BenchList
  <2>2. o.reg = "data1"
    BY <2>1 DEF Wr, Rd
  <2>3. k' = 8
    BY <1>2, AccessBasics
  <2>4. Reached /\ data1' = LedAddr /\ running' = running
    BY <2>1, AccessBasics, CleanDone, Data1Done
  <2>. QED BY <1>2, <2>3, <2>4 DEF Reached, Busy
<1>3. CASE k = 8
  <2>1. o = Wr("data0", LedWord)
    BY <1>3, AccessBasics, BenchList
  <2>2. o.reg = "data0"
    BY <2>1 DEF Wr, Rd
  <2>3. k' = 9
    BY <1>3, AccessBasics
  <2>4. /\ Reached /\ data0' = LedWord /\ data1' = data1
        /\ running' = IF auto THEN command ELSE running
    BY <2>1, AccessBasics, CleanDone, Data0Done
  <2>5. Clean /\ ~auto
    BY <2>2, <2>4, CleanBefore
  <2>6. data1 = LedAddr
    BY <1>3, <2>5 DEF Course, BenchCourse
  <2>. QED BY <1>3, <2>3, <2>4, <2>5, <2>6 DEF Reached, Busy
<1>4. CASE k # 7 /\ k # 8
  BY <1>1, <1>4
<1>. QED BY <1>2, <1>3, <1>4

LEMMA OtherProgramAccess ==
  ASSUME TypeOK, AutoInv, Course, Access
  PROVE  OtherProgram'
<1>. SUFFICES ASSUME Clean'
              PROVE  /\ req.f = "read_memory_buf" /\ k' > 1 => progbuf'[0] = "lw_s0_s0"
                     /\ req.f = "read_xpr_buf" /\ k' > 1 => progbuf'[0] = "addi_s0_s1"
                     /\ req.f = "write_xpr_buf" /\ k' > 2 => progbuf'[0] = "addi_s1_s0"
  BY AccessBasics DEF OtherProgram
<1>. DEFINE o == Accesses(req)[k]
<1>1. /\ k \in Nat /\ k' = k + 1 /\ k \in 1 .. Len(Accesses(req)) /\ Perform(o) /\ Done
      /\ DmTypeOK /\ req \in Calls
  BY AccessBasics, CleanDone DEF TypeOK
<1>2. CASE req.f = "read_memory_buf"
  <2>1. k \in 1 .. 6
    BY <1>1, <1>2, ReadBufList
  <2>2. CASE k = 1
    <3>1. o = Wr("progbuf0", "lw_s0_s0")
      BY <1>1, <1>2, <2>2, ReadBufList
    <3>2. progbuf' = [progbuf EXCEPT ![0] = "lw_s0_s0"]
      BY <1>1, <3>1, ProgbufDone
    <3>. QED BY <1>1, <1>2, <3>2 DEF DmTypeOK
  <2>3. CASE k \in 2 .. 6
    <3>1. Accesses(req)[2] = Wr("progbuf1", "ebreak")
      BY <1>1, <1>2, ReadBufList
    <3>2. Accesses(req)[3] = Wr("data0", req.addr)
      BY <1>1, <1>2, ReadBufList
    <3>3. Accesses(req)[4] = Wr("command", RegCommand("write", "s0", TRUE))
      BY <1>1, <1>2, ReadBufList
    <3>4. Accesses(req)[5] = Wr("command", RegCommand("read", "s0", FALSE))
      BY <1>1, <1>2, ReadBufList
    <3>5. Accesses(req)[6] = Rd("data0?")
      BY <1>1, <1>2, ReadBufList
    <3>6. o.reg \in {"progbuf1", "data0", "command", "data0?"}
      <4>1. /\ Accesses(req)[2].reg = "progbuf1" /\ Accesses(req)[3].reg = "data0"
            /\ Accesses(req)[4].reg = "command" /\ Accesses(req)[5].reg = "command"
            /\ Accesses(req)[6].reg = "data0?"
        BY <3>1, <3>2, <3>3, <3>4, <3>5, Fields
      <4>2. k = 2 \/ k = 3 \/ k = 4 \/ k = 5 \/ k = 6
        BY <2>3
      <4>. QED BY <4>1, <4>2
    <3>7. Reached /\ progbuf'[0] = progbuf[0]
      BY <1>1, <3>6, KeepsProgram
    <3>8. Clean
      BY <3>6, <3>7, CleanBefore
    <3>. QED BY <1>1, <1>2, <2>3, <3>7, <3>8 DEF Course, OtherProgram
  <2>. QED BY <2>1, <2>2, <2>3
<1>3. CASE req.f = "read_xpr_buf"
  <2>1. k \in 1 .. 5
    BY <1>1, <1>3, ReadXprList
  <2>2. CASE k = 1
    <3>1. o = Wr("progbuf0", "addi_s0_s1")
      BY <1>1, <1>3, <2>2, ReadXprList
    <3>2. progbuf' = [progbuf EXCEPT ![0] = "addi_s0_s1"]
      BY <1>1, <3>1, ProgbufDone
    <3>. QED BY <1>1, <1>3, <3>2 DEF DmTypeOK
  <2>3. CASE k \in 2 .. 5
    <3>1. Accesses(req)[2] = Wr("progbuf1", "ebreak")
      BY <1>1, <1>3, ReadXprList
    <3>2. Accesses(req)[3] = Wr("command", RegCommand("no", "s0", TRUE))
      BY <1>1, <1>3, ReadXprList
    <3>3. Accesses(req)[4] = Wr("command", RegCommand("read", "s1", FALSE))
      BY <1>1, <1>3, ReadXprList
    <3>4. Accesses(req)[5] = Rd("data0?")
      BY <1>1, <1>3, ReadXprList
    <3>5. o.reg \in {"progbuf1", "data0", "command", "data0?"}
      <4>1. /\ Accesses(req)[2].reg = "progbuf1" /\ Accesses(req)[3].reg = "command"
            /\ Accesses(req)[4].reg = "command" /\ Accesses(req)[5].reg = "data0?"
        BY <3>1, <3>2, <3>3, <3>4, Fields
      <4>2. k = 2 \/ k = 3 \/ k = 4 \/ k = 5
        BY <2>3
      <4>. QED BY <4>1, <4>2
    <3>6. Reached /\ progbuf'[0] = progbuf[0]
      BY <1>1, <3>5, KeepsProgram
    <3>7. Clean
      BY <3>5, <3>6, CleanBefore
    <3>. QED BY <1>1, <1>3, <2>3, <3>6, <3>7 DEF Course, OtherProgram
  <2>. QED BY <2>1, <2>2, <2>3
<1>4. CASE req.f = "write_xpr_buf"
  <2>1. k \in 1 .. 5
    BY <1>1, <1>4, WriteXprList
  <2>2. CASE k = 2
    <3>1. o = Wr("progbuf0", "addi_s1_s0")
      BY <1>1, <1>4, <2>2, WriteXprList
    <3>2. progbuf' = [progbuf EXCEPT ![0] = "addi_s1_s0"]
      BY <1>1, <3>1, ProgbufDone
    <3>. QED BY <1>1, <1>4, <3>2 DEF DmTypeOK
  <2>3. CASE k \in 3 .. 5
    <3>1. Accesses(req)[3] = Wr("progbuf1", "ebreak")
      BY <1>1, <1>4, WriteXprList
    <3>2. Accesses(req)[4] = Wr("command", RegCommand("no", "s0", TRUE))
      BY <1>1, <1>4, WriteXprList
    <3>3. Accesses(req)[5] = Wr("command", RegCommand("write", "s0", TRUE))
      BY <1>1, <1>4, WriteXprList
    <3>4. o.reg \in {"progbuf1", "data0", "command", "data0?"}
      <4>1. /\ Accesses(req)[3].reg = "progbuf1" /\ Accesses(req)[4].reg = "command"
            /\ Accesses(req)[5].reg = "command"
        BY <3>1, <3>2, <3>3, Fields
      <4>2. k = 3 \/ k = 4 \/ k = 5
        BY <2>3
      <4>. QED BY <4>1, <4>2
    <3>5. Reached /\ progbuf'[0] = progbuf[0]
      BY <1>1, <3>4, KeepsProgram
    <3>6. Clean
      BY <3>4, <3>5, CleanBefore
    <3>. QED BY <1>1, <1>4, <2>3, <3>5, <3>6 DEF Course, OtherProgram
  <2>. QED BY <1>1, <1>4, <2>1, <2>2, <2>3
<1>. QED BY <1>2, <1>3, <1>4

LEMMA BulkAccess ==
  ASSUME NoSlowBulk, TypeOK, AutoInv, Course, NoneYet, Access
  PROVE  BulkCourse'
<1>. DEFINE n == Len(req.data)
            o == Accesses(req)[k]
<1>. SUFFICES ASSUME Clean', req.f = "write_memory_bulk"
              PROVE  /\ k' \in {2, 3} => ~Busy' /\ data1' = req.addr
                     /\ k' = 3 => data0' = req.data[1]
                     /\ k' \in 4 .. n + 4 =>
                          /\ command' = MemCommand(TRUE, TRUE) /\ (k' > 4 => auto')
                          /\ Busy' => /\ running' = MemCommand(TRUE, TRUE)
                                      /\ Len(writes') = Begun' - 1
                                      /\ data1' = req.addr + Begun' - 1
                                      /\ data0' = req.data[Begun']
                          /\ ~Busy' => data1' = req.addr + Begun' /\ Len(writes') = Begun'
  BY AccessBasics DEF BulkCourse
<1>1. /\ k \in 1 .. n + 4 /\ n \in Nat \ {0} /\ k' = k + 1 /\ Perform(o) /\ Done
      /\ req \in Calls /\ pc = "call"
  BY AccessBasics, BulkList, CleanDone
<1>2. ~session.slow /\ ~Busy
  BY AccessBasics DEF NoSlowBulk, TypeOK
<1>3. req.addr \in Nat
  BY <1>1, Arguments, AbsCmdAssumption DEF Addrs
<1>4. CASE k = 1
  <2>1. o = Wr("data1", req.addr)
    BY <1>1, <1>4, BulkList
  <2>2. data1' = req.addr /\ running' = running
    BY <1>1, <2>1, Data1Done
  <2>. QED BY <1>1, <1>2, <1>4, <2>2 DEF Busy
<1>5. CASE k = 2
  <2>1. o = Wr("data0", req.data[1])
    BY <1>1, <1>5, BulkList
  <2>2. o.reg = "data0"
    BY <2>1 DEF Wr, Rd
  <2>3. /\ Reached /\ data0' = req.data[1] /\ data1' = data1
        /\ running' = IF auto THEN command ELSE running
    BY <1>1, <2>1, Data0Done
  <2>4. Clean
    BY <2>2, <2>3, CleanBefore
  <2>5. data1 = req.addr
    BY <1>5, <2>4 DEF Course, BulkCourse
  <2>6. ~auto
    BY <1>1, <1>5, <2>4 DEF AutoInv, Clean
  <2>. QED BY <1>1, <1>2, <1>5, <2>3, <2>5, <2>6 DEF Busy
<1>6. CASE k = 3
  <2>1. o = Wr("command", MemCommand(TRUE, TRUE))
    BY <1>1, <1>6, BulkList
  <2>2. o.reg = "command"
    BY <2>1 DEF Wr, Rd
  <2>3. /\ Reached /\ command' = MemCommand(TRUE, TRUE) /\ running' = MemCommand(TRUE, TRUE)
        /\ UNCHANGED <<data0, data1, writes>>
    BY <1>1, <2>1, CommandDone
  <2>4. Clean
    BY <2>2, <2>3, CleanBefore
  <2>5. data1 = req.addr /\ data0 = req.data[1]
    BY <1>6, <2>4 DEF Course, BulkCourse
  <2>6. writes = << >>
    <3>1. FirstWrite = 3
      BY DEF FirstWrite
    <3>. QED BY <1>1, <1>2, <1>6, <2>4, <3>1 DEF NoneYet, Clean
  <2>7. k' = 4 /\ Begun' = 1
    BY <1>1, <1>6 DEF Begun
  <2>8. Busy'
    BY <2>3, NotNone DEF Busy
  <2>. QED BY <1>3, <2>3, <2>5, <2>6, <2>7, <2>8
<1>7. CASE k = 4
  <2>1. o = Wr("abstractauto", TRUE)
    BY <1>1, <1>7, BulkList
  <2>2. o.reg = "abstractauto"
    BY <2>1 DEF Wr, Rd
  <2>3. Reached /\ auto' = TRUE /\ UNCHANGED <<running, command, data0, data1, writes>>
    BY <1>1, <2>1, AbstractautoDone
  <2>4. Clean
    BY <2>2, <2>3, CleanBefore
  <2>5. Begun = 1 /\ Begun' = 1 /\ k' = 5
    BY <1>1, <1>7 DEF Begun
  <2>6. command = MemCommand(TRUE, TRUE) /\ data1 = req.addr + 1 /\ Len(writes) = 1
    <3>1. k \in 4 .. n + 4
      BY <1>1, <1>7
    <3>. QED BY <1>2, <2>4, <2>5, <3>1 DEF Course, BulkCourse
  <2>. QED BY <1>2, <2>3, <2>5, <2>6 DEF Busy
<1>8. CASE k \in 5 .. n + 3
  <2>1. o = Wr("data0", req.data[k - 3])
    BY <1>1, <1>8, BulkList
  <2>2. o.reg = "data0"
    BY <2>1 DEF Wr, Rd
  <2>3. /\ Reached /\ data0' = req.data[k - 3] /\ UNCHANGED <<command, auto, data1, writes>>
        /\ running' = IF auto THEN command ELSE running
    BY <1>1, <2>1, Data0Done
  <2>4. Clean
    BY <2>2, <2>3, CleanBefore
  <2>5. Begun = k - 4 /\ Begun' = k - 3 /\ k' > 4
    BY <1>1, <1>8 DEF Begun
  <2>6. command = MemCommand(TRUE, TRUE) /\ auto
        /\ data1 = req.addr + (k - 4) /\ Len(writes) = k - 4
    <3>1. k \in 4 .. n + 4 /\ k > 4
      BY <1>1, <1>8
    <3>. QED BY <1>2, <2>4, <2>5, <3>1 DEF Course, BulkCourse
  <2>7. running' = MemCommand(TRUE, TRUE) /\ Busy'
    BY <2>3, <2>6, NotNone DEF Busy
  <2>8. /\ data0' = req.data[Begun'] /\ Len(writes') = Begun' - 1
        /\ data1' = req.addr + Begun' - 1
    BY <1>1, <1>3, <2>3, <2>5, <2>6
  <2>9. k' # 2 /\ k' # 3
    BY <1>1, <1>8
  <2>. QED BY <2>3, <2>6, <2>7, <2>8, <2>9
<1>9. CASE k = n + 4
  BY <1>1, <1>9
<1>10. k = 1 \/ k = 2 \/ k = 3 \/ k = 4 \/ k \in 5 .. n + 3 \/ k = n + 4
  BY <1>1
<1>. QED BY <1>4, <1>5, <1>6, <1>7, <1>8, <1>9, <1>10

LEMMA CourseAccess ==
  ASSUME NoSlowBulk, TypeOK, AutoInv, Course, NoneYet, Access
  PROVE  Course'
BY WriteAbsAccess, WriteBufAccess, BenchAccess, BulkAccess, OtherProgramAccess DEF Course

-------------------------------------------------------------------------------
(* What a step of the hart leaves                                          *)

LEMMA Kinds ==
  ASSUME NEW c \in Commands
  PROVE  \/ c \in RegCommands /\ c.type = "reg" /\ c # Unsupported
         \/ c \in MemCommands /\ c.type = "mem" /\ c # Unsupported
         \/ c = Unsupported /\ c.type = "unsupported"
BY DEF Commands, RegCommands, MemCommands, Unsupported

\* The hart takes up a request, or ends the command under way; only then does
\* it write to memory, and then the target of that command.
LEMMA HartSteps ==
  ASSUME DmTypeOK, Hart
  PROVE  /\ UNCHANGED <<session, pc, req, k, link, cut, active, auto, command, progbuf>>
         /\ cmderr' = "none" => cmderr = "none"
         /\ UNCHANGED <<running, data0, data1, regs, writes>> \/ (Busy /\ running' = None)
         /\ issuer' = issuer \/ running' = None
         /\ \/ writes' = writes
            \/ Writing /\ writes' = Append(writes, Target) /\ running' = None
<1>1. UNCHANGED <<session, pc, req, k, link, cut, active>>
  BY DEF Hart
<1>2. issuer' = issuer \/ running' = None
  BY DEF Hart
<1>3. CASE HartHonours
  BY <1>1, <1>2, <1>3 DEF HartHonours
<1>4. CASE Refuse
  BY <1>1, <1>2, <1>4 DEF Refuse, CommandError
<1>5. CASE AccessMemory
  <2>1. CASE ~halted \/ data1 \notin Mapped
    BY <1>1, <1>2, <1>5, <2>1 DEF AccessMemory, CommandError
  <2>2. CASE halted /\ data1 \in Mapped
    <3>1. Busy /\ running' = None /\ UNCHANGED <<cmderr, auto, command, progbuf>>
      BY <1>5, <2>2 DEF AccessMemory
    <3>2. writes' = writes \/ (Writing /\ writes' = Append(writes, Target))
      BY <1>5, <2>2 DEF AccessMemory, Writing, Target
    <3>. QED BY <1>1, <1>2, <3>1, <3>2
  <2>. QED BY <2>1, <2>2
<1>6. CASE AccessRegister
  <2>1. CASE ~halted
    BY <1>1, <1>2, <1>6, <2>1 DEF AccessRegister, CommandError
  <2>2. CASE halted /\ ~running.postexec
    BY <1>1, <1>2, <1>6, <2>2 DEF AccessRegister
  <2>3. CASE halted /\ running.postexec
    <3>1. /\ Busy /\ running.type = "reg" /\ UNCHANGED <<auto, command, progbuf>>
          /\ RunProgram(Transferred(running))
      BY <1>6, <2>3 DEF AccessRegister
    <3>. DEFINE r == Transferred(running)
    <3>2. /\ running' = None
          /\ cmderr' = "none" => cmderr = "none"
          /\ \/ writes' = writes
             \/ progbuf[0] = "sw_s1_s0" /\ writes' = Append(writes, <<r["s0"], r["s1"]>>)
      <4>. HIDE DEF r
      <4>1. RunProgram(r)
        BY <3>1 DEF r
      <4>. QED BY <4>1 DEF RunProgram
    <3>3. progbuf[0] = "sw_s1_s0" => Writing /\ Target = <<r["s0"], r["s1"]>>
      BY <2>3, <3>1 DEF Writing, Target
    <3>. HIDE DEF r
    <3>. QED BY <1>1, <1>2, <3>1, <3>2, <3>3
  <2>. QED BY <2>1, <2>2, <2>3
<1>. QED BY <1>3, <1>4, <1>5, <1>6 DEF Hart

\* The end of the bulk write's command, and of the command that takes an
\* address into s0.
LEMMA HartEndsBulk ==
  ASSUME DmTypeOK, Hart, running = MemCommand(TRUE, TRUE), running' = None, cmderr' = "none"
  PROVE  data0' = data0 /\ data1' = data1 + 1 /\ writes' = Append(writes, <<data1, data0>>)
<1>1. /\ running.type = "mem" /\ running.write = TRUE /\ running.inc = TRUE
      /\ running # Unsupported /\ running # None
  BY NotNone DEF MemCommand, Unsupported
<1>2. AccessMemory
  BY <1>1 DEF Hart, HartHonours, AccessRegister, Refuse
<1>3. halted /\ data1 \in Mapped
  BY <1>2 DEF AccessMemory, CommandError
<1>. QED BY <1>1, <1>2, <1>3 DEF AccessMemory

LEMMA HartEndsAddress ==
  ASSUME DmTypeOK, Hart, running = RegCommand("write", "s0", FALSE), running' = None,
         cmderr' = "none"
  PROVE  data0' = data0 /\ regs'["s0"] = data0
<1>1. /\ running.type = "reg" /\ running.transfer = "write" /\ running.reg = "s0"
      /\ running.postexec = FALSE
      /\ running # Unsupported /\ running # None
  BY NotNone DEF RegCommand, Unsupported
<1>2. AccessRegister
  BY <1>1 DEF Hart, HartHonours, AccessMemory, Refuse
<1>3. halted
  BY <1>2 DEF AccessRegister, CommandError
<1>. QED BY <1>1, <1>2, <1>3 DEF AccessRegister, Transferred, DmTypeOK

\* The hart's steps keep the course: what it changes is what the command
\* under way was made for.
LEMMA CourseHart ==
  ASSUME TypeOK, writes \in Seq(Values \X Values), Course, Hart
  PROVE  Course'
<1>1. /\ UNCHANGED <<session, pc, req, k, link, cut, active, auto, command, progbuf>>
      /\ cmderr' = "none" => cmderr = "none"
      /\ UNCHANGED <<running, data0, data1, regs, writes>> \/ (Busy /\ running' = None)
  BY HartSteps DEF TypeOK
<1>2. Clean' => Clean /\ cmderr' = "none"
  BY <1>1 DEF Clean
<1>3. CASE UNCHANGED <<running, data0, data1, regs, writes>>
  <2>1. WriteAbsCourse' /\ WriteBufCourse'
    BY <1>1, <1>2, <1>3 DEF Course, WriteAbsCourse, WriteBufCourse, Busy
  <2>2. BenchCourse' /\ OtherProgram'
    BY <1>1, <1>2, <1>3 DEF Course, BenchCourse, OtherProgram, Busy
  <2>3. Begun' = Begun
    BY <1>1 DEF Begun
  <2>4. BulkCourse'
    BY <1>1, <1>2, <1>3, <2>3 DEF Course, BulkCourse, Busy
  <2>. QED BY <2>1, <2>2, <2>4 DEF Course
<1>4. CASE Busy /\ running' = None
  <2>1. ~Busy'
    BY <1>4 DEF Busy
  <2>2. WriteAbsCourse' /\ BenchCourse' /\ OtherProgram'
    BY <1>1, <1>2, <1>4 DEF Course, WriteAbsCourse, BenchCourse, OtherProgram
  <2>3. WriteBufCourse'
    <3>. SUFFICES ASSUME Clean', req.f = "write_memory_buf"
                  PROVE  /\ k > 1 => progbuf[0] = "sw_s1_s0"
                         /\ k \in {4, 5} => data0' = req.addr
                         /\ k = 5 => regs'["s0"] = req.addr
                         /\ k = 6 => regs'["s0"] = req.addr /\ data0' = req.data
      BY <1>1, <2>1 DEF WriteBufCourse
    <3>1. /\ k > 1 => progbuf[0] = "sw_s1_s0"
          /\ k # 4 /\ k # 6
          /\ k = 5 => data0 = req.addr /\ running = RegCommand("write", "s0", FALSE)
      BY <1>2, <1>4 DEF Course, WriteBufCourse
    <3>2. k = 5 => data0' = req.addr /\ regs'["s0"] = req.addr
      BY <1>2, <1>4, <3>1, HartEndsAddress DEF TypeOK
    <3>. QED BY <3>1, <3>2
  <2>4. BulkCourse'
    <3>. SUFFICES ASSUME Clean', req.f = "write_memory_bulk"
                  PROVE  /\ k \notin {2, 3}
                         /\ k \in 4 .. Len(req.data) + 4 =>
                              /\ command = MemCommand(TRUE, TRUE) /\ (k > 4 => auto)
                              /\ data1' = req.addr + Begun /\ Len(writes') = Begun
      BY <1>1, <2>1 DEF BulkCourse, Begun
    <3>1. k \notin {2, 3}
      BY <1>2, <1>4 DEF Course, BulkCourse
    <3>2. ASSUME k \in 4 .. Len(req.data) + 4
          PROVE  /\ command = MemCommand(TRUE, TRUE) /\ (k > 4 => auto)
                 /\ data1' = req.addr + Begun /\ Len(writes') = Begun
      <4>1. /\ command = MemCommand(TRUE, TRUE) /\ (k > 4 => auto)
            /\ running = MemCommand(TRUE, TRUE)
            /\ data1 = req.addr + Begun - 1 /\ Len(writes) = Begun - 1
        BY <1>2, <1>4, <3>2 DEF Course, BulkCourse
      <4>2. data1' = data1 + 1 /\ writes' = Append(writes, <<data1, data0>>)
        BY <1>2, <1>4, <4>1, HartEndsBulk DEF TypeOK
      <4>3. Len(writes') = Len(writes) + 1
        BY <4>2
      <4>4. Begun \in Nat /\ req.addr \in Nat
        <5>1. req \in Calls /\ Len(req.data) \in Nat
          BY BulkList DEF TypeOK
        <5>2. Begun \in Nat
          BY <3>2, <5>1 DEF Begun
        <5>3. req.addr \in Nat
          BY <5>1, Arguments, AbsCmdAssumption DEF Addrs
        <5>. QED BY <5>2, <5>3
      <4>. QED BY <4>1, <4>2, <4>3, <4>4
    <3>. QED BY <3>1, <3>2
  <2>. QED BY <2>2, <2>3, <2>4 DEF Course
<1>. QED BY <1>1, <1>3, <1>4

-------------------------------------------------------------------------------
(* What an access leaves of a command, and which commands it starts        *)

\* An access writes nothing to memory; in the middle of a command it changes
\* nothing the command uses, or ends it; and it starts one through COMMAND, or
\* through DATA0 with autoexec on.
LEMMA WhatRuns ==
  ASSUME NEW o \in Ops, Perform(o)
  PROVE  /\ writes' = writes
         /\ Busy => running' = None \/ UNCHANGED <<running, data0, data1, progbuf, regs>>
         /\ ~Busy /\ Busy' =>
              /\ active /\ cmderr = "none" /\ UNCHANGED <<data1, progbuf, regs>>
              /\ \/ o.reg = "command" /\ running' = o.val /\ data0' = data0
                 \/ /\ o.reg \in {"data0", "data0?"} /\ auto /\ running' = command
                    /\ o.reg = "data0" => data0' = o.val
<1>1. CASE o.reg = "reset" /\ ResetChip
  BY <1>1 DEF ResetChip, Busy
<1>2. CASE WriteDmcontrol(o.val) \/ UNCHANGED dm
  BY <1>2 DEF WriteDmcontrol, dm, Busy
<1>3. CASE active /\ o.reg = "data0" /\ WriteData0(o.val)
  BY <1>3 DEF WriteData0, WhileBusy, Autoexec, Busy
<1>4. CASE active /\ o.reg = "data0?" /\ ReadData0
  BY <1>4 DEF ReadData0, WhileBusy, Autoexec, Busy
<1>5. CASE active /\ o.reg = "command" /\ WriteCommand(o.val)
  BY <1>5 DEF WriteCommand, WhileBusy, Busy
<1>6. CASE WriteData1(o.val)
  BY <1>6 DEF WriteData1, WhileBusy, Busy
<1>7. CASE WriteAbstractauto(o.val)
  BY <1>7 DEF WriteAbstractauto, WhileBusy, Busy
<1>8. CASE WriteProgbuf(0, o.val) \/ WriteProgbuf(1, o.val)
  BY <1>8 DEF WriteProgbuf, WhileBusy, Busy
<1>9. CASE WriteCmderr
  BY <1>9 DEF WriteCmderr, WhileBusy, Busy
<1>. QED
  BY <1>1, <1>2, <1>3, <1>4, <1>5, <1>6, <1>7, <1>8, <1>9 DEF Perform, ReadRegister

\* The commands a call makes: a write to memory at its one place, a run of the
\* program buffer where the call has put its own program, or nothing that can
\* write to memory.
Harmless(c) ==
  /\ ~(c.type = "mem" /\ c.write)
  /\ ~(c.type = "reg" /\ c.postexec)

Makes(r, i, c) ==
  \/ r.f = "write_memory_abs" /\ i = 3 /\ c = MemCommand(TRUE, FALSE)
  \/ r.f = "write_memory_bulk" /\ i = 3 /\ c = MemCommand(TRUE, TRUE)
  \/ /\ r.f = "dbg_test_init" /\ session.program = "dbg_test_init"
     /\ i = 9 /\ c = MemCommand(TRUE, FALSE)
  \/ r.f = "write_memory_buf" /\ i = 6 /\ c = RegCommand("write", "s1", TRUE)
  \/ /\ c.type = "reg"
     /\ \/ r.f \in {"read_memory_buf", "read_xpr_buf"} /\ i > 1
        \/ r.f = "write_xpr_buf" /\ i > 2
  \/ Harmless(c)

LEMMA HarmlessOnes ==
  /\ \A t, r : Harmless(RegCommand(t, r, FALSE)) /\ RegCommand(t, r, TRUE).type = "reg"
  /\ Harmless(MemCommand(FALSE, FALSE)) /\ Harmless(Unsupported)
BY DEF Harmless, RegCommand, MemCommand, Unsupported

LEMMA CommandAccesses ==
  ASSUME NEW r \in Calls, NEW i \in 1 .. Len(Accesses(r)), Accesses(r)[i].reg = "command"
  PROVE  Makes(r, i, Accesses(r)[i].val)
<1>1. r.f \in Functions
  BY Arguments
<1>2. CASE r.f = "halt_cpu"
  <2>1. /\ Accesses(r)[1] = Rd("dmcontrol?")
        /\ Accesses(r)[2] = Wr("dmcontrol", "halt")
    BY <1>2, HaltList
  <2>2. Accesses(r)[1].reg = "dmcontrol?" /\ Accesses(r)[2].reg = "dmcontrol"
    BY <2>1 DEF Wr, Rd
  <2>3. i \in 1 .. 2
    BY <1>2, HaltList
  <2>4. i = 1 \/ i = 2
    BY <2>3
  <2>. QED BY <2>2, <2>4
<1>3. CASE r.f = "resume_cpu"
  <2>1. /\ Accesses(r)[1] = Rd("dmcontrol?")
        /\ Accesses(r)[2] = Wr("dmcontrol", "resume")
    BY <1>3, ResumeList
  <2>2. Accesses(r)[1].reg = "dmcontrol?" /\ Accesses(r)[2].reg = "dmcontrol"
    BY <2>1 DEF Wr, Rd
  <2>3. i \in 1 .. 2
    BY <1>3, ResumeList
  <2>4. i = 1 \/ i = 2
    BY <2>3
  <2>. QED BY <2>2, <2>4
<1>4. CASE r.f = "clear_cmderr"
  <2>1. Accesses(r)[1] = Rd("cmderr")
    BY <1>4, ClearList
  <2>2. Accesses(r)[1].reg = "cmderr"
    BY <2>1 DEF Wr, Rd
  <2>3. i \in 1 .. 1
    BY <1>4, ClearList
  <2>4. i = 1
    BY <2>3
  <2>. QED BY <2>2, <2>4
<1>5. CASE r.f = "read_register"
  <2>1. /\ Accesses(r)[1] = Wr("command", RegCommand("read", r.reg, FALSE))
        /\ Accesses(r)[2] = Rd("data0?")
    BY <1>5, ReadRegisterList
  <2>2. Accesses(r)[2].reg = "data0?"
    BY <2>1 DEF Wr, Rd
  <2>3. Accesses(r)[1].val = RegCommand("read", r.reg, FALSE)
    BY <2>1 DEF Wr, Rd
  <2>4. Makes(r, 1, Accesses(r)[1].val)
    BY <2>3, HarmlessOnes DEF Makes
  <2>5. i \in 1 .. 2
    BY <1>5, ReadRegisterList
  <2>6. i = 1 \/ i = 2
    BY <2>5
  <2>. QED BY <2>2, <2>4, <2>6
<1>6. CASE r.f = "write_register"
  <2>1. /\ Accesses(r)[1] = Wr("data0", r.data)
        /\ Accesses(r)[2] = Wr("command", RegCommand("write", r.reg, FALSE))
    BY <1>6, WriteRegisterList
  <2>2. Accesses(r)[1].reg = "data0"
    BY <2>1 DEF Wr, Rd
  <2>3. Accesses(r)[2].val = RegCommand("write", r.reg, FALSE)
    BY <2>1 DEF Wr, Rd
  <2>4. Makes(r, 2, Accesses(r)[2].val)
    BY <2>3, HarmlessOnes DEF Makes
  <2>5. i \in 1 .. 2
    BY <1>6, WriteRegisterList
  <2>6. i = 1 \/ i = 2
    BY <2>5
  <2>. QED BY <2>2, <2>4, <2>6
<1>7. CASE r.f = "read_xpr_buf"
  <2>1. /\ Accesses(r)[1] = Wr("progbuf0", "addi_s0_s1")
        /\ Accesses(r)[2] = Wr("progbuf1", "ebreak")
        /\ Accesses(r)[3] = Wr("command", RegCommand("no", "s0", TRUE))
        /\ Accesses(r)[4] = Wr("command", RegCommand("read", "s1", FALSE))
        /\ Accesses(r)[5] = Rd("data0?")
    BY <1>7, ReadXprList
  <2>2. /\ Accesses(r)[1].reg = "progbuf0" /\ Accesses(r)[2].reg = "progbuf1"
        /\ Accesses(r)[5].reg = "data0?"
    BY <2>1 DEF Wr, Rd
  <2>3. /\ Accesses(r)[3].val = RegCommand("no", "s0", TRUE)
        /\ Accesses(r)[4].val = RegCommand("read", "s1", FALSE)
    BY <2>1 DEF Wr, Rd
  <2>4. Makes(r, 3, Accesses(r)[3].val)
    BY <1>7, <2>3 DEF Makes, RegCommand
  <2>5. Makes(r, 4, Accesses(r)[4].val)
    BY <2>3, HarmlessOnes DEF Makes
  <2>6. i \in 1 .. 5
    BY <1>7, ReadXprList
  <2>7. i = 1 \/ i = 2 \/ i = 3 \/ i = 4 \/ i = 5
    BY <2>6
  <2>. QED BY <2>2, <2>4, <2>5, <2>7
<1>8. CASE r.f = "write_xpr_buf"
  <2>1. /\ Accesses(r)[1] = Wr("data0", r.data)
        /\ Accesses(r)[2] = Wr("progbuf0", "addi_s1_s0")
        /\ Accesses(r)[3] = Wr("progbuf1", "ebreak")
        /\ Accesses(r)[4] = Wr("command", RegCommand("no", "s0", TRUE))
        /\ Accesses(r)[5] = Wr("command", RegCommand("write", "s0", TRUE))
    BY <1>8, WriteXprList
  <2>2. /\ Accesses(r)[1].reg = "data0" /\ Accesses(r)[2].reg = "progbuf0"
        /\ Accesses(r)[3].reg = "progbuf1"
    BY <2>1 DEF Wr, Rd
  <2>3. /\ Accesses(r)[4].val = RegCommand("no", "s0", TRUE)
        /\ Accesses(r)[5].val = RegCommand("write", "s0", TRUE)
    BY <2>1 DEF Wr, Rd
  <2>4. Makes(r, 4, Accesses(r)[4].val)
    BY <1>8, <2>3 DEF Makes, RegCommand
  <2>5. Makes(r, 5, Accesses(r)[5].val)
    BY <1>8, <2>3 DEF Makes, RegCommand
  <2>6. i \in 1 .. 5
    BY <1>8, WriteXprList
  <2>7. i = 1 \/ i = 2 \/ i = 3 \/ i = 4 \/ i = 5
    BY <2>6
  <2>. QED BY <2>2, <2>4, <2>5, <2>7
<1>9. CASE r.f = "read_memory_abs"
  <2>1. /\ Accesses(r)[1] = Wr("data1", r.addr)
        /\ Accesses(r)[2] = Wr("command", MemCommand(FALSE, FALSE))
        /\ Accesses(r)[3] = Rd("data0?")
    BY <1>9, ReadAbsList
  <2>2. Accesses(r)[1].reg = "data1" /\ Accesses(r)[3].reg = "data0?"
    BY <2>1 DEF Wr, Rd
  <2>3. Accesses(r)[2].val = MemCommand(FALSE, FALSE)
    BY <2>1 DEF Wr, Rd
  <2>4. Makes(r, 2, Accesses(r)[2].val)
    BY <2>3, HarmlessOnes DEF Makes
  <2>5. i \in 1 .. 3
    BY <1>9, ReadAbsList
  <2>6. i = 1 \/ i = 2 \/ i = 3
    BY <2>5
  <2>. QED BY <2>2, <2>4, <2>6
<1>10. CASE r.f = "read_memory_buf"
  <2>1. /\ Accesses(r)[1] = Wr("progbuf0", "lw_s0_s0")
        /\ Accesses(r)[2] = Wr("progbuf1", "ebreak")
        /\ Accesses(r)[3] = Wr("data0", r.addr)
        /\ Accesses(r)[4] = Wr("command", RegCommand("write", "s0", TRUE))
        /\ Accesses(r)[5] = Wr("command", RegCommand("read", "s0", FALSE))
        /\ Accesses(r)[6] = Rd("data0?")
    BY <1>10, ReadBufList
  <2>2. /\ Accesses(r)[1].reg = "progbuf0" /\ Accesses(r)[2].reg = "progbuf1"
        /\ Accesses(r)[3].reg = "data0" /\ Accesses(r)[6].reg = "data0?"
    BY <2>1 DEF Wr, Rd
  <2>3. /\ Accesses(r)[4].val = RegCommand("write", "s0", TRUE)
        /\ Accesses(r)[5].val = RegCommand("read", "s0", FALSE)
    BY <2>1 DEF Wr, Rd
  <2>4. Makes(r, 4, Accesses(r)[4].val)
    BY <1>10, <2>3 DEF Makes, RegCommand
  <2>5. Makes(r, 5, Accesses(r)[5].val)
    BY <2>3, HarmlessOnes DEF Makes
  <2>6. i \in 1 .. 6
    BY <1>10, ReadBufList
  <2>7. i = 1 \/ i = 2 \/ i = 3 \/ i = 4 \/ i = 5 \/ i = 6
    BY <2>6
  <2>. QED BY <2>2, <2>4, <2>5, <2>7
<1>11. CASE r.f = "write_memory_abs"
  <2>1. /\ Accesses(r)[1] = Wr("data1", r.addr)
        /\ Accesses(r)[2] = Wr("data0", r.data)
        /\ Accesses(r)[3] = Wr("command", MemCommand(TRUE, FALSE))
    BY <1>11, WriteAbsList
  <2>2. Accesses(r)[1].reg = "data1" /\ Accesses(r)[2].reg = "data0"
    BY <2>1 DEF Wr, Rd
  <2>3. Accesses(r)[3].val = MemCommand(TRUE, FALSE)
    BY <2>1 DEF Wr, Rd
  <2>4. Makes(r, 3, Accesses(r)[3].val)
    BY <1>11, <2>3 DEF Makes
  <2>5. i \in 1 .. 3
    BY <1>11, WriteAbsList
  <2>6. i = 1 \/ i = 2 \/ i = 3
    BY <2>5
  <2>. QED BY <2>2, <2>4, <2>6
<1>12. CASE r.f = "write_memory_buf"
  <2>1. /\ Accesses(r)[1] = Wr("progbuf0", "sw_s1_s0")
        /\ Accesses(r)[2] = Wr("progbuf1", "ebreak")
        /\ Accesses(r)[3] = Wr("data0", r.addr)
        /\ Accesses(r)[4] = Wr("command", RegCommand("write", "s0", FALSE))
        /\ Accesses(r)[5] = Wr("data0", r.data)
        /\ Accesses(r)[6] = Wr("command", RegCommand("write", "s1", TRUE))
    BY <1>12, WriteBufList
  <2>2. /\ Accesses(r)[1].reg = "progbuf0" /\ Accesses(r)[2].reg = "progbuf1"
        /\ Accesses(r)[3].reg = "data0" /\ Accesses(r)[5].reg = "data0"
    BY <2>1 DEF Wr, Rd
  <2>3. /\ Accesses(r)[4].val = RegCommand("write", "s0", FALSE)
        /\ Accesses(r)[6].val = RegCommand("write", "s1", TRUE)
    BY <2>1 DEF Wr, Rd
  <2>4. Makes(r, 4, Accesses(r)[4].val)
    BY <2>3, HarmlessOnes DEF Makes
  <2>5. Makes(r, 6, Accesses(r)[6].val)
    BY <1>12, <2>3 DEF Makes
  <2>6. i \in 1 .. 6
    BY <1>12, WriteBufList
  <2>7. i = 1 \/ i = 2 \/ i = 3 \/ i = 4 \/ i = 5 \/ i = 6
    BY <2>6
  <2>. QED BY <2>2, <2>4, <2>5, <2>7
<1>13. CASE r.f = "dbg_test_init" /\ session.program = "dbg_test_init"
  <2>1. /\ Accesses(r)[1] = Rd("dmcontrol?")
        /\ Accesses(r)[2] = Wr("dmcontrol", "enable")
        /\ Accesses(r)[3] = Wr("command", Unsupported)
        /\ Accesses(r)[4] = Rd("cmderr")
        /\ Accesses(r)[5] = Rd("dmcontrol?")
        /\ Accesses(r)[6] = Wr("dmcontrol", "halt")
        /\ Accesses(r)[7] = Wr("data1", LedAddr)
        /\ Accesses(r)[8] = Wr("data0", LedWord)
        /\ Accesses(r)[9] = Wr("command", MemCommand(TRUE, FALSE))
    BY <1>13, BenchList
  <2>2. /\ Accesses(r)[1].reg = "dmcontrol?" /\ Accesses(r)[2].reg = "dmcontrol"
        /\ Accesses(r)[4].reg = "cmderr" /\ Accesses(r)[5].reg = "dmcontrol?"
        /\ Accesses(r)[6].reg = "dmcontrol" /\ Accesses(r)[7].reg = "data1"
        /\ Accesses(r)[8].reg = "data0"
    BY <2>1 DEF Wr, Rd
  <2>3. /\ Accesses(r)[3].val = Unsupported
        /\ Accesses(r)[9].val = MemCommand(TRUE, FALSE)
    BY <2>1 DEF Wr, Rd
  <2>4. Makes(r, 3, Accesses(r)[3].val)
    BY <2>3, HarmlessOnes DEF Makes
  <2>5. Makes(r, 9, Accesses(r)[9].val)
    BY <1>13, <2>3 DEF Makes
  <2>6. i \in 1 .. 9
    BY <1>13, BenchList
  <2>7. i = 1 \/ i = 2 \/ i = 3 \/ i = 4 \/ i = 5 \/ i = 6 \/ i = 7 \/ i = 8 \/ i = 9
    BY <2>6
  <2>. QED BY <2>2, <2>4, <2>5, <2>7
<1>14. CASE r.f = "dbg_test_init" /\ session.program # "dbg_test_init"
  <2>1. /\ Accesses(r)[1] = Wr("reset", "pulse")
        /\ Accesses(r)[2] = Rd("dmcontrol?")
        /\ Accesses(r)[3] = Wr("dmcontrol", "enable")
        /\ Accesses(r)[4] = Rd("dmcontrol?")
        /\ Accesses(r)[5] = Rd("command?")
        /\ Accesses(r)[6] = Wr("command", Unsupported)
        /\ Accesses(r)[7] = Rd("command?")
        /\ Accesses(r)[8] = Rd("cmderr")
    BY <1>14, PortList
  <2>2. /\ Accesses(r)[1].reg = "reset" /\ Accesses(r)[2].reg = "dmcontrol?"
        /\ Accesses(r)[3].reg = "dmcontrol" /\ Accesses(r)[4].reg = "dmcontrol?"
        /\ Accesses(r)[5].reg = "command?" /\ Accesses(r)[7].reg = "command?"
        /\ Accesses(r)[8].reg = "cmderr"
    BY <2>1 DEF Wr, Rd
  <2>3. Accesses(r)[6].val = Unsupported
    BY <2>1 DEF Wr, Rd
  <2>4. Makes(r, 6, Accesses(r)[6].val)
    BY <2>3, HarmlessOnes DEF Makes
  <2>5. i \in 1 .. 8
    BY <1>14, PortList
  <2>6. i = 1 \/ i = 2 \/ i = 3 \/ i = 4 \/ i = 5 \/ i = 6 \/ i = 7 \/ i = 8
    BY <2>5
  <2>. QED BY <2>2, <2>4, <2>6
<1>15. CASE r.f = "write_memory_bulk"
  <2>1. /\ Accesses(r)[1] = Wr("data1", r.addr)
        /\ Accesses(r)[2] = Wr("data0", r.data[1])
        /\ Accesses(r)[3] = Wr("command", MemCommand(TRUE, TRUE))
        /\ Accesses(r)[4] = Wr("abstractauto", TRUE)
        /\ Accesses(r)[Len(r.data) + 4] = Wr("abstractauto", FALSE)
    BY <1>15, BulkList
  <2>2. /\ Accesses(r)[1].reg = "data1" /\ Accesses(r)[2].reg = "data0"
        /\ Accesses(r)[3].val = MemCommand(TRUE, TRUE) /\ Accesses(r)[4].reg = "abstractauto"
        /\ Accesses(r)[Len(r.data) + 4].reg = "abstractauto"
    BY <2>1 DEF Wr
  <2>3. \A j \in 5 .. Len(r.data) + 3 : Accesses(r)[j].reg = "data0"
    <3>. TAKE j \in 5 .. Len(r.data) + 3
    <3>1. Accesses(r)[j] = Wr("data0", r.data[j - 3])
      BY <1>15, BulkList
    <3>. QED BY <3>1, Fields
  <2>4. Makes(r, 3, Accesses(r)[3].val)
    BY <1>15, <2>2 DEF Makes
  <2>5. Len(r.data) \in Nat \ {0} /\ i \in 1 .. Len(r.data) + 4
    BY <1>15, BulkList
  <2>6. i = 1 \/ i = 2 \/ i = 3 \/ i = 4 \/ i \in 5 .. Len(r.data) + 3 \/ i = Len(r.data) + 4
    BY <2>5
  <2>. QED BY <2>2, <2>3, <2>4, <2>6
<1>. QED
  BY <1>1, <1>2, <1>3, <1>4, <1>5, <1>6, <1>7, <1>8, <1>9,
     <1>10, <1>11, <1>12, <1>13, <1>14, <1>15 DEF Functions

\* A command that writes to memory is started only where the function means
\* it, with the address and the word it means.
LEMMA StartAsked ==
  ASSUME NoSlowBulk, TypeOK, AutoInv, Course, NoneYet,
         pc = "call", ~cut, link = "up", k \in 1 .. Len(Accesses(req)),
         Perform(Accesses(req)[k]), ~Busy, session' = session, req' = req, Writing'
  PROVE  /\ k >= FirstWrite
         /\ \E i \in DOMAIN Asked(req) : Asked(req)[i] = Target'
         /\ ~session.slow => /\ Len(writes) < Len(Asked(req))
                             /\ Asked(req)[Len(writes) + 1] = Target'
<1>. DEFINE o == Accesses(req)[k]
<1>1. o \in Ops /\ req \in Calls /\ k \in Nat
  BY ListsTyped DEF TypeOK
<1>2. /\ active /\ cmderr = "none" /\ UNCHANGED <<data1, progbuf, regs>>
      /\ \/ o.reg = "command" /\ running' = o.val /\ data0' = data0
         \/ /\ o.reg \in {"data0", "data0?"} /\ auto /\ running' = command
            /\ o.reg = "data0" => data0' = o.val
  BY <1>1, WhatRuns DEF Writing
<1>3. Clean
  BY <1>2 DEF Clean
<1>4. CASE o.reg = "command" /\ running' = o.val /\ data0' = data0
  <2>1. Makes(req, k, running')
    BY <1>1, <1>4, CommandAccesses
  <2>2. ~session.slow /\ k <= FirstWrite => Len(writes) = 0
    BY DEF NoneYet
  <2>3. CASE req.f = "write_memory_abs" /\ k = 3 /\ running' = MemCommand(TRUE, FALSE)
    <3>1. FirstWrite = 3
      BY <2>3 DEF FirstWrite
    <3>2. data1 = req.addr /\ data0 = req.data
      BY <1>3, <2>3 DEF Course, WriteAbsCourse
    <3>3. Target' = <<req.addr, req.data>>
      BY <1>2, <1>4, <2>3, <3>2 DEF Target, MemCommand
    <3>. QED BY <2>2, <2>3, <3>1, <3>3, AskedByAbsOrBuf
  <2>4. CASE /\ req.f = "dbg_test_init" /\ session.program = "dbg_test_init"
             /\ k = 9 /\ running' = MemCommand(TRUE, FALSE)
    <3>1. FirstWrite = 9
      BY <2>4 DEF FirstWrite
    <3>2. data1 = LedAddr /\ data0 = LedWord
      BY <1>3, <2>4 DEF Course, BenchCourse
    <3>3. Target' = <<LedAddr, LedWord>>
      BY <1>2, <1>4, <2>4, <3>2 DEF Target, MemCommand
    <3>. QED BY <2>2, <2>4, <3>1, <3>3, AskedByBench
  <2>5. CASE req.f = "write_memory_bulk" /\ k = 3 /\ running' = MemCommand(TRUE, TRUE)
    <3>1. FirstWrite = 3
      BY <2>5 DEF FirstWrite
    <3>2. data1 = req.addr /\ data0 = req.data[1]
      BY <1>3, <2>5 DEF Course, BulkCourse
    <3>3. Target' = <<req.addr, req.data[1]>>
      BY <1>2, <1>4, <2>5, <3>2 DEF Target, MemCommand
    <3>4. req.addr \in Nat
      BY <1>1, <2>5, Arguments, AbsCmdAssumption DEF Addrs
    <3>5. /\ Len(Asked(req)) \in Nat \ {0} /\ DOMAIN Asked(req) = 1 .. Len(Asked(req))
          /\ Asked(req)[1] = <<req.addr + 1 - 1, req.data[1]>>
      <4>1. Len(req.data) \in Nat \ {0}
        BY <1>1, <2>5, BulkList
      <4>. QED BY <1>1, <2>5, <4>1, AskedByBulk
    <3>6. Asked(req)[1] = Target'
      BY <3>3, <3>4, <3>5
    <3>. QED BY <2>2, <2>5, <3>1, <3>5, <3>6
  <2>6. CASE req.f = "write_memory_buf" /\ k = 6 /\ running' = RegCommand("write", "s1", TRUE)
    <3>1. FirstWrite = 6
      BY <2>6 DEF FirstWrite
    <3>2. regs["s0"] = req.addr /\ data0 = req.data
      BY <1>3, <2>6 DEF Course, WriteBufCourse
    <3>3. /\ running'.type = "reg" /\ running'.transfer = "write" /\ running'.reg = "s1"
      BY <2>6 DEF RegCommand
    <3>4. Transferred(running)' = [regs EXCEPT !["s1"] = data0]
      BY <1>2, <1>4, <3>3 DEF Transferred
    <3>5. Target' = <<req.addr, req.data>>
      BY <3>2, <3>3, <3>4 DEF Target, TypeOK, DmTypeOK
    <3>. QED BY <2>2, <2>6, <3>1, <3>5, AskedByAbsOrBuf
  <2>7. CASE /\ running'.type = "reg"
             /\ \/ req.f \in {"read_memory_buf", "read_xpr_buf"} /\ k > 1
                \/ req.f = "write_xpr_buf" /\ k > 2
    <3>1. progbuf[0] # "sw_s1_s0"
      BY <1>3, <2>7 DEF Course, OtherProgram
    <3>. QED BY <1>2, <2>7, <3>1 DEF Writing
  <2>8. CASE Harmless(running')
    BY <2>8 DEF Harmless, Writing
  <2>. QED BY <2>1, <2>3, <2>4, <2>5, <2>6, <2>7, <2>8 DEF Makes
<1>5. CASE /\ o.reg \in {"data0", "data0?"} /\ auto /\ running' = command
           /\ o.reg = "data0" => data0' = o.val
  <2>. DEFINE n == Len(req.data)
  <2>1. req.f = "write_memory_bulk" /\ k \in 5 .. Len(Accesses(req))
    BY <1>5 DEF AutoInv
  <2>2. n \in Nat \ {0} /\ Len(Accesses(req)) = n + 4
    BY <1>1, <2>1, BulkList
  <2>3. k # n + 4
    <3>1. Accesses(req)[n + 4] = Wr("abstractauto", FALSE)
      BY <1>1, <2>1, BulkList
    <3>2. Accesses(req)[n + 4].reg = "abstractauto"
      BY <3>1, Fields
    <3>. QED BY <1>5, <3>2
  <2>4. k \in 5 .. n + 3
    BY <2>1, <2>2, <2>3
  <2>5. o = Wr("data0", req.data[k - 3])
    BY <1>1, <2>1, <2>4, BulkList
  <2>6. data0' = req.data[k - 3]
    BY <1>5, <2>5, Fields
  <2>7. command = MemCommand(TRUE, TRUE) /\ data1 = req.addr + (k - 4) /\ Len(writes) = k - 4
    <3>1. Begun = k - 4
      BY <2>4 DEF Begun
    <3>2. k \in 4 .. n + 4
      BY <2>2, <2>4
    <3>. QED BY <1>3, <2>1, <3>1, <3>2 DEF Course, BulkCourse
  <2>8. Target' = <<req.addr + (k - 4), req.data[k - 3]>>
    BY <1>2, <1>5, <2>6, <2>7 DEF Target, MemCommand
  <2>9. req.addr \in Nat
    BY <1>1, <2>1, Arguments, AbsCmdAssumption DEF Addrs
  <2>10. /\ Len(Asked(req)) = n /\ DOMAIN Asked(req) = 1 .. n
         /\ Asked(req)[k - 3] = <<req.addr + (k - 3) - 1, req.data[k - 3]>>
    <3>1. k - 3 \in 1 .. n
      BY <2>2, <2>4
    <3>. QED BY <1>1, <2>1, <3>1, AskedByBulk
  <2>11. Asked(req)[k - 3] = Target'
    BY <1>1, <2>8, <2>9, <2>10
  <2>12. k - 3 \in 1 .. n /\ k - 3 = Len(writes) + 1 /\ Len(writes) < n
    BY <2>2, <2>4, <2>7
  <2>13. FirstWrite = 3
    BY <2>1 DEF FirstWrite
  <2>. QED BY <2>4, <2>10, <2>11, <2>12, <2>13
<1>. QED BY <1>2, <1>4, <1>5

-------------------------------------------------------------------------------
(* The invariant                                                           *)

LEMMA AskedTyped ==
  ASSUME NEW r \in Calls
  PROVE  Len(Asked(r)) \in Nat
BY BulkList, AskedByBulk DEF Asked

LEMMA SameFirstWrite ==
  ASSUME req' = req
  PROVE  FirstWrite' = FirstWrite
BY DEF FirstWrite

LEMMA WritingTyped ==
  ASSUME DmTypeOK, Writing
  PROVE  Target \in Values \X Values
<1>1. running \in Commands
  BY DEF DmTypeOK, Writing, Busy
<1>2. CASE running.type = "mem"
  BY <1>2 DEF DmTypeOK, Target
<1>3. CASE running.type = "reg"
  <2>1. running \in RegCommands
    BY <1>1, <1>3, Kinds
  <2>2. Transferred(running) \in [{"s0", "s1"} -> Values]
    BY <2>1 DEF Transferred, DmTypeOK, RegCommands
  <2>. QED BY <1>3, <2>2 DEF Target
<1>. QED BY <1>2, <1>3 DEF Writing

LEMMA WriteInvHart ==
  ASSUME TypeOK, WriteInv, Hart
  PROVE  WriteInv'
<1>1. /\ UNCHANGED <<session, pc, req, k, cut, progbuf>>
      /\ UNCHANGED <<running, data0, data1, regs, writes>> \/ (Busy /\ running' = None)
      /\ issuer' = issuer \/ running' = None
      /\ \/ writes' = writes
         \/ Writing /\ writes' = Append(writes, Target) /\ running' = None
  BY HartSteps DEF TypeOK
<1>2. Course'
  BY CourseHart DEF WriteInv
<1>3. running' = None => ~Writing'
  BY DEF Writing, Busy
<1>4. UNCHANGED <<running, data0, data1, regs>> => Writing' = Writing /\ Target' = Target
  BY <1>1 DEF Writing, Busy, Target, Transferred
<1>5. \A r : Asked(r)' = Asked(r)
  BY <1>1, SameAsked
<1>6. FirstWrite' = FirstWrite
  BY <1>1, SameFirstWrite
<1>7. OneOfIssuer'
  BY <1>1, <1>3, <1>4, <1>5 DEF WriteInv, OneOfIssuer
<1>8. NextOfCall'
  BY <1>1, <1>3, <1>4, <1>5 DEF WriteInv, NextOfCall
<1>9. NoneYet'
  BY <1>1, <1>3, <1>4, <1>6 DEF WriteInv, NoneYet
<1>10. CASE writes' = writes
  <2>1. OnlyAsked'
    BY <1>1, <1>5, <1>10 DEF WriteInv, OnlyAsked
  <2>. QED BY <1>2, <1>7, <1>8, <1>9, <1>10, <2>1 DEF WriteInv
<1>11. CASE Writing /\ writes' = Append(writes, Target)
  <2>1. writes \in Seq(Values \X Values) /\ Target \in Values \X Values
    BY <1>11, WritingTyped DEF WriteInv, TypeOK
  <2>2. /\ writes' \in Seq(Values \X Values) /\ Len(writes') = Len(writes) + 1
        /\ \A i \in 1 .. Len(writes) : writes'[i] = writes[i]
        /\ writes'[Len(writes) + 1] = Target
    BY <1>11, <2>1
  <2>3. OnlyAsked'
    <3>. SUFFICES ASSUME ~cut, ~session.slow
                  PROVE  /\ Len(writes') <= Len(Asked(req))
                         /\ \A i \in 1 .. Len(writes') : writes'[i] = Asked(req)[i]
      BY <1>1, <1>5 DEF OnlyAsked
    <3>1. Len(writes) < Len(Asked(req)) /\ Asked(req)[Len(writes) + 1] = Target
      BY <1>11 DEF WriteInv, NextOfCall
    <3>2. \A i \in 1 .. Len(writes) : writes[i] = Asked(req)[i]
      BY DEF WriteInv, OnlyAsked
    <3>3. Len(writes) \in Nat /\ Len(Asked(req)) \in Nat
      BY <2>1, AskedTyped DEF TypeOK
    <3>4. \A i \in 1 .. Len(writes') : i \in 1 .. Len(writes) \/ i = Len(writes) + 1
      BY <2>2, <3>3
    <3>. QED BY <2>2, <3>1, <3>2, <3>3, <3>4
  <2>. QED BY <1>2, <1>7, <1>8, <1>9, <2>2, <2>3 DEF WriteInv
<1>. QED BY <1>1, <1>10, <1>11

LEMMA WriteInvAccess ==
  ASSUME NoSlowBulk, TypeOK, AutoInv, WriteInv, Access \/ AccessFails
  PROVE  WriteInv'
<1>. DEFINE o == Accesses(req)[k]
<1>1. /\ UNCHANGED <<session, req, cut>> /\ pc = "call" /\ (pc' = "call" => k' = k + 1)
      /\ k \in 1 .. Len(Accesses(req)) /\ k \in Nat /\ o \in Ops /\ req \in Calls
      /\ (Perform(o) /\ (link = "up" \/ o.reg = "reset")) \/ UNCHANGED dm
      /\ ~session.slow => ~Busy
      /\ issuer' = IF ~Busy /\ running' # None THEN req ELSE issuer
  <2>1. k \in 1 .. Len(Accesses(req)) /\ k \in Nat /\ o \in Ops /\ req \in Calls
    BY ListsTyped DEF Access, AccessFails, TypeOK
  <2>2. CASE Access
    BY <2>1, <2>2 DEF Access, NoteIssuer, InTime, Settled
  <2>3. CASE AccessFails
    <3>1. ~session.slow => ~Busy
      BY <2>3 DEF AccessFails, InTime, Settled
    <3>2. (Perform(o) /\ link = "up") \/ UNCHANGED dm
      BY <2>3 DEF AccessFails
    <3>3. UNCHANGED <<session, req, cut>> /\ pc = "call" /\ (pc' = "call" => k' = k + 1)
      BY <2>3 DEF AccessFails
    <3>4. issuer' = IF ~Busy /\ running' # None THEN req ELSE issuer
      BY <2>3 DEF AccessFails, NoteIssuer
    <3>. QED BY <2>1, <3>1, <3>2, <3>3, <3>4
  <2>. QED BY <2>2, <2>3
<1>2. writes' = writes
  BY <1>1, WhatRuns DEF dm
<1>3. Course'
  <2>1. CASE Access
    BY <2>1, CourseAccess DEF WriteInv
  <2>2. CASE AccessFails
    <3>1. ~Clean'
      BY <2>2 DEF AccessFails, Clean
    <3>. QED BY <3>1 DEF Course, WriteAbsCourse, WriteBufCourse, BenchCourse, BulkCourse,
                         OtherProgram
  <2>. QED BY <2>1, <2>2
<1>4. Busy /\ Writing' => Writing /\ Target' = Target /\ issuer' = issuer
  <2>1. Busy => running' = None \/ UNCHANGED <<running, data0, data1, progbuf, regs>>
    BY <1>1, WhatRuns DEF dm
  <2>2. running' = None => ~Writing'
    BY DEF Writing, Busy
  <2>3. UNCHANGED <<running, data0, data1, progbuf, regs>> => Writing' = Writing /\ Target' = Target
    BY DEF Writing, Busy, Target, Transferred
  <2>. QED BY <1>1, <2>1, <2>2, <2>3
<1>5. ASSUME ~Busy, ~cut, Writing'
      PROVE  /\ issuer' = req /\ k >= FirstWrite
             /\ \E i \in DOMAIN Asked(req) : Asked(req)[i] = Target'
             /\ ~session.slow => /\ Len(writes) < Len(Asked(req))
                                 /\ Asked(req)[Len(writes) + 1] = Target'
  <2>1. Busy'
    BY <1>5 DEF Writing
  <2>2. Perform(o) /\ (link = "up" \/ o.reg = "reset")
    BY <1>1, <1>5, <2>1 DEF Busy, dm
  <2>3. o.reg # "reset"
    BY <1>1, <1>5, <2>1, <2>2, WhatRuns
  <2>4. issuer' = req
    BY <1>1, <1>5, <2>1 DEF Busy
  <2>5. Course /\ NoneYet /\ link = "up" /\ session' = session /\ req' = req
    BY <1>1, <2>2, <2>3 DEF WriteInv
  <2>. QED BY <1>1, <1>5, <2>2, <2>4, <2>5, StartAsked
<1>6. \A r : Asked(r)' = Asked(r)
  BY <1>1, SameAsked
<1>7. OneOfIssuer'
  <2>1. req # None
    BY <1>1, NoneAssumption
  <2>2. CASE Busy
    BY <1>1, <1>4, <1>6, <2>2 DEF WriteInv, OneOfIssuer
  <2>3. CASE ~Busy
    BY <1>1, <1>5, <1>6, <2>1, <2>3 DEF OneOfIssuer
  <2>. QED BY <2>2, <2>3
<1>8. NextOfCall'
  BY <1>1, <1>2, <1>5, <1>6 DEF NextOfCall
<1>9. NoneYet'
  <2>1. FirstWrite' = FirstWrite /\ FirstWrite \in Nat
    BY <1>1, SameFirstWrite DEF FirstWrite
  <2>2. ASSUME ~session.slow, ~cut, pc' = "call", k' <= FirstWrite
        PROVE  writes = << >> /\ ~Writing'
    <3>1. k <= FirstWrite /\ ~(k >= FirstWrite)
      BY <1>1, <2>1, <2>2
    <3>2. writes = << >>
      BY <1>1, <2>2, <3>1 DEF WriteInv, NoneYet
    <3>. QED BY <1>1, <1>5, <2>2, <3>1, <3>2
  <2>. QED BY <1>1, <1>2, <2>1, <2>2 DEF NoneYet
<1>10. OnlyAsked'
  BY <1>1, <1>2, <1>6 DEF WriteInv, OnlyAsked
<1>. QED BY <1>2, <1>3, <1>7, <1>8, <1>9, <1>10 DEF WriteInv

LEMMA WriteInvStep ==
  ASSUME NoSlowBulk, TypeOK, AutoInv, WriteInv, [Next]_vars
  PROVE  WriteInv'
<1>1. ASSUME NEW r \in Calls, Call(r) PROVE WriteInv'
  <2>1. /\ pc' = "call" /\ req' = r /\ k' = 1 /\ writes' = << >> /\ session' = session
        /\ UNCHANGED <<running, data0, data1, progbuf, regs, issuer>>
        /\ ~session.slow => ~Busy'
        /\ session.slow => ~cut /\ ~cut'
    BY <1>1 DEF Call, AutoInv, InTime, Settled, Busy
  <2>2. Writing' = Writing /\ Target' = Target /\ (Writing' => Busy')
    BY <2>1 DEF Writing, Busy, Target, Transferred
  <2>3. \A q : Asked(q)' = Asked(q)
    BY <2>1, SameAsked
  <2>4. Course'
    BY <2>1 DEF Course, WriteAbsCourse, WriteBufCourse, BenchCourse, BulkCourse, OtherProgram
  <2>5. OneOfIssuer'
    BY <2>1, <2>2, <2>3 DEF WriteInv, OneOfIssuer
  <2>6. NextOfCall' /\ NoneYet'
    BY <2>1, <2>2 DEF NextOfCall, NoneYet
  <2>7. OnlyAsked'
    <3>1. Len(Asked(r))' \in Nat
      BY <2>3, AskedTyped
    <3>. QED BY <2>1, <3>1 DEF OnlyAsked
  <2>. QED BY <2>1, <2>4, <2>5, <2>6, <2>7 DEF WriteInv
<1>2. CASE Access \/ AccessFails
  BY <1>2, WriteInvAccess
<1>3. CASE Hart
  BY <1>3, WriteInvHart
<1>4. CASE Return \/ Restart \/ UNCHANGED vars
  <2>1. UNCHANGED <<session, req, cut, issuer, link, active, cmderr, running, command, auto,
                    data0, data1, progbuf, regs, writes>>
    BY <1>4 DEF Return, Restart, vars, dm, driver
  <2>2. pc' = "idle" \/ UNCHANGED <<pc, k>>
    BY <1>4 DEF Return, Restart, vars, driver
  <2>3. /\ Writing' = Writing /\ Target' = Target /\ Busy' = Busy
        /\ FirstWrite' = FirstWrite
    BY <2>1, SameFirstWrite DEF Writing, Busy, Target, Transferred
  <2>4. \A q : Asked(q)' = Asked(q)
    BY <2>1, SameAsked
  <2>5. OneOfIssuer' /\ NextOfCall' /\ OnlyAsked'
    BY <2>1, <2>3, <2>4 DEF WriteInv, OneOfIssuer, NextOfCall, OnlyAsked
  <2>6. NoneYet'
    BY <2>1, <2>2, <2>3 DEF WriteInv, NoneYet
  <2>7. Course'
    <3>1. CASE pc' = "idle"
      <4>1. ~Clean'
        BY <3>1 DEF Clean
      <4>. QED BY <4>1 DEF Course, WriteAbsCourse, WriteBufCourse, BenchCourse, BulkCourse,
                           OtherProgram
    <3>2. CASE UNCHANGED <<pc, k>>
      <4>1. Clean' = Clean /\ Begun' = Begun
        BY <2>1, <3>2 DEF Clean, Begun
      <4>2. WriteAbsCourse' /\ WriteBufCourse'
        BY <2>1, <2>3, <3>2, <4>1 DEF WriteInv, Course, WriteAbsCourse, WriteBufCourse
      <4>3. BenchCourse' /\ OtherProgram'
        BY <2>1, <2>3, <3>2, <4>1 DEF WriteInv, Course, BenchCourse, OtherProgram
      <4>4. BulkCourse'
        BY <2>1, <2>3, <3>2, <4>1 DEF WriteInv, Course, BulkCourse
      <4>. QED BY <4>2, <4>3, <4>4 DEF Course
    <3>. QED BY <2>2, <3>1, <3>2
  <2>. QED BY <2>1, <2>5, <2>6, <2>7 DEF WriteInv
<1>. QED BY <1>1, <1>2, <1>3, <1>4 DEF Next

\* What the accesses of a call have left in the registers determines what its
\* commands write, in every state of every run.
THEOREM WriteInvHolds ==
  ASSUME NoSlowBulk
  PROVE  Spec => []WriteInv
<1>1. Init => WriteInv
  <2>. SUFFICES ASSUME Init PROVE WriteInv
    OBVIOUS
  <2>1. pc = "idle" /\ running = None /\ writes = << >> /\ req \in Calls
    BY DEF Init, DmInit, Calls, NoArgs
  <2>2. Course
    BY <2>1 DEF Course, WriteAbsCourse, WriteBufCourse, BenchCourse, BulkCourse,
                OtherProgram, Clean
  <2>3. OneOfIssuer /\ NextOfCall /\ NoneYet
    BY <2>1 DEF OneOfIssuer, NextOfCall, NoneYet, Writing, Busy
  <2>4. OnlyAsked
    BY <2>1, AskedTyped DEF OnlyAsked
  <2>. QED BY <2>1, <2>2, <2>3, <2>4 DEF WriteInv
<1>2. TypeOK /\ AutoInv /\ WriteInv /\ [Next]_vars => WriteInv'
  BY WriteInvStep
<1>. QED BY <1>1, <1>2, TypeCorrect, AutoInvHolds, PTL DEF Spec

\* Commands write to memory only what the call in progress asks for, in its
\* order, whatever the hart and the link do and however the call ends: no
\* leftover of DATA0, DATA1, s0, the program buffer or the command register
\* gets there.
THEOREM OnlyAskedHolds ==
  ASSUME NoSlowBulk
  PROVE  Spec => []OnlyAsked
<1>1. WriteInv => OnlyAsked
  BY DEF WriteInv
<1>. QED BY <1>1, WriteInvHolds, PTL

\* A hart slower than the link may be in the middle of an earlier call's
\* command: what it then writes to memory is still what that call asked for.
THEOREM NoneAstrayHolds ==
  ASSUME NoSlowBulk
  PROVE  Spec => NoneAstray
<1>. DEFINE Astray == Len(writes') > Len(writes) /\ ~cut =>
                        /\ issuer # None
                        /\ \E i \in DOMAIN Asked(issuer) :
                             Asked(issuer)[i] = writes'[Len(writes')]
<1>1. TypeOK /\ WriteInv /\ [Next]_vars => [Astray]_vars
  <2>. SUFFICES ASSUME TypeOK, WriteInv, Next, Len(writes') > Len(writes), ~cut
                PROVE  /\ issuer # None
                       /\ \E i \in DOMAIN Asked(issuer) :
                            Asked(issuer)[i] = writes'[Len(writes')]
    OBVIOUS
  <2>1. writes \in Seq(Values \X Values) /\ Len(writes) \in Nat
    BY DEF WriteInv
  <2>2. CASE Hart
    <3>1. Writing /\ writes' = Append(writes, Target)
      BY <2>1, <2>2, HartSteps DEF TypeOK
    <3>2. Target \in Values \X Values
      BY <3>1, WritingTyped DEF TypeOK
    <3>3. writes'[Len(writes')] = Target
      BY <2>1, <3>1, <3>2
    <3>. QED BY <3>1, <3>3 DEF WriteInv, OneOfIssuer
  <2>3. CASE \E r \in Calls : Call(r)
    BY <2>1, <2>3 DEF Call
  <2>4. CASE Access \/ AccessFails
    <3>1. writes' = writes
      <4>1. Accesses(req)[k] \in Ops
        BY <2>4, ListsTyped DEF Access, AccessFails, TypeOK
      <4>2. Perform(Accesses(req)[k]) \/ UNCHANGED dm
        BY <2>4 DEF Access, AccessFails
      <4>. QED BY <4>1, <4>2, WhatRuns DEF dm
    <3>. QED BY <2>1, <3>1
  <2>5. CASE Return \/ Restart
    BY <2>1, <2>5 DEF Return, Restart, dm
  <2>. QED BY <2>2, <2>3, <2>4, <2>5 DEF Next
<1>. QED BY <1>1, WriteInvHolds, TypeCorrect, PTL DEF Spec, NoneAstray

-------------------------------------------------------------------------------
(***************************************************************************)
(* What the calls of AbsCmd achieve, for every list of requests and        *)
(* sessions, every address and every PollLimit: a call that returns has    *)
(* done its work (WorkDone), and a start-up leaves the Debug Module in     *)
(* order (StartedInOrder).                                                 *)
(*                                                                         *)
(* Neither property is inductive: both speak of the end of a call only.    *)
(* WorkInv and StartInv say, function by function, what has been achieved  *)
(* between two accesses: the command that runs, or what it has left in     *)
(* data0, in the program buffer and in the registers.  The proof of each   *)
(* has one lemma for the access (the driver) and one for the step of the   *)
(* hart that ends or refuses the command.                                  *)
(***************************************************************************)

-------------------------------------------------------------------------------
(* The work of a call                                                      *)

\* The functions that leave halting, errors and start-up alone.
Working == {"read_register", "write_register", "read_xpr_buf", "write_xpr_buf",
            "read_memory_abs", "read_memory_buf", "write_memory_abs",
            "write_memory_buf", "write_memory_bulk"}

\* A call that WorkDone speaks of, in progress.
Watched ==
  pc = "call" /\ req.f \in Working /\ ready /\ Exists(req) /\ link = "up" /\ ~session.slow

\* Nothing stands in its way.
InOrderInv ==
  /\ ready => ~cut
  /\ Watched => active /\ halted /\ asked = "nothing" /\ cmderr = "none"

\* What each function has achieved between two of its accesses: the command it
\* has started and what that works on, or what the command has left.
RegisterWork ==
  /\ Watched /\ req.f = "read_register" =>
       /\ k = 1 => ~Busy
       /\ k = 2 => IF Busy THEN running = RegCommand("read", req.reg, FALSE)
                           ELSE data0 = regs[req.reg]
       /\ k = 3 => ~Busy /\ out = regs[req.reg]
  /\ Watched /\ req.f = "write_register" =>
       /\ k \in {1, 2} => ~Busy
       /\ k \in {2, 3} /\ (k = 3 => Busy) => data0 = req.data
       /\ k = 3 => IF Busy THEN running = RegCommand("write", req.reg, FALSE)
                           ELSE regs[req.reg] = req.data

XprWork ==
  /\ Watched /\ req.f = "read_xpr_buf" =>
       /\ k \in {1, 2, 3} => ~Busy
       /\ k = 4 /\ Busy => running = RegCommand("no", "s0", TRUE)
       /\ k = 5 => IF Busy THEN running = RegCommand("read", "s1", FALSE)
                           ELSE data0 = regs["s1"]
       /\ k = 6 => ~Busy /\ out = regs["s1"]
  /\ Watched /\ req.f = "write_xpr_buf" =>
       /\ k \in {1, 2, 3, 4} => ~Busy
       /\ k > 1 => data0 = req.data
       /\ k = 5 /\ Busy => running = RegCommand("no", "s0", TRUE)
       /\ k = 6 => IF Busy THEN running = RegCommand("write", "s0", TRUE)
                           ELSE regs["s1"] = req.data

ReadWork ==
  /\ Watched /\ req.f = "read_memory_abs" =>
       /\ k \in {1, 2} => ~Busy
       /\ k \in {2, 3} => data1 = req.addr
       /\ k = 3 => IF Busy THEN running = MemCommand(FALSE, FALSE)
                           ELSE data0 = mem[req.addr]
       /\ k = 4 => ~Busy /\ out = mem[req.addr]
  /\ Watched /\ req.f = "read_memory_buf" =>
       /\ k \in {1, 2, 3, 4} => ~Busy
       /\ k = 4 => data0 = req.addr
       /\ k = 5 => IF Busy THEN running = RegCommand("write", "s0", TRUE) /\ data0 = req.addr
                           ELSE regs["s0"] = mem[req.addr]
       /\ k = 6 => IF Busy THEN /\ running = RegCommand("read", "s0", FALSE)
                                /\ regs["s0"] = mem[req.addr]
                           ELSE data0 = mem[req.addr]
       /\ k = 7 => ~Busy /\ out = mem[req.addr]

WriteWork ==
  /\ Watched /\ req.f = "write_memory_abs" =>
       /\ k \in {1, 2, 3} => ~Busy
       /\ k = 4 => IF Busy THEN running = MemCommand(TRUE, FALSE) /\ data1 = req.addr
                           ELSE Len(writes) = 1
  /\ Watched /\ req.f = "write_memory_buf" =>
       /\ k \in {1, 2, 3, 4, 6} => ~Busy
       /\ k = 7 => IF Busy THEN /\ running = RegCommand("write", "s1", TRUE)
                                /\ regs["s0"] = req.addr
                           ELSE Len(writes) = 1
  /\ Watched /\ req.f = "write_memory_bulk" =>
       /\ k \in {1, 2, 3} => ~Busy
       /\ k = Len(req.data) + 5 => ~Busy /\ Len(writes) = Len(req.data)

\* Start-up in order: the trial command is refused, its error cleared, and
\* the bench's hart halted before its write.
BenchWork ==
  /\ pc = "call" /\ req.f = "dbg_test_init" /\ session.program = "dbg_test_init"
  /\ link = "up" /\ ~session.slow /\ ~auto
  => /\ k \notin {4, 10} => ~Busy
     /\ k > 2 => active
     /\ k = 4 /\ Busy => running = Unsupported
     /\ k > 4 => cmderr = "none"
     /\ k = 7 => asked = "halt" \/ (asked = "nothing" /\ halted)
     /\ k > 7 => asked = "nothing" /\ halted /\ data1 = LedAddr
     /\ k > 8 => data0 = LedWord
     /\ k < 10 => writes = << >>
     /\ k = 10 => IF Busy THEN running = MemCommand(TRUE, FALSE) /\ writes = << >>
                          ELSE writes = << <<LedAddr, LedWord>> >>

PortWork ==
  /\ pc = "call" /\ req.f = "dbg_test_init" /\ session.program # "dbg_test_init"
  /\ link = "up" \/ k = 1
  /\ ~session.slow
  => /\ k # 7 => ~Busy
     /\ k > 3 => active
     /\ k = 7 /\ Busy => running = Unsupported
     /\ k = 9 => cmderr = "none"
     /\ writes = << >>

CallWork == RegisterWork /\ XprWork /\ ReadWork /\ WriteWork

\* What the hart does with a command, when it is halted and the command has
\* what it needs.
LEMMA HartTransfers ==
  ASSUME DmTypeOK, Hart, asked = "nothing", halted,
         NEW t \in {"read", "write", "no"}, NEW r \in {"s0", "s1"}, NEW p \in BOOLEAN,
         running = RegCommand(t, r, p)
  PROVE  /\ UNCHANGED <<halted, asked, data1, progbuf>> /\ running' = None
         /\ data0' = IF t = "read" THEN regs[r] ELSE data0
         /\ ~p => /\ UNCHANGED <<mem, writes, cmderr>>
                  /\ regs' = IF t = "write" THEN [regs EXCEPT ![r] = data0] ELSE regs
         /\ p => RunProgram(IF t = "write" THEN [regs EXCEPT ![r] = data0] ELSE regs)
<1>1. /\ running.type = "reg" /\ running.transfer = t /\ running.reg = r
      /\ running.postexec = p
      /\ running # Unsupported /\ running # None
  BY NotNone DEF RegCommand, Unsupported
<1>2. AccessRegister
  BY <1>1 DEF Hart, HartHonours, AccessMemory, Refuse
<1>3. Transferred(running) = IF t = "write" THEN [regs EXCEPT ![r] = data0] ELSE regs
  BY <1>1 DEF Transferred
<1>4. /\ UNCHANGED <<halted, asked, data1, progbuf>>
      /\ data0' = IF t = "read" THEN regs[r] ELSE data0
  BY <1>1, <1>2 DEF AccessRegister
<1>5. CASE ~p
  BY <1>1, <1>2, <1>3, <1>4, <1>5 DEF AccessRegister
<1>6. CASE p
  <2>1. RunProgram(Transferred(running))
    BY <1>1, <1>2, <1>6 DEF AccessRegister
  <2>2. running' = None
    BY <2>1 DEF RunProgram
  <2>. QED BY <1>3, <1>4, <1>6, <2>1, <2>2
<1>. QED BY <1>5, <1>6

LEMMA HartMoves ==
  ASSUME DmTypeOK, Hart, asked = "nothing", halted, data1 \in Mapped,
         NEW w \in BOOLEAN, NEW i \in BOOLEAN, running = MemCommand(w, i)
  PROVE  /\ UNCHANGED <<halted, asked, cmderr, regs>> /\ running' = None
         /\ data1' = IF i THEN data1 + 1 ELSE data1
         /\ w => data0' = data0 /\ writes' = Append(writes, <<data1, data0>>)
         /\ ~w => data0' = mem[data1] /\ UNCHANGED <<mem, writes>>
<1>1. /\ running.type = "mem" /\ running.write = w /\ running.inc = i
      /\ running # Unsupported /\ running # None
  BY NotNone DEF MemCommand, Unsupported
<1>2. AccessMemory
  BY <1>1 DEF Hart, HartHonours, AccessRegister, Refuse
<1>. QED BY <1>1, <1>2 DEF AccessMemory

LEMMA Programs ==
  ASSUME NEW r \in [{"s0", "s1"} -> Values], RunProgram(r)
  PROVE  /\ progbuf[0] = "lw_s0_s0" /\ r["s0"] \in Mapped =>
              regs' = [r EXCEPT !["s0"] = mem[r["s0"]]] /\ UNCHANGED <<mem, writes, cmderr>>
         /\ progbuf[0] = "sw_s1_s0" /\ r["s0"] \in Mapped =>
              regs' = r /\ writes' = Append(writes, <<r["s0"], r["s1"]>>) /\ UNCHANGED cmderr
         /\ progbuf[0] = "addi_s0_s1" =>
              regs' = [r EXCEPT !["s0"] = r["s1"]] /\ UNCHANGED <<mem, writes, cmderr>>
         /\ progbuf[0] = "addi_s1_s0" =>
              regs' = [r EXCEPT !["s1"] = r["s0"]] /\ UNCHANGED <<mem, writes, cmderr>>
BY DEF RunProgram

\* A hart at rest does nothing.
LEMMA HartRests == ASSUME Hart PROVE ~Settled
BY DEF Hart, HartHonours, AccessRegister, AccessMemory, Refuse, Settled

\* The words and addresses of a call that exist.
LEMMA ExistingAddresses ==
  ASSUME req \in Calls, Exists(req)
  PROVE  /\ req.f \in {"read_memory_abs", "read_memory_buf", "write_memory_abs",
                       "write_memory_buf"} => req.addr \in Mapped
         /\ req.f = "write_memory_bulk" =>
              \A i \in 1 .. Len(req.data) : req.addr + i - 1 \in Mapped
<1>1. ASSUME req.f \in {"write_memory_abs", "write_memory_buf"}
      PROVE  req.addr \in Mapped
  <2>1. Asked(req)[1] = <<req.addr, req.data>> /\ 1 \in 1 .. Len(Asked(req))
    BY <1>1, AskedByAbsOrBuf
  <2>. QED BY <2>1 DEF Exists
<1>2. ASSUME req.f = "write_memory_bulk", NEW i \in 1 .. Len(req.data)
      PROVE  req.addr + i - 1 \in Mapped
  <2>1. Asked(req)[i] = <<req.addr + i - 1, req.data[i]>> /\ i \in 1 .. Len(Asked(req))
    BY <1>2, AskedByBulk
  <2>. QED BY <2>1 DEF Exists
<1>. QED BY <1>1, <1>2 DEF Exists

LEMMA SameExists ==
  ASSUME session' = session, req' = req
  PROVE  Exists(req)' = Exists(req)
BY SameAsked DEF Exists

\* A register command is a transfer to s1 where the program buffer helps.
LEMMA XprReg ==
  ASSUME NEW r \in Calls, r.f \in {"read_xpr_buf", "write_xpr_buf"}
  PROVE  r.reg = "s1"
BY DEF Calls, NoArgs, RegCalls, MemCalls, BulkCalls

\* An access that is not about halting is carried out when nothing stands in
\* its way, and leaves things in order.
LEMMA InOrderAccess ==
  ASSUME active, ~Busy, cmderr = "none", NEW o, Perform(o),
         o.reg \in {"data0", "data1", "data0?", "command", "progbuf0", "progbuf1",
                    "abstractauto"}
  PROVE  Done /\ UNCHANGED <<active, halted, asked, mem, writes>>
BY DEF Perform, Control, WriteData0, WriteData1, ReadData0, WriteCommand, WriteProgbuf,
       WriteAbstractauto, WhileBusy, Autoexec, Done

-------------------------------------------------------------------------------
(* Accesses of a call that nothing stands in the way of                    *)

Plain == {"data0", "data1", "data0?", "command", "progbuf0", "progbuf1", "abstractauto"}

LEMMA WorkingAccesses ==
  ASSUME NEW r \in Calls, r.f \in Working, NEW i \in 1 .. Len(Accesses(r))
  PROVE  Accesses(r)[i].reg \in Plain
<1>1. CASE r.f = "read_register"
  <2>1. i \in 1 .. 2
    BY <1>1, ReadRegisterList
  <2>2. /\ Accesses(r)[1] = Wr("command", RegCommand("read", r.reg, FALSE))
        /\ Accesses(r)[2] = Rd("data0?")
    BY <1>1, ReadRegisterList
  <2>3. Accesses(r)[1].reg = "command" /\ Accesses(r)[2].reg = "data0?"
    BY <2>2 DEF Wr, Rd
  <2>4. i = 1 \/ i = 2
    BY <2>1
  <2>. QED BY <2>3, <2>4 DEF Plain
<1>2. CASE r.f = "write_register"
  <2>1. i \in 1 .. 2
    BY <1>2, WriteRegisterList
  <2>2. /\ Accesses(r)[1] = Wr("data0", r.data)
        /\ Accesses(r)[2] = Wr("command", RegCommand("write", r.reg, FALSE))
    BY <1>2, WriteRegisterList
  <2>3. Accesses(r)[1].reg = "data0" /\ Accesses(r)[2].reg = "command"
    BY <2>2 DEF Wr, Rd
  <2>4. i = 1 \/ i = 2
    BY <2>1
  <2>. QED BY <2>3, <2>4 DEF Plain
<1>3. CASE r.f = "read_xpr_buf"
  <2>1. i \in 1 .. 5
    BY <1>3, ReadXprList
  <2>2. /\ Accesses(r)[1] = Wr("progbuf0", "addi_s0_s1")
        /\ Accesses(r)[2] = Wr("progbuf1", "ebreak")
        /\ Accesses(r)[3] = Wr("command", RegCommand("no", "s0", TRUE))
        /\ Accesses(r)[4] = Wr("command", RegCommand("read", "s1", FALSE))
        /\ Accesses(r)[5] = Rd("data0?")
    BY <1>3, ReadXprList
  <2>3. /\ Accesses(r)[1].reg = "progbuf0" /\ Accesses(r)[2].reg = "progbuf1"
        /\ Accesses(r)[3].reg = "command" /\ Accesses(r)[4].reg = "command"
        /\ Accesses(r)[5].reg = "data0?"
    BY <2>2 DEF Wr, Rd
  <2>4. i = 1 \/ i = 2 \/ i = 3 \/ i = 4 \/ i = 5
    BY <2>1
  <2>. QED BY <2>3, <2>4 DEF Plain
<1>4. CASE r.f = "write_xpr_buf"
  <2>1. i \in 1 .. 5
    BY <1>4, WriteXprList
  <2>2. /\ Accesses(r)[1] = Wr("data0", r.data)
        /\ Accesses(r)[2] = Wr("progbuf0", "addi_s1_s0")
        /\ Accesses(r)[3] = Wr("progbuf1", "ebreak")
        /\ Accesses(r)[4] = Wr("command", RegCommand("no", "s0", TRUE))
        /\ Accesses(r)[5] = Wr("command", RegCommand("write", "s0", TRUE))
    BY <1>4, WriteXprList
  <2>3. /\ Accesses(r)[1].reg = "data0" /\ Accesses(r)[2].reg = "progbuf0"
        /\ Accesses(r)[3].reg = "progbuf1" /\ Accesses(r)[4].reg = "command"
        /\ Accesses(r)[5].reg = "command"
    BY <2>2 DEF Wr, Rd
  <2>4. i = 1 \/ i = 2 \/ i = 3 \/ i = 4 \/ i = 5
    BY <2>1
  <2>. QED BY <2>3, <2>4 DEF Plain
<1>5. CASE r.f = "read_memory_abs"
  <2>1. i \in 1 .. 3
    BY <1>5, ReadAbsList
  <2>2. /\ Accesses(r)[1] = Wr("data1", r.addr)
        /\ Accesses(r)[2] = Wr("command", MemCommand(FALSE, FALSE))
        /\ Accesses(r)[3] = Rd("data0?")
    BY <1>5, ReadAbsList
  <2>3. /\ Accesses(r)[1].reg = "data1" /\ Accesses(r)[2].reg = "command"
        /\ Accesses(r)[3].reg = "data0?"
    BY <2>2 DEF Wr, Rd
  <2>4. i = 1 \/ i = 2 \/ i = 3
    BY <2>1
  <2>. QED BY <2>3, <2>4 DEF Plain
<1>6. CASE r.f = "read_memory_buf"
  <2>1. i \in 1 .. 6
    BY <1>6, ReadBufList
  <2>2. /\ Accesses(r)[1] = Wr("progbuf0", "lw_s0_s0")
        /\ Accesses(r)[2] = Wr("progbuf1", "ebreak")
        /\ Accesses(r)[3] = Wr("data0", r.addr)
        /\ Accesses(r)[4] = Wr("command", RegCommand("write", "s0", TRUE))
        /\ Accesses(r)[5] = Wr("command", RegCommand("read", "s0", FALSE))
        /\ Accesses(r)[6] = Rd("data0?")
    BY <1>6, ReadBufList
  <2>3. /\ Accesses(r)[1].reg = "progbuf0" /\ Accesses(r)[2].reg = "progbuf1"
        /\ Accesses(r)[3].reg = "data0" /\ Accesses(r)[4].reg = "command"
        /\ Accesses(r)[5].reg = "command" /\ Accesses(r)[6].reg = "data0?"
    BY <2>2 DEF Wr, Rd
  <2>4. i = 1 \/ i = 2 \/ i = 3 \/ i = 4 \/ i = 5 \/ i = 6
    BY <2>1
  <2>. QED BY <2>3, <2>4 DEF Plain
<1>7. CASE r.f = "write_memory_abs"
  <2>1. i \in 1 .. 3
    BY <1>7, WriteAbsList
  <2>2. /\ Accesses(r)[1] = Wr("data1", r.addr)
        /\ Accesses(r)[2] = Wr("data0", r.data)
        /\ Accesses(r)[3] = Wr("command", MemCommand(TRUE, FALSE))
    BY <1>7, WriteAbsList
  <2>3. /\ Accesses(r)[1].reg = "data1" /\ Accesses(r)[2].reg = "data0"
        /\ Accesses(r)[3].reg = "command"
    BY <2>2 DEF Wr, Rd
  <2>4. i = 1 \/ i = 2 \/ i = 3
    BY <2>1
  <2>. QED BY <2>3, <2>4 DEF Plain
<1>8. CASE r.f = "write_memory_buf"
  <2>1. i \in 1 .. 6
    BY <1>8, WriteBufList
  <2>2. /\ Accesses(r)[1] = Wr("progbuf0", "sw_s1_s0")
        /\ Accesses(r)[2] = Wr("progbuf1", "ebreak")
        /\ Accesses(r)[3] = Wr("data0", r.addr)
        /\ Accesses(r)[4] = Wr("command", RegCommand("write", "s0", FALSE))
        /\ Accesses(r)[5] = Wr("data0", r.data)
        /\ Accesses(r)[6] = Wr("command", RegCommand("write", "s1", TRUE))
    BY <1>8, WriteBufList
  <2>3. /\ Accesses(r)[1].reg = "progbuf0" /\ Accesses(r)[2].reg = "progbuf1"
        /\ Accesses(r)[3].reg = "data0" /\ Accesses(r)[4].reg = "command"
        /\ Accesses(r)[5].reg = "data0" /\ Accesses(r)[6].reg = "command"
    BY <2>2 DEF Wr, Rd
  <2>4. i = 1 \/ i = 2 \/ i = 3 \/ i = 4 \/ i = 5 \/ i = 6
    BY <2>1
  <2>. QED BY <2>3, <2>4 DEF Plain
<1>9. CASE r.f = "write_memory_bulk"
  <2>. DEFINE n == Len(r.data)
  <2>1. n \in Nat /\ i \in 1 .. n + 4
    BY <1>9, BulkList
  <2>2. /\ Accesses(r)[1] = Wr("data1", r.addr)
        /\ Accesses(r)[2] = Wr("data0", r.data[1])
        /\ Accesses(r)[3] = Wr("command", MemCommand(TRUE, TRUE))
        /\ Accesses(r)[4] = Wr("abstractauto", TRUE)
        /\ Accesses(r)[n + 4] = Wr("abstractauto", FALSE)
        /\ \A j \in 5 .. n + 3 : Accesses(r)[j] = Wr("data0", r.data[j - 3])
    BY <1>9, BulkList
  <2>3. /\ Accesses(r)[1].reg = "data1" /\ Accesses(r)[2].reg = "data0"
        /\ Accesses(r)[3].reg = "command" /\ Accesses(r)[4].reg = "abstractauto"
        /\ Accesses(r)[n + 4].reg = "abstractauto"
    BY <2>2 DEF Wr
  <2>4. \A j \in 5 .. n + 3 : Accesses(r)[j].reg = "data0"
    <3>. TAKE j \in 5 .. n + 3
    <3>1. Accesses(r)[j] = Wr("data0", r.data[j - 3])
      BY <2>2
    <3>. QED BY <3>1, Fields
  <2>5. i = 1 \/ i = 2 \/ i = 3 \/ i = 4 \/ i \in 5 .. n + 3 \/ i = n + 4
    BY <2>1
  <2>. QED BY <2>3, <2>4, <2>5 DEF Plain
<1>. QED BY <1>1, <1>2, <1>3, <1>4, <1>5, <1>6, <1>7, <1>8, <1>9 DEF Working

\* Such an access is carried out, and stands where the list says.
LEMMA WatchedAccess ==
  ASSUME TypeOK, AutoInv, InOrderInv, Access, Watched'
  PROVE  /\ Watched /\ Clean /\ Reached /\ Done /\ Perform(Accesses(req)[k])
         /\ req \in Calls /\ req.f \in Working /\ session' = session /\ req' = req
         /\ k \in 1 .. Len(Accesses(req)) /\ k' = k + 1
         /\ req.f # "write_memory_bulk" => ~auto
         /\ UNCHANGED <<active, halted, asked, mem, writes>>
         /\ Accesses(req)[k].reg = "data0?" => out' = data0
<1>. DEFINE o == Accesses(req)[k]
<1>1. /\ session' = session /\ req' = req /\ cut' = cut /\ pc = "call"
      /\ k' = k + 1 /\ k \in 1 .. Len(Accesses(req)) /\ req \in Calls /\ Perform(o)
      /\ o.reg # "reset" => link = "up"
      /\ session.slow \/ ~Busy
      /\ auto => cut \/ req.f = "write_memory_bulk"
  BY AccessBasics
<1>2. req.f \in Working /\ ready' /\ Exists(req)' /\ ~session.slow
  BY <1>1 DEF Watched
<1>3. o.reg \in Plain
  BY <1>1, <1>2, WorkingAccesses
<1>4. ready /\ Exists(req) /\ link = "up"
  BY <1>1, <1>2, <1>3, SameExists DEF Access, Plain
<1>5. Watched /\ ~Busy
  BY <1>1, <1>2, <1>4 DEF Watched
<1>6. active /\ cmderr = "none" /\ ~cut
  BY <1>4, <1>5 DEF InOrderInv
<1>7. Done /\ UNCHANGED <<active, halted, asked, mem, writes>>
  BY <1>1, <1>3, <1>5, <1>6, InOrderAccess DEF Plain
<1>8. Clean /\ Reached
  BY <1>1, <1>4, <1>5, <1>6 DEF Clean, Reached
<1>9. o.reg = "data0?" => out' = data0
  BY DEF Access
<1>. QED BY <1>1, <1>2, <1>5, <1>6, <1>7, <1>8, <1>9

LEMMA RegisterAccess ==
  ASSUME TypeOK, AutoInv, InOrderInv, RegisterWork, Access
  PROVE  RegisterWork'
<1>. DEFINE o == Accesses(req)[k]
<1>1. ASSUME Watched', req.f = "read_register"
      PROVE  /\ k' = 1 => ~Busy'
             /\ k' = 2 => Busy' /\ running' = RegCommand("read", req.reg, FALSE)
             /\ k' = 3 => ~Busy' /\ out' = regs'[req.reg]
  <2>1. k \in 1 .. 2
    BY <1>1, WatchedAccess, ReadRegisterList
  <2>2. k = 1 \/ k = 2
    BY <2>1
  <2>3. CASE k = 1
    <3>1. o = Wr("command", RegCommand("read", req.reg, FALSE))
      BY <1>1, <2>3, WatchedAccess, ReadRegisterList
    <3>2. running' = RegCommand("read", req.reg, FALSE)
      BY <1>1, <3>1, WatchedAccess, CommandDone
    <3>3. req.reg \in {"s0", "s1"}
      BY <1>1, WatchedAccess, Arguments
    <3>4. Busy'
      BY <3>2, <3>3, NotNone DEF Busy
    <3>. QED BY <1>1, <2>3, <3>2, <3>4, WatchedAccess
  <2>4. CASE k = 2
    <3>1. o = Rd("data0?")
      BY <1>1, <2>4, WatchedAccess, ReadRegisterList
    <3>2. /\ ~Busy /\ regs' = regs /\ running' = IF auto THEN command ELSE running
      BY <1>1, <3>1, WatchedAccess, Data0Read DEF Reached
    <3>3. o.reg = "data0?"
      BY <3>1, Fields
    <3>4. out' = data0 /\ ~auto /\ k' = 3
      BY <1>1, <2>4, <3>3, WatchedAccess
    <3>5. data0 = regs[req.reg]
      BY <1>1, <2>4, <3>2, WatchedAccess DEF RegisterWork
    <3>. QED BY <3>2, <3>4, <3>5 DEF Busy
  <2>. QED BY <2>2, <2>3, <2>4
<1>2. ASSUME Watched', req.f = "write_register"
      PROVE  /\ k' \in {1, 2} => ~Busy'
             /\ k' \in {2, 3} /\ (k' = 3 => Busy') => data0' = req.data
             /\ k' = 3 => Busy' /\ running' = RegCommand("write", req.reg, FALSE)
  <2>1. k \in 1 .. 2
    BY <1>2, WatchedAccess, WriteRegisterList
  <2>2. k = 1 \/ k = 2
    BY <2>1
  <2>3. CASE k = 1
    <3>1. o = Wr("data0", req.data)
      BY <1>2, <2>3, WatchedAccess, WriteRegisterList
    <3>2. /\ ~Busy /\ data0' = req.data /\ running' = IF auto THEN command ELSE running
      BY <1>2, <3>1, WatchedAccess, Data0Done DEF Reached
    <3>3. ~auto /\ k' = 2
      BY <1>2, <2>3, WatchedAccess
    <3>. QED BY <3>2, <3>3 DEF Busy
  <2>4. CASE k = 2
    <3>1. o = Wr("command", RegCommand("write", req.reg, FALSE))
      BY <1>2, <2>4, WatchedAccess, WriteRegisterList
    <3>2. running' = RegCommand("write", req.reg, FALSE) /\ data0' = data0
      BY <1>2, <3>1, WatchedAccess, CommandDone
    <3>3. req.reg \in {"s0", "s1"}
      BY <1>2, WatchedAccess, Arguments
    <3>4. Busy' /\ k' = 3
      <4>1. k' = 3
        BY <1>2, <2>4, WatchedAccess
      <4>. QED BY <3>2, <3>3, <4>1, NotNone DEF Busy
    <3>5. data0 = req.data
      BY <1>2, <2>4, WatchedAccess DEF RegisterWork
    <3>. QED BY <3>2, <3>4, <3>5
  <2>. QED BY <2>2, <2>3, <2>4
<1>3. Watched' => req' = req
  BY WatchedAccess
<1>. QED BY <1>1, <1>2, <1>3 DEF RegisterWork

LEMMA XprAccess ==
  ASSUME TypeOK, AutoInv, InOrderInv, XprWork, Access
  PROVE  XprWork'
<1>. DEFINE o == Accesses(req)[k]
<1>1. ASSUME Watched', req.f = "read_xpr_buf"
      PROVE  /\ k' \in {1, 2, 3} => ~Busy'
             /\ k' = 4 /\ Busy' => running' = RegCommand("no", "s0", TRUE)
             /\ k' = 5 => Busy' /\ running' = RegCommand("read", "s1", FALSE)
             /\ k' = 6 => ~Busy' /\ out' = regs'["s1"]
  <2>1. k \in 1 .. 5
    BY <1>1, WatchedAccess, ReadXprList
  <2>2. k = 1 \/ k = 2 \/ k = 3 \/ k = 4 \/ k = 5
    BY <2>1
  <2>3. k' = k + 1 /\ Perform(o) /\ Done /\ Watched /\ ~Busy /\ ~auto
    BY <1>1, WatchedAccess DEF Reached
  <2>4. CASE k = 1
    <3>1. o = Wr("progbuf0", "addi_s0_s1")
      BY <1>1, <2>4, WatchedAccess, ReadXprList
    <3>2. running' = running
      BY <2>3, <3>1, ProgbufDone
    <3>. QED BY <2>3, <2>4, <3>2 DEF Busy
  <2>5. CASE k = 2
    <3>1. o = Wr("progbuf1", "ebreak")
      BY <1>1, <2>5, WatchedAccess, ReadXprList
    <3>2. running' = running
      BY <2>3, <3>1, ProgbufDone
    <3>. QED BY <2>3, <2>5, <3>2 DEF Busy
  <2>6. CASE k = 3
    <3>1. o = Wr("command", RegCommand("no", "s0", TRUE))
      BY <1>1, <2>6, WatchedAccess, ReadXprList
    <3>2. running' = RegCommand("no", "s0", TRUE)
      BY <2>3, <3>1, CommandDone
    <3>. QED BY <2>3, <2>6, <3>2
  <2>7. CASE k = 4
    <3>1. o = Wr("command", RegCommand("read", "s1", FALSE))
      BY <1>1, <2>7, WatchedAccess, ReadXprList
    <3>2. running' = RegCommand("read", "s1", FALSE)
      BY <2>3, <3>1, CommandDone
    <3>3. Busy'
      BY <3>2, NotNone DEF Busy
    <3>. QED BY <2>3, <2>7, <3>2, <3>3
  <2>8. CASE k = 5
    <3>1. o = Rd("data0?")
      BY <1>1, <2>8, WatchedAccess, ReadXprList
    <3>2. regs' = regs /\ running' = running
      BY <2>3, <3>1, Data0Read
    <3>3. out' = data0
      BY <1>1, <3>1, WatchedAccess, Fields
    <3>4. data0 = regs["s1"]
      BY <1>1, <2>3, <2>8 DEF XprWork
    <3>. QED BY <2>3, <2>8, <3>2, <3>3, <3>4 DEF Busy
  <2>. QED BY <2>2, <2>4, <2>5, <2>6, <2>7, <2>8
<1>2. ASSUME Watched', req.f = "write_xpr_buf"
      PROVE  /\ k' \in {1, 2, 3, 4} => ~Busy'
             /\ k' > 1 => data0' = req.data
             /\ k' = 5 /\ Busy' => running' = RegCommand("no", "s0", TRUE)
             /\ k' = 6 => Busy' /\ running' = RegCommand("write", "s0", TRUE)
  <2>1. k \in 1 .. 5
    BY <1>2, WatchedAccess, WriteXprList
  <2>2. k = 1 \/ k = 2 \/ k = 3 \/ k = 4 \/ k = 5
    BY <2>1
  <2>3. k' = k + 1 /\ Perform(o) /\ Done /\ Watched /\ ~Busy /\ ~auto
    BY <1>2, WatchedAccess DEF Reached
  <2>4. k > 1 => data0 = req.data
    BY <1>2, <2>3 DEF XprWork
  <2>5. CASE k = 1
    <3>1. o = Wr("data0", req.data)
      BY <1>2, <2>5, WatchedAccess, WriteXprList
    <3>2. running' = running /\ data0' = req.data
      BY <2>3, <3>1, Data0Done
    <3>. QED BY <2>3, <2>5, <3>2 DEF Busy
  <2>6. CASE k = 2
    <3>1. o = Wr("progbuf0", "addi_s1_s0")
      BY <1>2, <2>6, WatchedAccess, WriteXprList
    <3>2. running' = running /\ data0' = data0
      BY <2>3, <3>1, ProgbufDone
    <3>. QED BY <2>3, <2>4, <2>6, <3>2 DEF Busy
  <2>7. CASE k = 3
    <3>1. o = Wr("progbuf1", "ebreak")
      BY <1>2, <2>7, WatchedAccess, WriteXprList
    <3>2. running' = running /\ data0' = data0
      BY <2>3, <3>1, ProgbufDone
    <3>. QED BY <2>3, <2>4, <2>7, <3>2 DEF Busy
  <2>8. CASE k = 4
    <3>1. o = Wr("command", RegCommand("no", "s0", TRUE))
      BY <1>2, <2>8, WatchedAccess, WriteXprList
    <3>2. running' = RegCommand("no", "s0", TRUE) /\ data0' = data0
      BY <2>3, <3>1, CommandDone
    <3>. QED BY <2>3, <2>4, <2>8, <3>2
  <2>9. CASE k = 5
    <3>1. o = Wr("command", RegCommand("write", "s0", TRUE))
      BY <1>2, <2>9, WatchedAccess, WriteXprList
    <3>2. running' = RegCommand("write", "s0", TRUE) /\ data0' = data0
      BY <2>3, <3>1, CommandDone
    <3>3. Busy'
      BY <3>2, NotNone DEF Busy
    <3>. QED BY <2>3, <2>4, <2>9, <3>2, <3>3
  <2>. QED BY <2>2, <2>5, <2>6, <2>7, <2>8, <2>9
<1>3. Watched' => req' = req
  BY WatchedAccess
<1>. QED BY <1>1, <1>2, <1>3 DEF XprWork

LEMMA ReadAccess ==
  ASSUME TypeOK, AutoInv, InOrderInv, ReadWork, Access
  PROVE  ReadWork'
<1>. DEFINE o == Accesses(req)[k]
<1>1. ASSUME Watched', req.f = "read_memory_abs"
      PROVE  /\ k' \in {1, 2} => ~Busy'
             /\ k' \in {2, 3} => data1' = req.addr
             /\ k' = 3 => Busy' /\ running' = MemCommand(FALSE, FALSE)
             /\ k' = 4 => ~Busy' /\ out' = mem'[req.addr]
  <2>1. k \in 1 .. 3
    BY <1>1, WatchedAccess, ReadAbsList
  <2>2. k = 1 \/ k = 2 \/ k = 3
    BY <2>1
  <2>3. k' = k + 1 /\ Perform(o) /\ Done /\ Watched /\ ~Busy /\ ~auto /\ mem' = mem
    BY <1>1, WatchedAccess DEF Reached
  <2>4. CASE k = 1
    <3>1. o = Wr("data1", req.addr)
      BY <1>1, <2>4, WatchedAccess, ReadAbsList
    <3>2. running' = running /\ data1' = req.addr
      BY <2>3, <3>1, Data1Done
    <3>. QED BY <2>3, <2>4, <3>2 DEF Busy
  <2>5. CASE k = 2
    <3>1. o = Wr("command", MemCommand(FALSE, FALSE))
      BY <1>1, <2>5, WatchedAccess, ReadAbsList
    <3>2. running' = MemCommand(FALSE, FALSE) /\ data1' = data1
      BY <2>3, <3>1, CommandDone
    <3>3. Busy'
      BY <3>2, NotNone DEF Busy
    <3>4. data1 = req.addr
      BY <1>1, <2>3, <2>5 DEF ReadWork
    <3>. QED BY <2>3, <2>5, <3>2, <3>3, <3>4
  <2>6. CASE k = 3
    <3>1. o = Rd("data0?")
      BY <1>1, <2>6, WatchedAccess, ReadAbsList
    <3>2. running' = running
      BY <2>3, <3>1, Data0Read
    <3>3. out' = data0
      BY <1>1, <3>1, WatchedAccess, Fields
    <3>4. data0 = mem[req.addr]
      BY <1>1, <2>3, <2>6 DEF ReadWork
    <3>. QED BY <2>3, <2>6, <3>2, <3>3, <3>4 DEF Busy
  <2>. QED BY <2>2, <2>4, <2>5, <2>6
<1>2. ASSUME Watched', req.f = "read_memory_buf"
      PROVE  /\ k' \in {1, 2, 3, 4} => ~Busy'
             /\ k' = 4 => data0' = req.addr
             /\ k' = 5 => /\ Busy' /\ running' = RegCommand("write", "s0", TRUE)
                          /\ data0' = req.addr
             /\ k' = 6 => /\ Busy' /\ running' = RegCommand("read", "s0", FALSE)
                          /\ regs'["s0"] = mem'[req.addr]
             /\ k' = 7 => ~Busy' /\ out' = mem'[req.addr]
  <2>1. k \in 1 .. 6
    BY <1>2, WatchedAccess, ReadBufList
  <2>2. k = 1 \/ k = 2 \/ k = 3 \/ k = 4 \/ k = 5 \/ k = 6
    BY <2>1
  <2>3. k' = k + 1 /\ Perform(o) /\ Done /\ Watched /\ ~Busy /\ ~auto /\ mem' = mem
    BY <1>2, WatchedAccess DEF Reached
  <2>4. CASE k = 1
    <3>1. o = Wr("progbuf0", "lw_s0_s0")
      BY <1>2, <2>4, WatchedAccess, ReadBufList
    <3>2. running' = running
      BY <2>3, <3>1, ProgbufDone
    <3>. QED BY <2>3, <2>4, <3>2 DEF Busy
  <2>5. CASE k = 2
    <3>1. o = Wr("progbuf1", "ebreak")
      BY <1>2, <2>5, WatchedAccess, ReadBufList
    <3>2. running' = running
      BY <2>3, <3>1, ProgbufDone
    <3>. QED BY <2>3, <2>5, <3>2 DEF Busy
  <2>6. CASE k = 3
    <3>1. o = Wr("data0", req.addr)
      BY <1>2, <2>6, WatchedAccess, ReadBufList
    <3>2. running' = running /\ data0' = req.addr
      BY <2>3, <3>1, Data0Done
    <3>. QED BY <2>3, <2>6, <3>2 DEF Busy
  <2>7. CASE k = 4
    <3>1. o = Wr("command", RegCommand("write", "s0", TRUE))
      BY <1>2, <2>7, WatchedAccess, ReadBufList
    <3>2. running' = RegCommand("write", "s0", TRUE) /\ data0' = data0
      BY <2>3, <3>1, CommandDone
    <3>3. Busy'
      BY <3>2, NotNone DEF Busy
    <3>4. data0 = req.addr
      BY <1>2, <2>3, <2>7 DEF ReadWork
    <3>. QED BY <2>3, <2>7, <3>2, <3>3, <3>4
  <2>8. CASE k = 5
    <3>1. o = Wr("command", RegCommand("read", "s0", FALSE))
      BY <1>2, <2>8, WatchedAccess, ReadBufList
    <3>2. running' = RegCommand("read", "s0", FALSE) /\ regs' = regs
      BY <2>3, <3>1, CommandDone
    <3>3. Busy'
      BY <3>2, NotNone DEF Busy
    <3>4. regs["s0"] = mem[req.addr]
      BY <1>2, <2>3, <2>8 DEF ReadWork
    <3>. QED BY <2>3, <2>8, <3>2, <3>3, <3>4
  <2>9. CASE k = 6
    <3>1. o = Rd("data0?")
      BY <1>2, <2>9, WatchedAccess, ReadBufList
    <3>2. running' = running
      BY <2>3, <3>1, Data0Read
    <3>3. out' = data0
      BY <1>2, <3>1, WatchedAccess, Fields
    <3>4. data0 = mem[req.addr]
      BY <1>2, <2>3, <2>9 DEF ReadWork
    <3>. QED BY <2>3, <2>9, <3>2, <3>3, <3>4 DEF Busy
  <2>. QED BY <2>2, <2>4, <2>5, <2>6, <2>7, <2>8, <2>9
<1>3. Watched' => req' = req
  BY WatchedAccess
<1>. QED BY <1>1, <1>2, <1>3 DEF ReadWork

LEMMA WriteAccess ==
  ASSUME TypeOK, AutoInv, Course, InOrderInv, WriteWork, Access
  PROVE  WriteWork'
<1>. DEFINE o == Accesses(req)[k]
<1>1. ASSUME Watched', req.f = "write_memory_abs"
      PROVE  /\ k' \in {1, 2, 3} => ~Busy'
             /\ k' = 4 => /\ Busy' /\ running' = MemCommand(TRUE, FALSE)
                          /\ data1' = req.addr
  <2>1. k \in 1 .. 3
    BY <1>1, WatchedAccess, WriteAbsList
  <2>2. k = 1 \/ k = 2 \/ k = 3
    BY <2>1
  <2>3. k' = k + 1 /\ Perform(o) /\ Done /\ Clean /\ ~Busy /\ ~auto
    BY <1>1, WatchedAccess DEF Reached
  <2>4. CASE k = 1
    <3>1. o = Wr("data1", req.addr)
      BY <1>1, <2>4, WatchedAccess, WriteAbsList
    <3>2. running' = running
      BY <2>3, <3>1, Data1Done
    <3>. QED BY <2>3, <2>4, <3>2 DEF Busy
  <2>5. CASE k = 2
    <3>1. o = Wr("data0", req.data)
      BY <1>1, <2>5, WatchedAccess, WriteAbsList
    <3>2. running' = running
      BY <2>3, <3>1, Data0Done
    <3>. QED BY <2>3, <2>5, <3>2 DEF Busy
  <2>6. CASE k = 3
    <3>1. o = Wr("command", MemCommand(TRUE, FALSE))
      BY <1>1, <2>6, WatchedAccess, WriteAbsList
    <3>2. running' = MemCommand(TRUE, FALSE) /\ data1' = data1
      BY <2>3, <3>1, CommandDone
    <3>3. Busy'
      BY <3>2, NotNone DEF Busy
    <3>4. data1 = req.addr
      BY <1>1, <2>3, <2>6 DEF Course, WriteAbsCourse
    <3>. QED BY <2>3, <2>6, <3>2, <3>3, <3>4
  <2>. QED BY <2>2, <2>4, <2>5, <2>6
<1>2. ASSUME Watched', req.f = "write_memory_buf"
      PROVE  /\ k' \in {1, 2, 3, 4, 6} => ~Busy'
             /\ k' = 7 => /\ Busy' /\ running' = RegCommand("write", "s1", TRUE)
                          /\ regs'["s0"] = req.addr
  <2>1. k \in 1 .. 6
    BY <1>2, WatchedAccess, WriteBufList
  <2>2. k = 1 \/ k = 2 \/ k = 3 \/ k = 4 \/ k = 5 \/ k = 6
    BY <2>1
  <2>3. k' = k + 1 /\ Perform(o) /\ Done /\ Clean /\ ~Busy /\ ~auto
    BY <1>2, WatchedAccess DEF Reached
  <2>4. CASE k = 1
    <3>1. o = Wr("progbuf0", "sw_s1_s0")
      BY <1>2, <2>4, WatchedAccess, WriteBufList
    <3>2. running' = running
      BY <2>3, <3>1, ProgbufDone
    <3>. QED BY <2>3, <2>4, <3>2 DEF Busy
  <2>5. CASE k = 2
    <3>1. o = Wr("progbuf1", "ebreak")
      BY <1>2, <2>5, WatchedAccess, WriteBufList
    <3>2. running' = running
      BY <2>3, <3>1, ProgbufDone
    <3>. QED BY <2>3, <2>5, <3>2 DEF Busy
  <2>6. CASE k = 3
    <3>1. o = Wr("data0", req.addr)
      BY <1>2, <2>6, WatchedAccess, WriteBufList
    <3>2. running' = running
      BY <2>3, <3>1, Data0Done
    <3>. QED BY <2>3, <2>6, <3>2 DEF Busy
  <2>7. CASE k = 4
    BY <2>3, <2>7
  <2>8. CASE k = 5
    <3>1. o = Wr("data0", req.data)
      BY <1>2, <2>8, WatchedAccess, WriteBufList
    <3>2. running' = running
      BY <2>3, <3>1, Data0Done
    <3>. QED BY <2>3, <2>8, <3>2 DEF Busy
  <2>9. CASE k = 6
    <3>1. o = Wr("command", RegCommand("write", "s1", TRUE))
      BY <1>2, <2>9, WatchedAccess, WriteBufList
    <3>2. running' = RegCommand("write", "s1", TRUE) /\ regs' = regs
      BY <2>3, <3>1, CommandDone
    <3>3. Busy'
      BY <3>2, NotNone DEF Busy
    <3>4. regs["s0"] = req.addr
      BY <1>2, <2>3, <2>9 DEF Course, WriteBufCourse
    <3>. QED BY <2>3, <2>9, <3>2, <3>3, <3>4
  <2>. QED BY <2>2, <2>4, <2>5, <2>6, <2>7, <2>8, <2>9
<1>3. ASSUME Watched', req.f = "write_memory_bulk"
      PROVE  /\ k' \in {1, 2, 3} => ~Busy'
             /\ k' = Len(req.data) + 5 => ~Busy' /\ Len(writes') = Len(req.data)
  <2>. DEFINE n == Len(req.data)
  <2>1. n \in Nat \ {0} /\ k \in 1 .. n + 4 /\ req \in Calls
    BY <1>3, WatchedAccess, BulkList
  <2>2. /\ k' = k + 1 /\ Perform(o) /\ Done /\ Clean /\ ~Busy /\ pc = "call"
        /\ writes' = writes
    BY <1>3, WatchedAccess DEF Reached, Clean
  <2>3. CASE k = 1
    <3>1. o = Wr("data1", req.addr)
      BY <1>3, <2>1, <2>3, BulkList
    <3>2. running' = running
      BY <2>2, <3>1, Data1Done
    <3>. QED BY <2>1, <2>2, <2>3, <3>2 DEF Busy
  <2>4. CASE k = 2
    <3>1. o = Wr("data0", req.data[1])
      BY <1>3, <2>1, <2>4, BulkList
    <3>2. ~auto
      BY <2>2, <2>4 DEF AutoInv, Clean
    <3>3. running' = running
      BY <2>2, <3>1, <3>2, Data0Done
    <3>. QED BY <2>1, <2>2, <2>4, <3>3 DEF Busy
  <2>5. CASE k \in 3 .. n + 3
    BY <2>1, <2>2, <2>5
  <2>6. CASE k = n + 4
    <3>1. o = Wr("abstractauto", FALSE)
      BY <1>3, <2>1, <2>6, BulkList
    <3>2. running' = running
      BY <2>2, <3>1, AbstractautoDone
    <3>3. Len(writes) = n
      <4>1. Begun = n /\ k \in 4 .. n + 4
        BY <2>1, <2>6 DEF Begun
      <4>. QED BY <1>3, <2>2, <4>1 DEF Course, BulkCourse
    <3>. QED BY <2>1, <2>2, <2>6, <3>2, <3>3 DEF Busy
  <2>7. k = 1 \/ k = 2 \/ k \in 3 .. n + 3 \/ k = n + 4
    BY <2>1
  <2>. QED BY <2>3, <2>4, <2>5, <2>6, <2>7
<1>4. Watched' => req' = req
  BY WatchedAccess
<1>. QED BY <1>1, <1>2, <1>3, <1>4 DEF WriteWork

-------------------------------------------------------------------------------
(* The hart, at the command of such a call                                 *)

LEMMA WatchedSame ==
  ASSUME TypeOK, Hart
  PROVE  Watched' = Watched /\ UNCHANGED <<session, pc, req, k, out, active, ready, cut>>
<1>1. UNCHANGED <<session, pc, req, k, out, active, ready, cut, link>>
  BY DEF Hart
<1>2. Exists(req)' = Exists(req)
  BY <1>1, SameExists
<1>. QED BY <1>1, <1>2 DEF Watched

LEMMA WatchedHart ==
  ASSUME TypeOK, InOrderInv, Hart, Watched
  PROVE  /\ Busy /\ Clean /\ halted /\ asked = "nothing" /\ cmderr = "none" /\ DmTypeOK
         /\ req \in Calls /\ Exists(req) /\ ~session.slow /\ ~cut
         /\ UNCHANGED <<session, pc, req, k, out>>
<1>1. active /\ halted /\ asked = "nothing" /\ cmderr = "none" /\ ~cut
  BY DEF InOrderInv, Watched
<1>2. Busy
  BY <1>1, HartRests DEF Settled
<1>. QED BY <1>1, <1>2, WatchedSame DEF Clean, Watched, TypeOK

\* The hart leaves halting and cmderr alone.
Smooth == UNCHANGED <<halted, asked, cmderr>>

LEMMA RegisterHart ==
  ASSUME TypeOK, InOrderInv, RegisterWork, Hart, Watched,
         req.f \in {"read_register", "write_register"}
  PROVE  Smooth /\ RegisterWork'
<1>1. req.reg \in {"s0", "s1"}
  BY WatchedHart, Arguments
<1>2. CASE req.f = "read_register"
  <2>1. Len(Accesses(req)) = 2
    BY <1>2, WatchedHart, ReadRegisterList
  <2>2. k = 1 \/ k = 2 \/ k = 3
    BY <2>1 DEF TypeOK
  <2>3. k = 2 /\ running = RegCommand("read", req.reg, FALSE)
    BY <1>2, <2>2, WatchedHart DEF RegisterWork
  <2>4. running' = None /\ data0' = regs[req.reg] /\ regs' = regs /\ Smooth
    BY <1>1, <2>3, WatchedHart, HartTransfers DEF Smooth
  <2>. QED BY <1>2, <2>3, <2>4, WatchedHart DEF RegisterWork, Busy
<1>3. CASE req.f = "write_register"
  <2>1. Len(Accesses(req)) = 2
    BY <1>3, WatchedHart, WriteRegisterList
  <2>2. k = 1 \/ k = 2 \/ k = 3
    BY <2>1 DEF TypeOK
  <2>3. k = 3 /\ running = RegCommand("write", req.reg, FALSE) /\ data0 = req.data
    BY <1>3, <2>2, WatchedHart DEF RegisterWork
  <2>4. running' = None /\ regs' = [regs EXCEPT ![req.reg] = data0] /\ Smooth
    BY <1>1, <2>3, WatchedHart, HartTransfers DEF Smooth
  <2>5. regs'[req.reg] = req.data
    BY <1>1, <2>3, <2>4, WatchedHart DEF DmTypeOK
  <2>. QED BY <1>3, <2>3, <2>4, <2>5, WatchedHart DEF RegisterWork, Busy
<1>. QED BY <1>2, <1>3

LEMMA XprHart ==
  ASSUME TypeOK, InOrderInv, Course, XprWork, Hart, Watched,
         req.f \in {"read_xpr_buf", "write_xpr_buf"}
  PROVE  Smooth /\ XprWork'
<1>1. /\ req.reg = "s1" /\ regs \in [{"s0", "s1"} -> Values]
      /\ \A v \in Values : [regs EXCEPT !["s0"] = v] \in [{"s0", "s1"} -> Values]
      /\ data0 \in Values
  BY WatchedHart, XprReg DEF DmTypeOK
<1>2. CASE req.f = "read_xpr_buf"
  <2>1. Len(Accesses(req)) = 5
    BY <1>2, WatchedHart, ReadXprList
  <2>2. k = 1 \/ k = 2 \/ k = 3 \/ k = 4 \/ k = 5 \/ k = 6
    BY <2>1 DEF TypeOK
  <2>3. /\ k = 4 \/ k = 5
        /\ k = 4 => running = RegCommand("no", "s0", TRUE)
        /\ k = 5 => running = RegCommand("read", "s1", FALSE)
    BY <1>2, <2>2, WatchedHart DEF XprWork
  <2>4. CASE k = 4
    <3>1. progbuf[0] = "addi_s0_s1"
      BY <1>2, <2>4, WatchedHart DEF Course, OtherProgram
    <3>2. running' = None /\ UNCHANGED <<halted, asked>> /\ RunProgram(regs)
      BY <2>3, <2>4, WatchedHart, HartTransfers
    <3>3. cmderr' = cmderr
      BY <1>1, <3>1, <3>2, Programs
    <3>. QED BY <1>2, <2>4, <3>2, <3>3, WatchedHart DEF XprWork, Busy, Smooth
  <2>5. CASE k = 5
    <3>1. running' = None /\ data0' = regs["s1"] /\ regs' = regs /\ Smooth
      BY <2>3, <2>5, WatchedHart, HartTransfers DEF Smooth
    <3>. QED BY <1>2, <2>5, <3>1, WatchedHart DEF XprWork, Busy
  <2>. QED BY <2>3, <2>4, <2>5
<1>3. CASE req.f = "write_xpr_buf"
  <2>1. Len(Accesses(req)) = 5
    BY <1>3, WatchedHart, WriteXprList
  <2>2. k = 1 \/ k = 2 \/ k = 3 \/ k = 4 \/ k = 5 \/ k = 6
    BY <2>1 DEF TypeOK
  <2>3. /\ k = 5 \/ k = 6
        /\ k = 5 => running = RegCommand("no", "s0", TRUE)
        /\ k = 6 => running = RegCommand("write", "s0", TRUE)
        /\ data0 = req.data
    <3>1. /\ k \in {1, 2, 3, 4} => ~Busy
          /\ k > 1 => data0 = req.data
          /\ k = 5 /\ Busy => running = RegCommand("no", "s0", TRUE)
          /\ k = 6 /\ Busy => running = RegCommand("write", "s0", TRUE)
      BY <1>3 DEF XprWork
    <3>2. k = 5 \/ k = 6
      BY <2>2, <3>1, WatchedHart
    <3>3. k > 1
      BY <3>2
    <3>4. Busy
      BY WatchedHart
    <3>. QED BY <3>1, <3>2, <3>3, <3>4
  <2>4. progbuf[0] = "addi_s1_s0"
    BY <1>3, <2>3, WatchedHart DEF Course, OtherProgram
  <2>5. CASE k = 5
    <3>1. /\ running' = None /\ data0' = data0 /\ UNCHANGED <<halted, asked>>
          /\ RunProgram(regs)
      BY <2>3, <2>5, WatchedHart, HartTransfers
    <3>2. cmderr' = cmderr
      BY <1>1, <2>4, <3>1, Programs
    <3>. QED BY <1>3, <2>3, <2>5, <3>1, <3>2, WatchedHart DEF XprWork, Busy, Smooth
  <2>6. CASE k = 6
    <3>. DEFINE r == [regs EXCEPT !["s0"] = data0]
    <3>1. /\ running' = None /\ data0' = data0 /\ UNCHANGED <<halted, asked>>
          /\ RunProgram(r)
      BY <2>3, <2>6, WatchedHart, HartTransfers
    <3>2. r \in [{"s0", "s1"} -> Values] /\ r["s0"] = data0
      BY <1>1
    <3>. HIDE DEF r
    <3>3. cmderr' = cmderr /\ regs' = [r EXCEPT !["s1"] = r["s0"]]
      BY <2>4, <3>1, <3>2, Programs
    <3>4. regs'["s1"] = req.data
      BY <2>3, <3>2, <3>3
    <3>. QED BY <1>3, <2>3, <2>6, <3>1, <3>3, <3>4, WatchedHart DEF XprWork, Busy, Smooth
  <2>. QED BY <2>3, <2>5, <2>6
<1>. QED BY <1>2, <1>3

LEMMA ReadHart ==
  ASSUME TypeOK, InOrderInv, Course, ReadWork, Hart, Watched,
         req.f \in {"read_memory_abs", "read_memory_buf"}
  PROVE  Smooth /\ ReadWork'
<1>1. req.addr \in Mapped
  BY WatchedHart, ExistingAddresses
<1>2. CASE req.f = "read_memory_abs"
  <2>1. Len(Accesses(req)) = 3
    BY <1>2, WatchedHart, ReadAbsList
  <2>2. k = 1 \/ k = 2 \/ k = 3 \/ k = 4
    BY <2>1 DEF TypeOK
  <2>3. k = 3 /\ running = MemCommand(FALSE, FALSE) /\ data1 = req.addr
    BY <1>2, <2>2, WatchedHart DEF ReadWork
  <2>4. /\ running' = None /\ data0' = mem[req.addr] /\ mem' = mem /\ Smooth
        /\ data1' = req.addr
    BY <1>1, <2>3, WatchedHart, HartMoves DEF Smooth
  <2>. QED BY <1>2, <2>3, <2>4, WatchedHart DEF ReadWork, Busy
<1>3. CASE req.f = "read_memory_buf"
  <2>1. Len(Accesses(req)) = 6
    BY <1>3, WatchedHart, ReadBufList
  <2>2. k = 1 \/ k = 2 \/ k = 3 \/ k = 4 \/ k = 5 \/ k = 6 \/ k = 7
    BY <2>1 DEF TypeOK
  <2>3. /\ k = 5 \/ k = 6
        /\ k = 5 => running = RegCommand("write", "s0", TRUE) /\ data0 = req.addr
        /\ k = 6 => /\ running = RegCommand("read", "s0", FALSE)
                    /\ regs["s0"] = mem[req.addr]
    BY <1>3, <2>2, WatchedHart DEF ReadWork
  <2>4. CASE k = 5
    <3>. DEFINE r == [regs EXCEPT !["s0"] = data0]
    <3>1. running' = None /\ UNCHANGED <<halted, asked>> /\ RunProgram(r)
      BY <2>3, <2>4, WatchedHart, HartTransfers
    <3>2. r \in [{"s0", "s1"} -> Values] /\ r["s0"] = req.addr
      BY <2>3, <2>4, WatchedHart DEF DmTypeOK
    <3>. HIDE DEF r
    <3>3. progbuf[0] = "lw_s0_s0"
      BY <1>3, <2>4, WatchedHart DEF Course, OtherProgram
    <3>4. cmderr' = cmderr /\ mem' = mem /\ regs' = [r EXCEPT !["s0"] = mem[r["s0"]]]
      BY <1>1, <3>1, <3>2, <3>3, Programs
    <3>5. regs'["s0"] = mem'[req.addr]
      BY <3>2, <3>4
    <3>. QED BY <1>3, <2>4, <3>1, <3>4, <3>5, WatchedHart DEF ReadWork, Busy, Smooth
  <2>5. CASE k = 6
    <3>1. running' = None /\ data0' = regs["s0"] /\ mem' = mem /\ Smooth
      BY <2>3, <2>5, WatchedHart, HartTransfers DEF Smooth
    <3>. QED BY <1>3, <2>3, <2>5, <3>1, WatchedHart DEF ReadWork, Busy
  <2>. QED BY <2>3, <2>4, <2>5
<1>. QED BY <1>2, <1>3

LEMMA WriteHart ==
  ASSUME TypeOK, InOrderInv, writes \in Seq(Values \X Values), Course, NextOfCall,
         WriteWork, Hart, Watched,
         req.f \in {"write_memory_abs", "write_memory_buf", "write_memory_bulk"}
  PROVE  Smooth /\ WriteWork'
<1>1. CASE req.f = "write_memory_abs"
  <2>1. Len(Accesses(req)) = 3
    BY <1>1, WatchedHart, WriteAbsList
  <2>2. k = 1 \/ k = 2 \/ k = 3 \/ k = 4
    BY <2>1 DEF TypeOK
  <2>3. k = 4 /\ running = MemCommand(TRUE, FALSE) /\ data1 = req.addr
    BY <1>1, <2>2, WatchedHart DEF WriteWork
  <2>4. data1 \in Mapped
    BY <1>1, <2>3, WatchedHart, ExistingAddresses
  <2>5. running' = None /\ writes' = Append(writes, <<data1, data0>>) /\ Smooth
    BY <2>3, <2>4, WatchedHart, HartMoves DEF Smooth
  <2>6. Writing
    BY <2>3, WatchedHart DEF Writing, MemCommand
  <2>7. Len(writes) < 1
    BY <1>1, <2>6, WatchedHart, AskedByAbsOrBuf DEF NextOfCall
  <2>8. Len(writes') = 1
    BY <2>5, <2>7
  <2>. QED BY <1>1, <2>3, <2>5, <2>8, WatchedHart DEF WriteWork, Busy
<1>2. CASE req.f = "write_memory_buf"
  <2>1. Len(Accesses(req)) = 6
    BY <1>2, WatchedHart, WriteBufList
  <2>2. k = 1 \/ k = 2 \/ k = 3 \/ k = 4 \/ k = 5 \/ k = 6 \/ k = 7
    BY <2>1 DEF TypeOK
  <2>3. /\ k = 5 \/ k = 7
        /\ k = 7 => running = RegCommand("write", "s1", TRUE) /\ regs["s0"] = req.addr
    BY <1>2, <2>2, WatchedHart DEF WriteWork
  <2>4. CASE k = 5
    <3>1. running = RegCommand("write", "s0", FALSE)
      BY <1>2, <2>4, WatchedHart DEF Course, WriteBufCourse
    <3>2. running' = None /\ Smooth
      BY <3>1, WatchedHart, HartTransfers DEF Smooth
    <3>. QED BY <1>2, <2>4, <3>2, WatchedHart DEF WriteWork, Busy
  <2>5. CASE k = 7
    <3>. DEFINE r == [regs EXCEPT !["s1"] = data0]
    <3>1. running' = None /\ UNCHANGED <<halted, asked>> /\ RunProgram(r)
      BY <2>3, <2>5, WatchedHart, HartTransfers
    <3>2. r \in [{"s0", "s1"} -> Values] /\ r["s0"] = req.addr
      BY <2>3, <2>5, WatchedHart DEF DmTypeOK
    <3>. HIDE DEF r
    <3>3. progbuf[0] = "sw_s1_s0" /\ req.addr \in Mapped
      <4>1. progbuf[0] = "sw_s1_s0"
        BY <1>2, <2>5, WatchedHart DEF Course, WriteBufCourse
      <4>. QED BY <1>2, <4>1, WatchedHart, ExistingAddresses
    <3>4. cmderr' = cmderr /\ writes' = Append(writes, <<r["s0"], r["s1"]>>)
      BY <3>1, <3>2, <3>3, Programs
    <3>5. Writing
      BY <2>3, <2>5, <3>3, WatchedHart DEF Writing, RegCommand
    <3>6. Len(writes) < 1
      BY <1>2, <3>5, WatchedHart, AskedByAbsOrBuf DEF NextOfCall
    <3>7. Len(writes') = 1
      BY <3>4, <3>6
    <3>. QED BY <1>2, <2>5, <3>1, <3>4, <3>7, WatchedHart DEF WriteWork, Busy, Smooth
  <2>. QED BY <2>3, <2>4, <2>5
<1>3. CASE req.f = "write_memory_bulk"
  <2>. DEFINE n == Len(req.data)
  <2>1. n \in Nat \ {0} /\ Len(Accesses(req)) = n + 4
    BY <1>3, WatchedHart, BulkList
  <2>2. k \in 1 .. n + 5
    BY <2>1 DEF TypeOK
  <2>3. k \notin {1, 2, 3} /\ k # n + 5
    BY <1>3, WatchedHart DEF WriteWork
  <2>4. k \in 4 .. n + 4 /\ Begun \in 1 .. n
    BY <2>1, <2>2, <2>3 DEF Begun
  <2>5. running = MemCommand(TRUE, TRUE) /\ data1 = req.addr + Begun - 1
    BY <1>3, <2>4, WatchedHart DEF Course, BulkCourse
  <2>6. data1 \in Mapped
    BY <1>3, <2>4, <2>5, WatchedHart, ExistingAddresses
  <2>7. Smooth
    BY <2>5, <2>6, WatchedHart, HartMoves DEF Smooth
  <2>. QED BY <1>3, <2>3, <2>7, WatchedHart DEF WriteWork
<1>. QED BY <1>1, <1>2, <1>3

-------------------------------------------------------------------------------
(* The invariant of a call's work                                          *)

WorkInv == InOrderInv /\ CallWork

LEMMA WorkAccess ==
  ASSUME TypeOK, AutoInv, WriteInv, WorkInv, Access
  PROVE  WorkInv'
<1>1. InOrderInv'
  <2>1. ready' = ready /\ cut' = cut
    BY DEF Access
  <2>2. ASSUME Watched'
        PROVE  active' /\ halted' /\ asked' = "nothing" /\ cmderr' = "none"
    BY <2>2, WatchedAccess DEF WorkInv, InOrderInv, Done
  <2>. QED BY <2>1, <2>2 DEF WorkInv, InOrderInv
<1>2. RegisterWork' /\ XprWork' /\ ReadWork' /\ WriteWork'
  BY RegisterAccess, XprAccess, ReadAccess, WriteAccess DEF WorkInv, CallWork, WriteInv
<1>. QED BY <1>1, <1>2 DEF WorkInv, CallWork

LEMMA WorkHart ==
  ASSUME TypeOK, WriteInv, WorkInv, Hart
  PROVE  WorkInv'
<1>1. Watched' = Watched /\ UNCHANGED <<session, pc, req, k, out, active, ready, cut>>
  BY WatchedSame
<1>2. CASE ~Watched
  BY <1>1, <1>2 DEF WorkInv, InOrderInv, CallWork, RegisterWork, XprWork, ReadWork,
                    WriteWork
<1>3. CASE Watched
  <2>1. Smooth => InOrderInv'
    BY <1>1, <1>3 DEF Smooth, WorkInv, InOrderInv
  <2>2. CASE req.f \in {"read_register", "write_register"}
    <3>1. Smooth /\ RegisterWork'
      BY <1>3, <2>2, RegisterHart DEF WorkInv, CallWork
    <3>2. XprWork' /\ ReadWork' /\ WriteWork'
      BY <1>1, <2>2 DEF XprWork, ReadWork, WriteWork
    <3>. QED BY <2>1, <3>1, <3>2 DEF WorkInv, CallWork
  <2>3. CASE req.f \in {"read_xpr_buf", "write_xpr_buf"}
    <3>1. Smooth /\ XprWork'
      BY <1>3, <2>3, XprHart DEF WorkInv, CallWork, WriteInv
    <3>2. RegisterWork' /\ ReadWork' /\ WriteWork'
      BY <1>1, <2>3 DEF RegisterWork, ReadWork, WriteWork
    <3>. QED BY <2>1, <3>1, <3>2 DEF WorkInv, CallWork
  <2>4. CASE req.f \in {"read_memory_abs", "read_memory_buf"}
    <3>1. Smooth /\ ReadWork'
      BY <1>3, <2>4, ReadHart DEF WorkInv, CallWork, WriteInv
    <3>2. RegisterWork' /\ XprWork' /\ WriteWork'
      BY <1>1, <2>4 DEF RegisterWork, XprWork, WriteWork
    <3>. QED BY <2>1, <3>1, <3>2 DEF WorkInv, CallWork
  <2>5. CASE req.f \in {"write_memory_abs", "write_memory_buf", "write_memory_bulk"}
    <3>1. Smooth /\ WriteWork'
      BY <1>3, <2>5, WriteHart DEF WorkInv, CallWork, WriteInv
    <3>2. RegisterWork' /\ XprWork' /\ ReadWork'
      BY <1>1, <2>5 DEF RegisterWork, XprWork, ReadWork
    <3>. QED BY <2>1, <3>1, <3>2 DEF WorkInv, CallWork
  <2>. QED BY <1>3, <2>2, <2>3, <2>4, <2>5 DEF Watched, Working
<1>. QED BY <1>2, <1>3

LEMMA WorkStep ==
  ASSUME TypeOK, AutoInv, WriteInv, WorkInv, [Next]_vars
  PROVE  WorkInv'
<1>1. ASSUME NEW r \in Calls, Call(r) PROVE WorkInv'
  <2>1. /\ k' = 1 /\ UNCHANGED <<active, halted, asked, cmderr, running>>
        /\ ready' => active /\ halted /\ cmderr = "none" /\ Settled /\ ~cut'
    BY <1>1 DEF Call
  <2>2. Watched' => ~Busy' /\ active' /\ halted' /\ asked' = "nothing" /\ cmderr' = "none"
    BY <2>1 DEF Watched, Settled, Busy
  <2>3. InOrderInv'
    BY <2>1, <2>2 DEF InOrderInv
  <2>4. RegisterWork' /\ XprWork'
    BY <2>1, <2>2 DEF RegisterWork, XprWork
  <2>5. ReadWork'
    BY <2>1, <2>2 DEF ReadWork
  <2>6. WriteWork'
    <3>1. r.f = "write_memory_bulk" => Len(r.data) \in Nat
      BY <1>1, BulkList
    <3>2. req' = r
      BY <1>1 DEF Call
    <3>. QED BY <2>1, <2>2, <3>1, <3>2 DEF WriteWork
  <2>. QED BY <2>3, <2>4, <2>5, <2>6 DEF WorkInv, CallWork
<1>2. CASE Access
  BY <1>2, WorkAccess
<1>3. CASE Hart
  BY <1>3, WorkHart
<1>4. CASE AccessFails \/ Return \/ Restart
  <2>1. ~Watched' /\ ready' = ready /\ cut' = cut
    BY <1>4 DEF AccessFails, Return, Restart, Watched
  <2>. QED BY <2>1 DEF WorkInv, InOrderInv, CallWork, RegisterWork, XprWork, ReadWork,
                       WriteWork
<1>5. CASE UNCHANGED vars
  <2>1. UNCHANGED <<dm, session, pc, req, k, out, ready, cut, link>>
    BY <1>5 DEF vars, driver
  <2>2. Exists(req)' = Exists(req)
    BY <2>1, SameExists
  <2>3. Watched' = Watched /\ Busy' = Busy
    BY <2>1, <2>2 DEF Watched, Busy, dm
  <2>4. InOrderInv' /\ RegisterWork' /\ XprWork'
    BY <2>1, <2>3 DEF WorkInv, InOrderInv, CallWork, RegisterWork, XprWork, dm
  <2>5. ReadWork' /\ WriteWork'
    BY <2>1, <2>3 DEF WorkInv, CallWork, ReadWork, WriteWork, dm
  <2>. QED BY <2>4, <2>5 DEF WorkInv, CallWork
<1>. QED BY <1>1, <1>2, <1>3, <1>4, <1>5 DEF Next

\* What each function has achieved between two of its accesses, in every state
\* of every run.
THEOREM WorkInvHolds ==
  ASSUME NoSlowBulk
  PROVE  Spec => []WorkInv
<1>1. Init => WorkInv
  <2>. SUFFICES ASSUME Init PROVE WorkInv
    OBVIOUS
  <2>1. ~ready /\ ~Watched
    BY DEF Init, Watched
  <2>. QED BY <2>1 DEF WorkInv, InOrderInv, CallWork, RegisterWork, XprWork, ReadWork,
                       WriteWork
<1>2. TypeOK /\ AutoInv /\ WriteInv /\ WorkInv /\ [Next]_vars => WorkInv'
  BY WorkStep
<1>. QED BY <1>1, <1>2, TypeCorrect, AutoInvHolds, WriteInvHolds, PTL DEF Spec

-------------------------------------------------------------------------------
(* Start-up                                                                *)

\* What every access of a start-up has in common.
LEMMA StartBasics ==
  ASSUME TypeOK, Access, req.f = "dbg_test_init"
  PROVE  /\ session' = session /\ req' = req /\ pc = "call" /\ k' = k + 1
         /\ k \in 1 .. Len(Accesses(req)) /\ req \in Calls /\ Perform(Accesses(req)[k])
         /\ link = "up" \/ Accesses(req)[k].reg = "reset"
         /\ ~session.slow => ~Busy /\ asked = "nothing"
BY DEF Access, TypeOK, InTime, Settled

\* Its accesses, one by one.
LEMMA ReadsOnly ==
  ASSUME NEW x \in {"dmcontrol?", "command?"}, Perform(Rd(x))
  PROVE  UNCHANGED dm
BY DEF Perform, Rd, ReadRegister, Control, dm

LEMMA EnableDone ==
  ASSUME Perform(Wr("dmcontrol", "enable"))
  PROVE  active' /\ UNCHANGED <<halted, cmderr, running, auto, data0, data1, mem, writes>>
BY DEF Perform, Wr, WriteDmcontrol, Control

LEMMA HaltDone ==
  ASSUME active, Perform(Wr("dmcontrol", "halt"))
  PROVE  /\ active' /\ asked' = "halt"
         /\ UNCHANGED <<halted, cmderr, running, auto, data0, data1, mem, writes>>
BY DEF Perform, Wr, WriteDmcontrol, Control

LEMMA TrialDone ==
  ASSUME active, ~Busy, Perform(Wr("command", Unsupported))
  PROVE  /\ active' /\ running' \in {running, Unsupported}
         /\ UNCHANGED <<halted, asked, cmderr, auto, data0, data1, mem, writes>>
BY DEF Perform, Wr, WriteCommand, WhileBusy, Control

LEMMA ClearDone ==
  ASSUME active, ~Busy, Perform(Rd("cmderr"))
  PROVE  /\ active' /\ cmderr' = "none"
         /\ UNCHANGED <<halted, asked, running, auto, data0, data1, mem, writes>>
BY DEF Perform, Rd, WriteCmderr, WhileBusy, Control

LEMMA ResetDone ==
  ASSUME Perform(Wr("reset", "pulse"))
  PROVE  running' = None /\ writes' = writes
BY DEF Perform, Wr, ResetChip, Control

\* Only ABSTRACTAUTO and the reset pin touch autoexec.
LEMMA KeepsAuto ==
  ASSUME NEW o, Perform(o), o.reg \notin {"reset", "abstractauto"}
  PROVE  auto' = auto
BY DEF Perform, WriteDmcontrol, ReadRegister, WriteData0, WriteData1, ReadData0,
       WriteCommand, WriteProgbuf, WriteCmderr, WhileBusy, dm

LEMMA PortStarts ==
  ASSUME TypeOK, PortWork, Access
  PROVE  PortWork'
<1>. DEFINE o == Accesses(req)[k]
<1>. SUFFICES ASSUME req.f = "dbg_test_init", session.program # "dbg_test_init",
                     ~session.slow
              PROVE  /\ k' # 7 => ~Busy'
                     /\ k' > 3 => active'
                     /\ k' = 7 /\ Busy' => running' = Unsupported
                     /\ k' = 9 => cmderr' = "none"
                     /\ writes' = << >>
  BY DEF PortWork, Access
<1>1. k \in 1 .. 8 /\ k' = k + 1 /\ Perform(o) /\ ~Busy /\ pc = "call" /\ req \in Calls
  BY StartBasics, PortList
<1>2. k = 1 \/ k = 2 \/ k = 3 \/ k = 4 \/ k = 5 \/ k = 6 \/ k = 7 \/ k = 8
  BY <1>1
<1>3. link = "up" \/ k = 1
  <2>1. CASE o.reg = "reset"
    <3>1. /\ Accesses(req)[2] = Rd("dmcontrol?")
          /\ Accesses(req)[3] = Wr("dmcontrol", "enable")
          /\ Accesses(req)[4] = Rd("dmcontrol?")
          /\ Accesses(req)[5] = Rd("command?")
          /\ Accesses(req)[6] = Wr("command", Unsupported)
          /\ Accesses(req)[7] = Rd("command?")
          /\ Accesses(req)[8] = Rd("cmderr")
      BY <1>1, PortList
    <3>2. /\ Accesses(req)[2].reg # "reset" /\ Accesses(req)[3].reg # "reset"
          /\ Accesses(req)[4].reg # "reset" /\ Accesses(req)[5].reg # "reset"
          /\ Accesses(req)[6].reg # "reset" /\ Accesses(req)[7].reg # "reset"
          /\ Accesses(req)[8].reg # "reset"
      BY <3>1 DEF Wr, Rd
    <3>. QED BY <1>2, <2>1, <3>2
  <2>. QED BY <2>1, StartBasics
<1>4. (k > 3 => active) /\ writes = << >>
  BY <1>1, <1>3 DEF PortWork
<1>5. CASE k = 1
  <2>1. o = Wr("reset", "pulse")
    BY <1>1, <1>5, PortList
  <2>. QED BY <1>1, <1>4, <1>5, <2>1, ResetDone DEF Busy
<1>6. CASE k = 3
  <2>1. o = Wr("dmcontrol", "enable")
    BY <1>1, <1>6, PortList
  <2>2. active' /\ UNCHANGED <<running, writes>>
    BY <1>1, <2>1, EnableDone
  <2>. QED BY <1>1, <1>4, <1>6, <2>2 DEF Busy
<1>7. CASE k = 2 \/ k = 4 \/ k = 5 \/ k = 7
  <2>1. o \in {Rd("dmcontrol?"), Rd("command?")}
    BY <1>1, <1>7, PortList
  <2>2. UNCHANGED dm
    BY <1>1, <2>1, ReadsOnly
  <2>3. UNCHANGED <<active, running, writes>>
    BY <2>2 DEF dm
  <2>. QED BY <1>1, <1>4, <1>7, <2>3 DEF Busy
<1>8. CASE k = 6
  <2>1. o = Wr("command", Unsupported)
    BY <1>1, <1>8, PortList
  <2>2. active' /\ running' \in {running, Unsupported} /\ writes' = writes
    BY <1>1, <1>4, <1>8, <2>1, TrialDone
  <2>. QED BY <1>1, <1>4, <1>8, <2>2 DEF Busy
<1>9. CASE k = 8
  <2>1. o = Rd("cmderr")
    BY <1>1, <1>9, PortList
  <2>2. active' /\ cmderr' = "none" /\ UNCHANGED <<running, writes>>
    BY <1>1, <1>4, <1>9, <2>1, ClearDone
  <2>. QED BY <1>1, <1>4, <1>9, <2>2 DEF Busy
<1>. QED BY <1>2, <1>5, <1>6, <1>7, <1>8, <1>9

LEMMA BenchStarts ==
  ASSUME TypeOK, BenchWork, Access
  PROVE  BenchWork'
<1>. DEFINE o == Accesses(req)[k]
<1>. SUFFICES ASSUME req.f = "dbg_test_init", session.program = "dbg_test_init",
                     link' = "up", ~session.slow, ~auto'
              PROVE  /\ k' \notin {4, 10} => ~Busy'
                     /\ k' > 2 => active'
                     /\ k' = 4 /\ Busy' => running' = Unsupported
                     /\ k' > 4 => cmderr' = "none"
                     /\ k' = 7 => asked' = "halt" \/ (asked' = "nothing" /\ halted')
                     /\ k' > 7 => asked' = "nothing" /\ halted' /\ data1' = LedAddr
                     /\ k' > 8 => data0' = LedWord
                     /\ k' < 10 => writes' = << >>
                     /\ k' = 10 => /\ running' = MemCommand(TRUE, FALSE) /\ Busy'
                                   /\ writes' = << >>
  BY DEF BenchWork, Access
<1>1. /\ k \in 1 .. 9 /\ k' = k + 1 /\ Perform(o) /\ ~Busy /\ asked = "nothing"
      /\ pc = "call" /\ req \in Calls
  BY StartBasics, BenchList
<1>2. k = 1 \/ k = 2 \/ k = 3 \/ k = 4 \/ k = 5 \/ k = 6 \/ k = 7 \/ k = 8 \/ k = 9
  BY <1>1
<1>3. link = "up" /\ ~auto
  <2>1. /\ Accesses(req)[1] = Rd("dmcontrol?")
        /\ Accesses(req)[2] = Wr("dmcontrol", "enable")
        /\ Accesses(req)[3] = Wr("command", Unsupported)
        /\ Accesses(req)[4] = Rd("cmderr")
        /\ Accesses(req)[5] = Rd("dmcontrol?")
        /\ Accesses(req)[6] = Wr("dmcontrol", "halt")
        /\ Accesses(req)[7] = Wr("data1", LedAddr)
        /\ Accesses(req)[8] = Wr("data0", LedWord)
        /\ Accesses(req)[9] = Wr("command", MemCommand(TRUE, FALSE))
    BY <1>1, BenchList
  <2>2. /\ Accesses(req)[1].reg = "dmcontrol?" /\ Accesses(req)[2].reg = "dmcontrol"
        /\ Accesses(req)[3].reg = "command" /\ Accesses(req)[4].reg = "cmderr"
        /\ Accesses(req)[5].reg = "dmcontrol?" /\ Accesses(req)[6].reg = "dmcontrol"
        /\ Accesses(req)[7].reg = "data1" /\ Accesses(req)[8].reg = "data0"
        /\ Accesses(req)[9].reg = "command"
    BY <2>1 DEF Wr, Rd
  <2>3. o.reg \notin {"reset", "abstractauto"}
    BY <1>2, <2>2
  <2>4. auto' = auto
    BY <1>1, <2>3, KeepsAuto
  <2>. QED BY <2>3, <2>4, StartBasics
<1>4. /\ k > 2 => active
      /\ k > 4 => cmderr = "none"
      /\ k > 6 => halted
      /\ k > 7 => data1 = LedAddr
      /\ k > 8 => data0 = LedWord
      /\ writes = << >>
  BY <1>1, <1>2, <1>3 DEF BenchWork
<1>5. CASE k = 1 \/ k = 5
  <2>1. o = Rd("dmcontrol?")
    BY <1>1, <1>5, BenchList
  <2>2. UNCHANGED dm
    BY <1>1, <2>1, ReadsOnly
  <2>3. UNCHANGED <<active, running, cmderr, writes>>
    BY <2>2 DEF dm
  <2>. QED BY <1>1, <1>4, <1>5, <2>3 DEF Busy
<1>6. CASE k = 2
  <2>1. o = Wr("dmcontrol", "enable")
    BY <1>1, <1>6, BenchList
  <2>2. active' /\ UNCHANGED <<running, writes>>
    BY <1>1, <2>1, EnableDone
  <2>. QED BY <1>1, <1>4, <1>6, <2>2 DEF Busy
<1>7. CASE k = 3
  <2>1. o = Wr("command", Unsupported)
    BY <1>1, <1>7, BenchList
  <2>2. active' /\ running' \in {running, Unsupported} /\ writes' = writes
    BY <1>1, <1>4, <1>7, <2>1, TrialDone
  <2>. QED BY <1>1, <1>4, <1>7, <2>2 DEF Busy
<1>8. CASE k = 4
  <2>1. o = Rd("cmderr")
    BY <1>1, <1>8, BenchList
  <2>2. active' /\ cmderr' = "none" /\ UNCHANGED <<running, writes>>
    BY <1>1, <1>4, <1>8, <2>1, ClearDone
  <2>. QED BY <1>1, <1>4, <1>8, <2>2 DEF Busy
<1>9. CASE k = 6
  <2>1. o = Wr("dmcontrol", "halt")
    BY <1>1, <1>9, BenchList
  <2>2. active' /\ asked' = "halt" /\ UNCHANGED <<cmderr, running, writes>>
    BY <1>1, <1>4, <1>9, <2>1, HaltDone
  <2>. QED BY <1>1, <1>4, <1>9, <2>2 DEF Busy
<1>10. CASE k = 7
  <2>1. o = Wr("data1", LedAddr)
    BY <1>1, <1>10, BenchList
  <2>2. active /\ cmderr = "none" /\ halted /\ writes = << >>
    BY <1>4, <1>10
  <2>3. o.reg = "data1"
    BY <2>1, Fields
  <2>4. Done /\ UNCHANGED <<active, halted, asked, writes>>
    BY <1>1, <2>2, <2>3, InOrderAccess
  <2>5. data1' = LedAddr /\ running' = running
    BY <1>1, <2>1, <2>4, Data1Done
  <2>. QED BY <1>1, <1>10, <2>2, <2>4, <2>5 DEF Busy, Done
<1>11. CASE k = 8
  <2>1. o = Wr("data0", LedWord)
    BY <1>1, <1>11, BenchList
  <2>2. /\ active /\ cmderr = "none" /\ halted /\ writes = << >> /\ data1 = LedAddr
    BY <1>4, <1>11
  <2>3. o.reg = "data0"
    BY <2>1, Fields
  <2>4. Done /\ UNCHANGED <<active, halted, asked, writes>>
    BY <1>1, <2>2, <2>3, InOrderAccess
  <2>5. data0' = LedWord /\ data1' = data1 /\ running' = running
    BY <1>1, <1>3, <2>1, <2>4, Data0Done
  <2>. QED BY <1>1, <1>11, <2>2, <2>4, <2>5 DEF Busy, Done
<1>12. CASE k = 9
  <2>1. o = Wr("command", MemCommand(TRUE, FALSE))
    BY <1>1, <1>12, BenchList
  <2>2. /\ active /\ cmderr = "none" /\ halted /\ writes = << >> /\ data1 = LedAddr
        /\ data0 = LedWord
    BY <1>4, <1>12
  <2>3. o.reg = "command"
    BY <2>1, Fields
  <2>4. Done /\ UNCHANGED <<active, halted, asked, writes>>
    BY <1>1, <2>2, <2>3, InOrderAccess
  <2>5. UNCHANGED <<data0, data1>> /\ running' = MemCommand(TRUE, FALSE)
    BY <1>1, <2>1, <2>4, CommandDone
  <2>6. Busy'
    BY <2>5, NotNone DEF Busy
  <2>. QED BY <1>1, <1>12, <2>2, <2>4, <2>5, <2>6 DEF Done
<1>. QED BY <1>2, <1>5, <1>6, <1>7, <1>8, <1>9, <1>10, <1>11, <1>12

\* A step of the hart while nothing, or the trial command, runs.
LEMMA HartOnTrial ==
  ASSUME Hart, ~Busy \/ running = Unsupported
  PROVE  /\ UNCHANGED <<active, auto, data0, data1, writes>>
         /\ \/ /\ asked # "nothing" /\ asked' = "nothing" /\ halted' = (asked = "halt")
               /\ UNCHANGED <<running, cmderr>>
            \/ /\ running = Unsupported /\ running' = None
               /\ UNCHANGED <<halted, asked>>
<1>1. HartHonours \/ (Refuse /\ running = Unsupported)
  BY DEF Hart, AccessRegister, AccessMemory, Refuse, Unsupported
<1>. QED BY <1>1 DEF Hart, HartHonours, Refuse, CommandError

LEMMA StartsHart ==
  ASSUME TypeOK, BenchWork, PortWork, Hart
  PROVE  BenchWork' /\ PortWork'
<1>1. /\ UNCHANGED <<session, pc, req, k, link, active, auto>> /\ DmTypeOK
      /\ k \in Nat
  <2>1. Len(Accesses(req)) \in Nat
    BY ListsTyped DEF TypeOK
  <2>2. k \in Nat
    BY <2>1 DEF TypeOK
  <2>. QED BY <2>2, HartSteps DEF TypeOK
<1>2. PortWork'
  <2>. SUFFICES ASSUME pc = "call", req.f = "dbg_test_init",
                       session.program # "dbg_test_init", link = "up" \/ k = 1,
                       ~session.slow
                PROVE  /\ k # 7 => ~Busy'
                       /\ k > 3 => active'
                       /\ k = 7 /\ Busy' => running' = Unsupported
                       /\ k = 9 => cmderr' = "none"
                       /\ writes' = << >>
    BY <1>1 DEF PortWork
  <2>1. /\ k # 7 => ~Busy
        /\ k > 3 => active
        /\ k = 7 /\ Busy => running = Unsupported
        /\ k = 9 => cmderr = "none"
        /\ writes = << >>
    BY DEF PortWork
  <2>2. ~Busy \/ running = Unsupported
    BY <2>1
  <2>3. running' = running \/ running' = None
    BY <2>2, HartOnTrial
  <2>4. k = 9 => cmderr' = cmderr
    BY <2>1, <2>2, HartOnTrial, NoneAssumption DEF Busy, Commands
  <2>. QED BY <1>1, <2>1, <2>2, <2>3, <2>4, HartOnTrial DEF Busy
<1>3. BenchWork'
  <2>. SUFFICES ASSUME pc = "call", req.f = "dbg_test_init",
                       session.program = "dbg_test_init", link = "up",
                       ~session.slow, ~auto
                PROVE  /\ k \notin {4, 10} => ~Busy'
                       /\ k > 2 => active'
                       /\ k = 4 /\ Busy' => running' = Unsupported
                       /\ k > 4 => cmderr' = "none"
                       /\ k = 7 => asked' = "halt" \/ (asked' = "nothing" /\ halted')
                       /\ k > 7 => asked' = "nothing" /\ halted' /\ data1' = LedAddr
                       /\ k > 8 => data0' = LedWord
                       /\ k < 10 => writes' = << >>
                       /\ k = 10 => IF Busy'
                                    THEN /\ running' = MemCommand(TRUE, FALSE)
                                         /\ writes' = << >>
                                    ELSE writes' = << <<LedAddr, LedWord>> >>
    BY <1>1 DEF BenchWork
  <2>1. /\ k \notin {4, 10} => ~Busy
        /\ k > 2 => active
        /\ k = 4 /\ Busy => running = Unsupported
        /\ k > 4 => cmderr = "none"
        /\ k = 7 => asked = "halt" \/ (asked = "nothing" /\ halted)
        /\ k > 7 => asked = "nothing" /\ halted /\ data1 = LedAddr
        /\ k > 8 => data0 = LedWord
        /\ k < 10 => writes = << >>
        /\ k = 10 => IF Busy THEN running = MemCommand(TRUE, FALSE) /\ writes = << >>
                             ELSE writes = << <<LedAddr, LedWord>> >>
    BY DEF BenchWork
  <2>2. CASE k = 10
    <3>1. asked = "nothing" /\ halted /\ data1 = LedAddr /\ data0 = LedWord /\ cmderr = "none"
      BY <2>1, <2>2
    <3>2. Busy
      BY <3>1, HartRests DEF Settled
    <3>3. running = MemCommand(TRUE, FALSE) /\ writes = << >> /\ data1 \in Mapped
      BY <2>1, <2>2, <3>1, <3>2, AbsCmdAssumption
    <3>4. /\ UNCHANGED <<halted, asked, cmderr, data0, data1>> /\ running' = None
          /\ writes' = Append(writes, <<data1, data0>>)
      BY <1>1, <3>1, <3>3, HartMoves
    <3>5. writes' = << <<LedAddr, LedWord>> >>
      BY <3>1, <3>3, <3>4
    <3>6. active' /\ ~Busy' /\ running' = None
      BY <1>1, <2>1, <2>2, <3>4 DEF Busy
    <3>7. /\ data1' = LedAddr /\ data0' = LedWord /\ asked' = "nothing" /\ halted'
          /\ cmderr' = "none"
      BY <3>1, <3>4
    <3>. QED BY <2>2, <3>5, <3>6, <3>7
  <2>3. CASE k # 10
    <3>1. ~Busy \/ running = Unsupported
      BY <2>1, <2>3
    <3>2. k # 4 => UNCHANGED <<running, cmderr>>
      BY <2>1, <2>3, <3>1, HartOnTrial, NoneAssumption DEF Busy, Commands
    <3>3. running' = running \/ running' = None
      BY <3>1, HartOnTrial
    <3>4. UNCHANGED <<data0, data1, writes>>
      BY <3>1, HartOnTrial
    <3>5. k < 10 \/ k > 10
      BY <1>1, <2>3
    <3>6. k = 7 => asked' = "halt" \/ (asked' = "nothing" /\ halted')
      BY <2>1, <3>1, HartOnTrial
    <3>7. k > 7 => UNCHANGED <<halted, asked>>
      BY <2>1, <3>1, HartOnTrial
    <3>8. /\ k \notin {4, 10} => ~Busy'
          /\ k = 4 /\ Busy' => running' = Unsupported
      BY <2>1, <3>2, <3>3 DEF Busy
    <3>9. k > 4 => cmderr' = "none"
      BY <2>1, <3>2
    <3>. QED BY <1>1, <2>1, <2>3, <3>4, <3>6, <3>7, <3>8, <3>9
  <2>. QED BY <2>2, <2>3
<1>. QED BY <1>2, <1>3

StartInv == BenchWork /\ PortWork

LEMMA StartStep ==
  ASSUME TypeOK, StartInv, [Next]_vars
  PROVE  StartInv'
<1>1. ASSUME NEW r \in Calls, Call(r) PROVE StartInv'
  <2>1. k' = 1 /\ running' = running /\ writes' = << >> /\ session' = session
    BY <1>1 DEF Call
  <2>2. ~session.slow => ~Busy'
    BY <1>1, <2>1 DEF Call, InTime, Settled, Busy
  <2>3. BenchWork'
    BY <2>1, <2>2 DEF BenchWork
  <2>4. PortWork'
    BY <2>1, <2>2 DEF PortWork
  <2>. QED BY <2>3, <2>4 DEF StartInv
<1>2. CASE Access
  BY <1>2, BenchStarts, PortStarts DEF StartInv
<1>3. CASE Hart
  BY <1>3, StartsHart DEF StartInv
<1>4. CASE AccessFails
  <2>1. link' = "down" /\ (pc' = "call" => k' = k + 1)
    BY <1>4 DEF AccessFails
  <2>2. k \in 1 .. Len(Accesses(req)) /\ Len(Accesses(req)) \in Nat
    BY <1>4, ListsTyped DEF AccessFails, TypeOK
  <2>3. pc' = "call" => k' # 1
    BY <2>1, <2>2
  <2>. QED BY <2>1, <2>3 DEF StartInv, BenchWork, PortWork
<1>5. CASE Return \/ Restart
  BY <1>5 DEF Return, Restart, StartInv, BenchWork, PortWork
<1>6. CASE UNCHANGED vars
  <2>1. BenchWork'
    BY <1>6 DEF vars, dm, driver, StartInv, BenchWork, Busy
  <2>2. PortWork'
    BY <1>6 DEF vars, dm, driver, StartInv, PortWork, Busy
  <2>. QED BY <2>1, <2>2 DEF StartInv
<1>. QED BY <1>1, <1>2, <1>3, <1>4, <1>5, <1>6 DEF Next

\* What a start-up has achieved between two of its accesses, in every state of
\* every run.
THEOREM StartInvHolds == Spec => []StartInv
<1>1. Init => StartInv
  BY DEF Init, StartInv, BenchWork, PortWork
<1>2. TypeOK /\ StartInv /\ [Next]_vars => StartInv'
  BY StartStep
<1>. QED BY <1>1, <1>2, TypeCorrect, PTL DEF Spec

-------------------------------------------------------------------------------
(* At the end of a call                                                    *)

\* A call that ends without an error, with a hart that keeps up, ends after
\* its last access and with the hart at rest.
LEMMA Ends ==
  ASSUME TypeOK, Return, ~session.slow
  PROVE  /\ pc = "call" /\ k = Len(Accesses(req)) + 1 /\ Settled /\ ~Busy /\ req \in Calls
         /\ UNCHANGED <<dm, session, req, link, ready, out, cut>>
<1>1. k = Len(Accesses(req)) + 1
  <2>1. Len(Accesses(req)) \in Nat
    BY ListsTyped DEF TypeOK
  <2>. QED BY <2>1 DEF Return, TypeOK
<1>. QED BY <1>1 DEF Return, InTime, Settled, TypeOK

\* The functions whose work is not a word.
LEMMA OtherFunctions ==
  ASSUME NEW r \in Calls, r.f \notin Working
  PROVE  r.f \in {"halt_cpu", "resume_cpu", "clear_cmderr", "dbg_test_init"}
BY Arguments DEF Functions, Working

LEMMA NothingAsked ==
  ASSUME NEW r,
         \/ r.f \in {"halt_cpu", "resume_cpu", "clear_cmderr", "read_register",
                     "write_register", "read_xpr_buf", "write_xpr_buf",
                     "read_memory_abs", "read_memory_buf"}
         \/ r.f = "dbg_test_init" /\ session.program # "dbg_test_init"
  PROVE  Asked(r) = << >>
BY DEF Asked

\* As many writes as were asked for are all of them.
LEMMA AllOfThem ==
  ASSUME TypeOK, writes \in Seq(Values \X Values), OnlyAsked, ~cut, ~session.slow,
         Len(writes) = Len(Asked(req))
  PROVE  Wrote
<1>1. req \in Calls
  BY DEF TypeOK
<1>2. \E n \in Nat : /\ Asked(req) \in [1 .. n -> {Asked(req)[i] : i \in 1 .. n}]
                    /\ Len(Asked(req)) = n
  <2>1. CASE Asked(req) = << >>
    BY <2>1
  <2>2. CASE \/ req.f = "dbg_test_init" /\ session.program = "dbg_test_init"
             \/ req.f \in {"write_memory_abs", "write_memory_buf"}
    BY <2>2 DEF Asked
  <2>3. CASE req.f = "write_memory_bulk"
    <3>. DEFINE n == Len(req.data)
    <3>1. Asked(req) = [i \in 1 .. n |-> <<req.addr + i - 1, req.data[i]>>]
      BY <2>3 DEF Asked
    <3>2. n \in Nat /\ Len(Asked(req)) = n
      BY <1>1, <2>3, BulkList, AskedByBulk
    <3>3. Asked(req) \in [1 .. n -> {Asked(req)[i] : i \in 1 .. n}]
      BY <3>1
    <3>. QED BY <3>2, <3>3
  <2>. QED BY <2>1, <2>2, <2>3 DEF Asked
<1>3. \A i \in 1 .. Len(writes) : writes[i] = Asked(req)[i]
  BY DEF OnlyAsked
<1>. QED BY <1>2, <1>3 DEF Wrote

LEMMA EndsDone ==
  ASSUME TypeOK, AutoInv, WriteInv, WorkInv, StartInv, Return,
         ready, Exists(req), link = "up", ~session.slow
  PROVE  Wrote /\ RightWord
<1>. DEFINE last == Len(Accesses(req)) + 1
<1>1. /\ pc = "call" /\ k = last /\ ~Busy /\ req \in Calls /\ ~cut
      /\ writes \in Seq(Values \X Values) /\ OnlyAsked
  BY Ends DEF WorkInv, InOrderInv, WriteInv
<1>2. req.f \in Working => Watched
  BY <1>1 DEF Watched
<1>3. Len(writes) = Len(Asked(req)) => Wrote
  BY <1>1, AllOfThem
<1>4. Asked(req) = << >> => Wrote
  <2>1. Len(writes) <= Len(Asked(req))
    BY <1>1 DEF OnlyAsked
  <2>. QED BY <1>1, <2>1 DEF Wrote
<1>5. CASE req.f = "read_register"
  <2>1. Len(Accesses(req)) = 2
    BY <1>1, <1>5, ReadRegisterList
  <2>2. k = 3
    BY <1>1, <1>5, <2>1
  <2>3. out = regs[req.reg]
    BY <1>2, <1>5, <2>2 DEF Working, WorkInv, CallWork, RegisterWork
  <2>. QED BY <1>4, <1>5, <2>3, NothingAsked DEF RightWord
<1>6. CASE req.f = "write_register"
  <2>1. Len(Accesses(req)) = 2
    BY <1>1, <1>6, WriteRegisterList
  <2>2. k = 3
    BY <1>1, <1>6, <2>1
  <2>3. regs[req.reg] = req.data
    BY <1>1, <1>2, <1>6, <2>2 DEF Working, WorkInv, CallWork, RegisterWork
  <2>. QED BY <1>4, <1>6, <2>3, NothingAsked DEF RightWord
<1>7. CASE req.f = "read_xpr_buf"
  <2>1. Len(Accesses(req)) = 5
    BY <1>1, <1>7, ReadXprList
  <2>2. k = 6 /\ req.reg = "s1"
    BY <1>1, <1>7, <2>1, XprReg
  <2>3. out = regs["s1"]
    BY <1>2, <1>7, <2>2 DEF Working, WorkInv, CallWork, XprWork
  <2>. QED BY <1>4, <1>7, <2>2, <2>3, NothingAsked DEF RightWord
<1>8. CASE req.f = "write_xpr_buf"
  <2>1. Len(Accesses(req)) = 5
    BY <1>1, <1>8, WriteXprList
  <2>2. k = 6 /\ req.reg = "s1"
    BY <1>1, <1>8, <2>1, XprReg
  <2>3. regs["s1"] = req.data
    BY <1>1, <1>2, <1>8, <2>2 DEF Working, WorkInv, CallWork, XprWork
  <2>. QED BY <1>4, <1>8, <2>2, <2>3, NothingAsked DEF RightWord
<1>9. CASE req.f = "read_memory_abs"
  <2>1. Len(Accesses(req)) = 3
    BY <1>1, <1>9, ReadAbsList
  <2>2. k = 4
    BY <1>1, <1>9, <2>1
  <2>3. out = mem[req.addr]
    BY <1>2, <1>9, <2>2 DEF Working, WorkInv, CallWork, ReadWork
  <2>. QED BY <1>4, <1>9, <2>3, NothingAsked DEF RightWord
<1>10. CASE req.f = "read_memory_buf"
  <2>1. Len(Accesses(req)) = 6
    BY <1>1, <1>10, ReadBufList
  <2>2. k = 7
    BY <1>1, <1>10, <2>1
  <2>3. out = mem[req.addr]
    BY <1>2, <1>10, <2>2 DEF Working, WorkInv, CallWork, ReadWork
  <2>. QED BY <1>4, <1>10, <2>3, NothingAsked DEF RightWord
<1>11. CASE req.f = "write_memory_abs"
  <2>1. Len(Accesses(req)) = 3
    BY <1>1, <1>11, WriteAbsList
  <2>2. k = 4
    BY <1>1, <1>11, <2>1
  <2>3. Len(writes) = 1
    BY <1>1, <1>2, <1>11, <2>2 DEF Working, WorkInv, CallWork, WriteWork
  <2>. QED BY <1>3, <1>11, <2>3, AskedByAbsOrBuf DEF RightWord
<1>12. CASE req.f = "write_memory_buf"
  <2>1. Len(Accesses(req)) = 6
    BY <1>1, <1>12, WriteBufList
  <2>2. k = 7
    BY <1>1, <1>12, <2>1
  <2>3. Len(writes) = 1
    BY <1>1, <1>2, <1>12, <2>2 DEF Working, WorkInv, CallWork, WriteWork
  <2>. QED BY <1>3, <1>12, <2>3, AskedByAbsOrBuf DEF RightWord
<1>13. CASE req.f = "write_memory_bulk"
  <2>1. Len(Accesses(req)) = Len(req.data) + 4 /\ Len(req.data) \in Nat
    BY <1>1, <1>13, BulkList
  <2>2. k = Len(req.data) + 5
    BY <1>1, <2>1
  <2>3. Len(writes) = Len(req.data)
    BY <1>2, <1>13, <2>2 DEF Working, WorkInv, CallWork, WriteWork
  <2>. QED BY <1>1, <1>3, <1>13, <2>3, AskedByBulk DEF RightWord
<1>14. CASE req.f = "dbg_test_init" /\ session.program = "dbg_test_init"
  <2>1. Len(Accesses(req)) = 9
    BY <1>1, <1>14, BenchList
  <2>2. k = 10
    BY <1>1, <1>14, <2>1
  <2>3. ~auto
    BY <1>1, <1>14 DEF AutoInv
  <2>4. Len(writes) = 1
    BY <1>1, <1>14, <2>2, <2>3 DEF StartInv, BenchWork
  <2>. QED BY <1>3, <1>14, <2>4, AskedByBench DEF RightWord
<1>15. CASE \/ req.f \in {"halt_cpu", "resume_cpu", "clear_cmderr"}
            \/ req.f = "dbg_test_init" /\ session.program # "dbg_test_init"
  BY <1>4, <1>15, NothingAsked DEF RightWord
<1>. QED BY <1>1, <1>5, <1>6, <1>7, <1>8, <1>9, <1>10, <1>11, <1>12, <1>13, <1>14, <1>15,
            OtherFunctions DEF Working

\* Between calls the hart rests, so that what a call has done stays done.
DoneInv ==
  /\ Finished /\ link = "up" /\ ~session.slow => Settled
  /\ WorkDone

LEMMA DoneStep ==
  ASSUME TypeOK, AutoInv, WriteInv, WorkInv, StartInv, DoneInv, [Next]_vars
  PROVE  DoneInv'
<1>1. ASSUME NEW r \in Calls, Call(r) PROVE DoneInv'
  BY <1>1 DEF Call, DoneInv, WorkDone, Finished, Returned
<1>2. CASE Access
  BY <1>2 DEF Access, DoneInv, WorkDone, Finished, Returned
<1>3. CASE AccessFails
  BY <1>3 DEF AccessFails, DoneInv, WorkDone, Finished, Returned
<1>4. CASE Restart
  BY <1>4 DEF Restart, DoneInv, WorkDone, Finished, Returned
<1>5. CASE Return
  <2>1. UNCHANGED <<dm, session, req, link, ready, out>>
    BY <1>5 DEF Return
  <2>2. /\ Exists(req)' = Exists(req) /\ Wrote' = Wrote /\ RightWord' = RightWord
        /\ Settled' = Settled
    <3>1. Exists(req)' = Exists(req)
      BY <2>1, SameExists
    <3>2. Wrote' = Wrote
      BY <2>1, SameAsked DEF Wrote, dm
    <3>3. RightWord' = RightWord /\ Settled' = Settled
      BY <2>1 DEF RightWord, Settled, Busy, dm
    <3>. QED BY <3>1, <3>2, <3>3
  <2>3. ~session.slow => Settled
    BY <1>5, Ends
  <2>. QED BY <1>5, <2>1, <2>2, <2>3, EndsDone DEF DoneInv, WorkDone
<1>6. CASE Hart
  <2>1. UNCHANGED <<session, pc, ret, link, ready, req>>
    BY <1>6 DEF Hart
  <2>2. ~(Finished /\ link = "up" /\ ~session.slow)
    BY <1>6, HartRests DEF DoneInv
  <2>. QED BY <2>1, <2>2 DEF DoneInv, WorkDone, Finished, Returned
<1>7. CASE UNCHANGED vars
  <2>1. UNCHANGED <<dm, session, pc, ret, req, link, ready, out>>
    BY <1>7 DEF vars, driver
  <2>2. Exists(req)' = Exists(req)
    BY <2>1, SameExists
  <2>3. Wrote' = Wrote
    BY <2>1, SameAsked DEF Wrote, dm
  <2>4. RightWord' = RightWord /\ Settled' = Settled
    BY <2>1 DEF RightWord, Settled, Busy, dm
  <2>. QED BY <2>1, <2>2, <2>3, <2>4 DEF DoneInv, WorkDone, Finished, Returned
<1>. QED BY <1>1, <1>2, <1>3, <1>4, <1>5, <1>6, <1>7 DEF Next

\* When a call returns that found things in order, over a link that works and
\* with a hart that keeps up, whatever it returns, the writes asked for have
\* happened, each once and in order, a read hands out the word that is there,
\* and a register holds the word it got.
THEOREM WorkDoneHolds ==
  ASSUME NoSlowBulk
  PROVE  Spec => []WorkDone
<1>1. Init => DoneInv
  BY DEF Init, DoneInv, WorkDone, Finished, Returned
<1>2. /\ TypeOK /\ AutoInv /\ WriteInv /\ WorkInv /\ StartInv /\ DoneInv /\ [Next]_vars
      => DoneInv'
  BY DoneStep
<1>3. DoneInv => WorkDone
  BY DEF DoneInv
<1>. QED
  BY <1>1, <1>2, <1>3, TypeCorrect, AutoInvHolds, WriteInvHolds, WorkInvHolds,
     StartInvHolds, PTL DEF Spec

\* A start-up meets a hart that keeps up, and the bench is not restarted: what
\* restarts it is a new simulation, with new hardware.
CleanStarts ==
  \A s \in Sessions : "dbg_test_init" \in s.functions =>
    ~s.slow /\ (s.program = "dbg_test_init" => ~s.crashes)

\* What may leave autoexec on in the bench, the failure of an access, is the
\* end of the link too.
LinkInv ==
  /\ session.program = "dbg_test_init" /\ ~session.crashes /\ (cut \/ (auto /\ pc = "idle"))
     => link = "down"
  /\ StartedInOrder

\* No access of the bench is a reset.
LEMMA BenchResets ==
  ASSUME TypeOK, Access, session.program = "dbg_test_init"
  PROVE  link' = link
<1>. DEFINE o == Accesses(req)[k]
<1>1. req \in Calls /\ k \in 1 .. Len(Accesses(req))
  BY ListsTyped DEF Access, TypeOK
<1>2. CASE req.f \in Working
  <2>1. o.reg \in Plain
    BY <1>1, <1>2, WorkingAccesses
  <2>. QED BY <2>1 DEF Access, Plain
<1>3. CASE req.f \in {"halt_cpu", "resume_cpu"}
  <2>1. /\ Len(Accesses(req)) = 2 /\ Accesses(req)[1] = Rd("dmcontrol?")
        /\ Accesses(req)[2] \in {Wr("dmcontrol", "halt"), Wr("dmcontrol", "resume")}
    BY <1>1, <1>3, HaltList, ResumeList
  <2>2. Accesses(req)[1].reg # "reset" /\ Accesses(req)[2].reg # "reset"
    BY <2>1 DEF Wr, Rd
  <2>3. k = 1 \/ k = 2
    BY <1>1, <2>1
  <2>. QED BY <2>2, <2>3 DEF Access
<1>4. CASE req.f = "clear_cmderr"
  <2>1. Len(Accesses(req)) = 1 /\ Accesses(req)[1] = Rd("cmderr")
    BY <1>1, <1>4, ClearList
  <2>2. Accesses(req)[1].reg # "reset"
    BY <2>1 DEF Rd
  <2>3. k = 1
    BY <1>1, <2>1
  <2>. QED BY <2>2, <2>3 DEF Access
<1>5. CASE req.f = "dbg_test_init"
  <2>1. /\ Len(Accesses(req)) = 9
        /\ Accesses(req)[1] = Rd("dmcontrol?")
        /\ Accesses(req)[2] = Wr("dmcontrol", "enable")
        /\ Accesses(req)[3] = Wr("command", Unsupported)
        /\ Accesses(req)[4] = Rd("cmderr")
        /\ Accesses(req)[5] = Rd("dmcontrol?")
        /\ Accesses(req)[6] = Wr("dmcontrol", "halt")
        /\ Accesses(req)[7] = Wr("data1", LedAddr)
        /\ Accesses(req)[8] = Wr("data0", LedWord)
        /\ Accesses(req)[9] = Wr("command", MemCommand(TRUE, FALSE))
    BY <1>1, <1>5, BenchList
  <2>2. /\ Accesses(req)[1].reg # "reset" /\ Accesses(req)[2].reg # "reset"
        /\ Accesses(req)[3].reg # "reset" /\ Accesses(req)[4].reg # "reset"
        /\ Accesses(req)[5].reg # "reset" /\ Accesses(req)[6].reg # "reset"
        /\ Accesses(req)[7].reg # "reset" /\ Accesses(req)[8].reg # "reset"
        /\ Accesses(req)[9].reg # "reset"
    BY <2>1 DEF Wr, Rd
  <2>3. k = 1 \/ k = 2 \/ k = 3 \/ k = 4 \/ k = 5 \/ k = 6 \/ k = 7 \/ k = 8 \/ k = 9
    BY <1>1, <2>1
  <2>. QED BY <2>2, <2>3 DEF Access
<1>. QED BY <1>1, <1>2, <1>3, <1>4, <1>5, OtherFunctions

LEMMA EndsStarted ==
  ASSUME CleanStarts, TypeOK, AutoInv, WriteInv, StartInv, LinkInv, Return,
         req.f = "dbg_test_init", link = "up"
  PROVE  active /\ Settled /\ cmderr = "none" /\ Wrote
<1>1. /\ ~session.slow
      /\ session.program = "dbg_test_init" => ~session.crashes /\ ~cut /\ ~auto
  <2>1. session \in Sessions /\ req.f \in session.functions
    BY DEF Return, AutoInv, TypeOK
  <2>2. ~session.slow /\ (session.program = "dbg_test_init" => ~session.crashes)
    BY <2>1 DEF CleanStarts
  <2>3. session.program = "dbg_test_init" => ~cut
    BY <2>2 DEF LinkInv
  <2>. QED BY <2>2, <2>3 DEF Return, AutoInv
<1>2. /\ pc = "call" /\ k = Len(Accesses(req)) + 1 /\ Settled /\ ~Busy /\ req \in Calls
      /\ writes \in Seq(Values \X Values) /\ OnlyAsked
  BY <1>1, Ends DEF WriteInv
<1>3. CASE session.program = "dbg_test_init"
  <2>1. Len(Accesses(req)) = 9
    BY <1>2, <1>3, BenchList
  <2>2. k = 10
    BY <1>2, <2>1
  <2>3. active /\ cmderr = "none" /\ writes = << <<LedAddr, LedWord>> >>
    BY <1>1, <1>2, <1>3, <2>2 DEF StartInv, BenchWork
  <2>4. Wrote
    BY <1>3, <2>3 DEF Wrote, Asked
  <2>. QED BY <1>2, <2>3, <2>4
<1>4. CASE session.program # "dbg_test_init"
  <2>1. Len(Accesses(req)) = 8
    BY <1>2, <1>4, PortList
  <2>2. k = 9
    BY <1>2, <2>1
  <2>3. active /\ cmderr = "none" /\ writes = << >>
    BY <1>1, <1>2, <1>4, <2>2 DEF StartInv, PortWork
  <2>4. Wrote
    BY <1>4, <2>3, NothingAsked DEF Wrote
  <2>. QED BY <1>2, <2>3, <2>4
<1>. QED BY <1>3, <1>4

LEMMA LinkStep ==
  ASSUME CleanStarts, TypeOK, AutoInv, WriteInv, StartInv, LinkInv, [Next]_vars
  PROVE  LinkInv'
<1>1. ASSUME NEW r \in Calls, Call(r) PROVE LinkInv'
  <2>1. /\ cut' => auto /\ pc = "idle"
        /\ pc' = "call" /\ UNCHANGED <<link, session>>
    BY <1>1 DEF Call
  <2>. QED BY <2>1 DEF LinkInv, StartedInOrder, Returned
<1>2. CASE Access
  <2>1. UNCHANGED <<session, cut>> /\ pc' = "call"
    BY <1>2 DEF Access
  <2>. QED BY <1>2, <2>1, BenchResets DEF LinkInv, StartedInOrder, Returned
<1>3. CASE AccessFails
  BY <1>3 DEF AccessFails, LinkInv, StartedInOrder, Returned
<1>4. CASE Restart
  BY <1>4 DEF Restart, LinkInv, StartedInOrder, Returned
<1>5. CASE Return
  <2>1. UNCHANGED <<dm, session, req, link, cut>>
    BY <1>5 DEF Return
  <2>2. Wrote' = Wrote /\ Settled' = Settled
    BY <2>1, SameAsked DEF Wrote, Settled, Busy, dm
  <2>3. StartedInOrder'
    BY <1>5, <2>1, <2>2, EndsStarted DEF StartedInOrder, dm
  <2>4. auto' => auto /\ cut
    <3>1. auto' = auto
      BY <2>1 DEF dm
    <3>2. ~(k \in 5 .. Len(Accesses(req))) /\ pc = "call"
      <4>1. Len(Accesses(req)) \in Nat
        BY <1>5, ListsTyped DEF Return, TypeOK
      <4>. QED BY <1>5, <4>1 DEF Return, TypeOK
    <3>. QED BY <3>1, <3>2 DEF AutoInv
  <2>. QED BY <2>1, <2>3, <2>4 DEF LinkInv
<1>6. CASE Hart
  <2>1. UNCHANGED <<session, pc, ret, req, link, cut, auto>>
    BY <1>6, HartSteps DEF Hart, TypeOK
  <2>2. ~(Returned("ok") /\ req.f = "dbg_test_init" /\ link = "up")
    BY <1>6, HartRests DEF LinkInv, StartedInOrder
  <2>. QED BY <2>1, <2>2 DEF LinkInv, StartedInOrder, Returned
<1>7. CASE UNCHANGED vars
  <2>1. UNCHANGED <<dm, session, pc, ret, req, link, cut>>
    BY <1>7 DEF vars, driver
  <2>2. Wrote' = Wrote /\ Settled' = Settled
    BY <2>1, SameAsked DEF Wrote, Settled, Busy, dm
  <2>. QED BY <2>1, <2>2 DEF LinkInv, StartedInOrder, Returned, dm
<1>. QED BY <1>1, <1>2, <1>3, <1>4, <1>5, <1>6, <1>7 DEF Next

\* Whatever an earlier life of the program left in the Debug Module, autoexec
\* and a pending error among it, a start-up over a link that works leaves it
\* active, at rest and without an error, and the bench has written its word.
THEOREM StartedInOrderHolds ==
  ASSUME NoSlowBulk, CleanStarts
  PROVE  Spec => []StartedInOrder
<1>1. Init => LinkInv
  BY DEF Init, DmInit, LinkInv, StartedInOrder, Returned
<1>2. TypeOK /\ AutoInv /\ WriteInv /\ StartInv /\ LinkInv /\ [Next]_vars => LinkInv'
  BY LinkStep
<1>3. LinkInv => StartedInOrder
  BY DEF LinkInv
<1>. QED
  BY <1>1, <1>2, <1>3, TypeCorrect, AutoInvHolds, WriteInvHolds, StartInvHolds, PTL
  DEF Spec
=============================================================================
