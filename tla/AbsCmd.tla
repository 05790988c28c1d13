-------------------------------- MODULE AbsCmd --------------------------------
(***************************************************************************)
(* The functions that go through abstract commands: halt_cpu, resume_cpu,  *)
(* clear_cmderr, the register accesses, the memory accesses through Access *)
(* Memory commands and through the program buffer, and the bulk write.     *)
(* jtag_function.c and dbg_test_init.c agree on their accesses; but in the *)
(* latter three functions end without a return statement, and only it has  *)
(* the register accesses through the program buffer.                       *)
(*                                                                         *)
(* Each function is straight code: a list of DMI accesses, every error     *)
(* returned at once.  A call is its list and a position in it.  None of    *)
(* the functions looks at ABSTRACTCS or DMSTATUS.                          *)
(***************************************************************************)
EXTENDS AbstractCommands

CONSTANTS Sessions,     \* which program, the functions and addresses its caller uses
          MaxLen,       \* the longest bulk write
          LedAddr, LedWord   \* what the dbg_test_code of the test bench writes

\* What jtag_read_sensor_data and jtag_write_sensor_data call.
TableFunctions == {"read_memory_abs", "write_memory_abs", "read_register", "write_register"}

ASSUME AbsCmdAssumption ==
  /\ Mapped \subseteq Nat /\ Unmapped \subseteq Nat /\ Words \subseteq Nat
  /\ Mapped \cap Unmapped = {}
  /\ MaxLen \in Nat \ {0}
  /\ LedAddr \in Mapped /\ LedWord \in Words
  /\ \A s \in Sessions :
       /\ s.program \in {"jtag_function", "dbg_test_init", "sensor_table"}
       /\ {s.slow, s.faults, s.crashes} \subseteq BOOLEAN

\* slow: the hart may take longer than the next access; faults: an access to
\* a debug register may fail; crashes: the program may start again at any time.
VARIABLES session,   \* one of them, for good
          started,   \* dbg_test_init has run
          pc,        \* "idle" or "call"
          req,       \* the function and its arguments
          k,         \* the next access of its list
          ret,
          out,       \* *data
          link,      \* whether the DTM still carries out accesses
          ready,     \* history: the call found the hart halted, no cmderr,
                     \* no autoexec
          cut,       \* history: a bulk write before this call was cut short,
                     \* and left autoexec on for it
          issuer     \* history: the call that started the running command

driver == <<session, started, pc, req, k, ret, out, link, ready, cut, issuer>>
vars   == <<dm, driver>>

NoArgs   == [f : {"halt_cpu", "resume_cpu", "clear_cmderr", "dbg_test_init"}]
RegCalls == [f : {"read_register"}, reg : {"s0", "s1"}]
              \cup [f : {"write_register"}, reg : {"s0", "s1"}, data : Words]
              \cup [f : {"read_xpr_buf"}, reg : {"s1"}]
              \cup [f : {"write_xpr_buf"}, reg : {"s1"}, data : Words]
MemCalls == [f : {"read_memory_abs", "read_memory_buf"}, addr : Addrs]
              \cup [f : {"write_memory_abs", "write_memory_buf"}, addr : Addrs, data : Words]
BulkCalls == [f : {"write_memory_bulk"}, addr : Addrs,
              data : UNION {[1 .. n -> Words] : n \in 1 .. MaxLen}]

Calls == NoArgs \cup RegCalls \cup MemCalls \cup BulkCalls

ASSUME NoneAssumption == None \notin Commands \cup Calls

-------------------------------------------------------------------------------
(* The functions                                                           *)

Wr(r, v) == [reg |-> r, val |-> v]
Rd(r)    == [reg |-> r]

RegCommand(t, r, p) == [type |-> "reg", transfer |-> t, reg |-> r, postexec |-> p]
MemCommand(w, i)    == [type |-> "mem", write |-> w, inc |-> i]

HaltCpu     == << Rd("dmcontrol?"), Wr("dmcontrol", "halt") >>
ResumeCpu   == << Rd("dmcontrol?"), Wr("dmcontrol", "resume") >>
ClearCmderr == << Rd("cmderr") >>

ReadRegisterUsingAbsCmd(r) ==
  << Wr("command", RegCommand("read", r, FALSE)), Rd("data0?") >>

WriteRegisterUsingAbsCmd(r, w) ==
  << Wr("data0", w), Wr("command", RegCommand("write", r, FALSE)) >>

\* Mutant: the last command does not run the program.
WriteXprUsingPrgBufOnce(w) ==
  << Wr("data0", w),
     Wr("progbuf0", "addi_s1_s0"), Wr("progbuf1", "ebreak"),
     Wr("command", RegCommand("no", "s0", TRUE)),
     Wr("command", RegCommand("write", "s0", FALSE)) >>

\* read_xpr and write_xpr through the program buffer, for a register that is
\* not s0: s0 is overwritten.  The write runs addi s1,s0,0 twice, and only
\* the second time does s0 hold the word.
ReadXprUsingPrgBuf ==
  << Wr("progbuf0", "addi_s0_s1"), Wr("progbuf1", "ebreak"),
     Wr("command", RegCommand("no", "s0", TRUE)),
     Wr("command", RegCommand("read", "s1", FALSE)), Rd("data0?") >>

WriteXprUsingPrgBuf(w) ==
  << Wr("data0", w),
     Wr("progbuf0", "addi_s1_s0"), Wr("progbuf1", "ebreak"),
     Wr("command", RegCommand("no", "s0", TRUE)),
     Wr("command", RegCommand("write", "s0", TRUE)) >>

\* s0 is the address, then the word; what it held is lost.
ReadMemoryUsingPrgBuf(a) ==
  << Wr("progbuf0", "lw_s0_s0"), Wr("progbuf1", "ebreak"),
     Wr("data0", a),
     Wr("command", RegCommand("write", "s0", TRUE)),
     Wr("command", RegCommand("read", "s0", FALSE)),
     Rd("data0?") >>

ReadMemoryUsingAbsCmd(a) ==
  << Wr("data1", a), Wr("command", MemCommand(FALSE, FALSE)), Rd("data0?") >>

\* Mutant: the program runs with the command that sets s0.
WriteMemoryUsingPrgBufEarly(a, w) ==
  << Wr("progbuf0", "sw_s1_s0"), Wr("progbuf1", "ebreak"),
     Wr("data0", a), Wr("command", RegCommand("write", "s0", TRUE)),
     Wr("data0", w), Wr("command", RegCommand("write", "s1", FALSE)) >>

WriteMemoryUsingPrgBuf(a, w) ==
  << Wr("progbuf0", "sw_s1_s0"), Wr("progbuf1", "ebreak"),
     Wr("data0", a), Wr("command", RegCommand("write", "s0", FALSE)),
     Wr("data0", w), Wr("command", RegCommand("write", "s1", TRUE)) >>

\* Mutant: an old error is cleared just before the command.
WriteMemoryUsingAbsCmdClearing(a, w) ==
  << Wr("data1", a), Wr("data0", w), Rd("cmderr"),
     Wr("command", MemCommand(TRUE, FALSE)) >>

WriteMemoryUsingAbsCmd(a, w) ==
  << Wr("data1", a), Wr("data0", w), Wr("command", MemCommand(TRUE, FALSE)) >>

\* Mutant: autoexec stays on.
WriteMemoryBulkAutoOn(a, ws) ==
  << Wr("data1", a), Wr("data0", ws[1]),
     Wr("command", MemCommand(TRUE, TRUE)), Wr("abstractauto", TRUE) >>
    \o [i \in 1 .. Len(ws) - 1 |-> Wr("data0", ws[i + 1])]

\* The command writes the first word; each later write of DATA0 runs it
\* again at the incremented address.
WriteMemoryBulkAbsCmd(a, ws) ==
  << Wr("data1", a), Wr("data0", ws[1]),
     Wr("command", MemCommand(TRUE, TRUE)), Wr("abstractauto", TRUE) >>
    \o [i \in 1 .. Len(ws) - 1 |-> Wr("data0", ws[i + 1])]
    \o << Wr("abstractauto", FALSE) >>

EnableDmi == << Rd("dmcontrol?"), Wr("dmcontrol", "enable") >>

\* The reset pin goes low before the test key and high after it.
StartJtagTask == << Wr("reset", "pulse") >>

\* Its dbg_test_code only reads a word over the system bus.
PortInit ==
  StartJtagTask \o EnableDmi
    \o << Rd("dmcontrol?"), Rd("command?"), Wr("command", Unsupported),
          Rd("command?"), Rd("cmderr") >>

\* Its dbg_test_code, after three accesses over the system bus, halts the hart
\* and writes at once.
BenchInit ==
  EnableDmi \o << Wr("command", Unsupported), Rd("cmderr") >>
    \o HaltCpu \o WriteMemoryUsingAbsCmd(LedAddr, LedWord)

\* Mutant: the error of the trial command is cleared before it is made.
DbgTestInitClearsFirst(program) ==
  StartJtagTask \o EnableDmi
    \o << Rd("dmcontrol?"), Rd("command?"), Rd("cmderr"), Wr("command", Unsupported),
          Rd("command?") >>

\* The trial command asks for 64 bits of s0 and leaves an error, which is
\* cleared.
DbgTestInit(program) == IF program = "dbg_test_init" THEN BenchInit ELSE PortInit

\* read_memory, write_memory, read_csr, write_csr dispatch on the mode.
Accesses(r) ==
  CASE r.f = "halt_cpu"          -> HaltCpu
    [] r.f = "dbg_test_init"     -> DbgTestInit(session.program)
    [] r.f = "resume_cpu"        -> ResumeCpu
    [] r.f = "clear_cmderr"      -> ClearCmderr
    [] r.f = "read_register"     -> ReadRegisterUsingAbsCmd(r.reg)
    [] r.f = "write_register"    -> WriteRegisterUsingAbsCmd(r.reg, r.data)
    [] r.f = "read_xpr_buf"      -> ReadXprUsingPrgBuf
    [] r.f = "write_xpr_buf"     -> WriteXprUsingPrgBuf(r.data)
    [] r.f = "read_memory_abs"   -> ReadMemoryUsingAbsCmd(r.addr)
    [] r.f = "read_memory_buf"   -> ReadMemoryUsingPrgBuf(r.addr)
    [] r.f = "write_memory_abs"  -> WriteMemoryUsingAbsCmd(r.addr, r.data)
    [] r.f = "write_memory_buf"  -> WriteMemoryUsingPrgBuf(r.addr, r.data)
    [] r.f = "write_memory_bulk" -> WriteMemoryBulkAbsCmd(r.addr, r.data)

-------------------------------------------------------------------------------
(* One access                                                              *)

Control == {"reset", "dmcontrol", "dmcontrol?"}

Perform(o) ==
  \/ o.reg = "reset" /\ ResetChip
  \/ o.reg = "dmcontrol" /\ WriteDmcontrol(o.val)
  \/ o.reg \in {"dmcontrol?", "command?"} /\ ReadRegister
  \/ ~active /\ o.reg \notin Control /\ UNCHANGED dm
  \/ /\ active /\ UNCHANGED active
     /\ \/ o.reg = "data0" /\ WriteData0(o.val)
        \/ o.reg = "data1" /\ WriteData1(o.val)
        \/ o.reg = "data0?" /\ ReadData0
        \/ o.reg = "command" /\ WriteCommand(o.val)
        \/ o.reg = "abstractauto" /\ WriteAbstractauto(o.val)
        \/ o.reg = "progbuf0" /\ WriteProgbuf(0, o.val)
        \/ o.reg = "progbuf1" /\ WriteProgbuf(1, o.val)
        \/ o.reg = "cmderr" /\ WriteCmderr

\* The hart is done with what it was told before the next access reaches it.
InTime == session.slow \/ Settled

\* Mutant: the first access of the list is left out of the count.
CallFromZero(r) ==
  /\ pc = "idle" /\ InTime
  /\ pc' = "call" /\ req' = r /\ k' = 0
  /\ ret' = "none" /\ out' = None /\ ready' = FALSE /\ writes' = << >>
  /\ UNCHANGED <<session, link, issuer, started, cut, active, halted, asked, cmderr,
                 running, command, auto, data0, data1, progbuf, regs, mem>>

\* Between calls the history starts afresh.
Call(r) ==
  /\ pc = "idle"
  /\ r.f \in session.functions
  /\ "addr" \in DOMAIN r => r.addr \in session.addrs
  /\ started \/ r.f = "dbg_test_init"
  /\ InTime
  /\ pc' = "call" /\ req' = r /\ k' = 1
  /\ ret' = "none" /\ out' = None
  /\ cut' = (auto /\ (cut \/ (req.f = "write_memory_bulk" /\ ret # "ok")))
  /\ ready' = (active /\ halted /\ cmderr = "none" /\ Settled /\ link = "up" /\ ~cut')
  /\ writes' = << >>
  /\ UNCHANGED <<session, started, link, issuer, active, halted, asked, cmderr, running,
                 command, auto, data0, data1, progbuf, regs, mem>>

NoteIssuer == issuer' = IF ~Busy /\ running' # None THEN req ELSE issuer

\* Over a link that works; or the reset pin, which may bring the link back.
Access ==
  /\ pc = "call" /\ k <= Len(Accesses(req))
  /\ InTime
  /\ LET o == Accesses(req)[k] IN
       /\ link = "up" \/ o.reg = "reset"
       /\ link' \in {link} \cup (IF o.reg = "reset" THEN {"up"} ELSE {})
       /\ Perform(o)
       /\ out' = IF o.reg = "data0?" THEN data0 ELSE out
       /\ NoteIssuer
  /\ k' = k + 1
  /\ UNCHANGED <<session, started, pc, req, ret, ready, cut>>

\* In dbg_test_init.c the memory writes run off their end ...
RunsOffTheEnd ==
  /\ session.program = "dbg_test_init"
  /\ req.f \in {"write_memory_abs", "write_memory_buf", "write_memory_bulk"}

\* ... and the functions of the sensor table return a variable they have not
\* set: what the caller gets is left to the compiler.
LeavesUnset == session.program = "sensor_table" /\ req.f \in TableFunctions

NoReturnValue == RunsOffTheEnd \/ LeavesUnset

\* dbg_test_init goes on after any error, but for the test bench, which stops
\* when the trial command cannot be sent.
GoesOn == req.f = "dbg_test_init" /\ (session.program = "jtag_function" \/ k > 3)

\* The access fails, done or not, and with it every access after it: the
\* status of the DTM is sticky.  The function returns the error.
AccessFails ==
  /\ pc = "call" /\ k <= Len(Accesses(req))
  /\ InTime
  /\ Accesses(req)[k].reg # "reset"
  /\ \/ session.faults /\ link = "up" /\ (Perform(Accesses(req)[k]) \/ UNCHANGED dm)
     \/ link = "down" /\ UNCHANGED dm
  /\ NoteIssuer
  /\ link' = "down"
  /\ IF GoesOn THEN k' = k + 1 /\ UNCHANGED <<pc, ret>>
     ELSE /\ pc' = "idle" /\ k' = 1
          /\ ret' \in IF LeavesUnset THEN {"ok", "error"} ELSE {"error"}
  /\ UNCHANGED <<session, started, req, out, ready, cut>>

Return ==
  /\ pc = "call" /\ k > Len(Accesses(req))
  /\ InTime
  /\ pc' = "idle" /\ k' = 1
  /\ ret' \in IF NoReturnValue THEN {"ok", "error"} ELSE {"ok"}
  /\ started' = TRUE
  /\ UNCHANGED <<dm, session, req, out, link, ready, cut, issuer>>

\* The program is reset in the middle of whatever it does.  The Debug Module
\* and the hart know nothing of it; what the program knew is gone.
Restart ==
  /\ session.crashes /\ started
  /\ started' = FALSE
  /\ pc' = "idle" /\ k' = 1
  /\ ret' = "none" /\ out' = None
  /\ UNCHANGED <<dm, session, req, link, ready, cut, issuer>>

Init ==
  /\ DmInit
  /\ session \in Sessions
  /\ pc = "idle" /\ req = [f |-> "halt_cpu"] /\ k = 1
  /\ ret = "none" /\ out = None
  /\ link = "up" /\ ready = FALSE /\ cut = FALSE /\ issuer = None
  /\ started = ("dbg_test_init" \notin session.functions)
  /\ active = started

Hart ==
  /\ HartHonours \/ AccessRegister \/ AccessMemory \/ Refuse
  /\ UNCHANGED active
  /\ issuer' = IF running' = None THEN None ELSE issuer
  /\ UNCHANGED <<session, started, pc, req, k, ret, out, link, ready, cut>>

Next ==
  \/ \E r \in Calls : Call(r)
  \/ Access \/ AccessFails \/ Return \/ Restart
  \/ Hart

Spec == Init /\ [][Next]_vars

-------------------------------------------------------------------------------
(* Properties                                                              *)

TypeOK ==
  /\ DmTypeOK
  /\ session \in Sessions
  /\ pc \in {"idle", "call"}
  /\ req \in Calls
  /\ k \in 1 .. Len(Accesses(req)) + 1
  /\ ret \in {"none", "ok", "error"}
  /\ out \in Values \cup {None}
  /\ link \in {"up", "down"}
  /\ {started, ready, cut} \subseteq BOOLEAN
  /\ issuer \in Calls \cup {None}

\* The memory writes a call asks for, in order.
Asked(r) ==
  IF r.f = "dbg_test_init" /\ session.program = "dbg_test_init"
  THEN << <<LedAddr, LedWord>> >>
  ELSE IF r.f \in {"write_memory_abs", "write_memory_buf"} THEN << <<r.addr, r.data>> >>
  ELSE IF r.f = "write_memory_bulk"
  THEN [i \in 1 .. Len(r.data) |-> <<r.addr + i - 1, r.data[i]>>]
  ELSE << >>

\* The addresses a call names all exist.
Exists(r) ==
  /\ \A i \in 1 .. Len(Asked(r)) : Asked(r)[i][1] \in Mapped
  /\ r.f \in {"read_memory_abs", "read_memory_buf"} => r.addr \in Mapped

Returned(code) == pc = "idle" /\ ret = code

Wrote == writes = Asked(req)
RightWord ==
  /\ req.f \in {"read_memory_abs", "read_memory_buf"} => out = mem[req.addr]
  /\ req.f \in {"read_register", "read_xpr_buf"} => out = regs[req.reg]
  /\ req.f \in {"write_register", "write_xpr_buf"} => regs[req.reg] = req.data

\* Whatever the functions without a return value give back.
Finished == Returned("ok") \/ Returned("error")

\* When a call returns that found the hart halted, no old error and autoexec
\* off, over a link that works and with a hart that keeps up, then exactly the
\* memory writes it asks for have happened, in order, each once, a read hands
\* out the word that is there, and a register holds the word it got.  The
\* return value adds nothing to that: it may be one that nobody set.
WorkDone ==
  Finished /\ ready /\ Exists(req) /\ link = "up" /\ ~session.slow
    => Wrote /\ RightWord

\* Whatever the state of the hart, and however the call ends, commands
\* write to memory only what the call in progress asks for, in its order:
\* no leftover of DATA0, DATA1, s0, the program buffer or the command
\* register.  Only a bulk write that was cut short, by an error or a restart
\* of the program, can bring the next calls to write elsewhere.
OnlyAsked ==
  ~cut /\ ~session.slow =>
    /\ Len(writes) <= Len(Asked(req))
    /\ \A i \in 1 .. Len(writes) : writes[i] = Asked(req)[i]

\* A hart that is slower than the link makes a call return before its
\* command has run, so that the next one comes in the middle of it.  Then
\* accesses are lost, but none goes astray: what a command writes to memory
\* is what the call that started it asked for.
NoneAstray ==
  [][Len(writes') > Len(writes) /\ ~cut =>
       /\ issuer # None
       /\ \E i \in DOMAIN Asked(issuer) : Asked(issuer)[i] = writes'[Len(writes')]]_vars

\* No call that returns 0 leaves autoexec on, where the next access to DATA0
\* would run the command of the bulk write again, unless it found it on.
AutoexecOff == Returned("ok") /\ ~cut => ~auto

\* Whatever state an earlier life of the program left the Debug Module in,
\* dbg_test_init over a link that works leaves it active, at rest and without
\* an error, so that the calls after it begin in order; and the test bench
\* has written the word it ends with.
StartedInOrder ==
  Returned("ok") /\ req.f = "dbg_test_init" /\ link = "up" =>
    active /\ Settled /\ cmderr = "none" /\ Wrote

\* An error over a link that works is not returned by a call whose memory
\* writes have all happened.
ErrorsAreReal ==
  Returned("error") /\ link = "up" /\ Asked(req) # << >> => ~Wrote

\* 0 means no error: the writes asked for have happened.
ErrorsReported == Returned("ok") /\ Exists(req) => Wrote
===============================================================================
