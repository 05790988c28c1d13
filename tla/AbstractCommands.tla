--------------------------- MODULE AbstractCommands ---------------------------
(***************************************************************************)
(* The abstract command block of the Debug Module and the hart behind it,  *)
(* as the access functions of jtag_function.c and dbg_test_init.c use them *)
(* (halting, DATA0, DATA1, COMMAND, ABSTRACTAUTO, the program buffer).     *)
(* The hardware is not in the repository; this is the RISC-V Debug         *)
(* Specification 0.13, chapter 3, restricted to the commands the code      *)
(* issues.  Addresses and words are numbers, because the same registers    *)
(* carry both; an address counts words.                                    *)
(***************************************************************************)
EXTENDS Naturals, Sequences

CONSTANTS Mapped,      \* addresses with memory behind, a set of numbers
          Unmapped,    \* addresses without
          Words,       \* what a cell or a register holds, a set of numbers
          None

VARIABLES active,      \* dmcontrol.dmactive; while it is off the block is in reset
          halted,      \* the hart is in debug mode
          asked,       \* "halt" or "resume" requested and not yet honoured
          cmderr,      \* sticky until written
          running,     \* the command that executes
          command,     \* the COMMAND register, which autoexec runs again
          auto,        \* ABSTRACTAUTO.autoexecdata[0]
          data0, data1,
          progbuf,     \* the two words of the program buffer
          regs,        \* registers s0 and s1 of the hart
          mem,
          writes       \* history: the memory writes of commands, in order

dm == <<active, halted, asked, cmderr, running, command, auto, data0, data1, progbuf,
        regs, mem, writes>>

\* Access Register writes or reads a register, or leaves the registers alone,
\* and may run the program buffer after it; Access Memory uses the address in
\* DATA1 and may increment it.
RegCommands == [type : {"reg"}, transfer : {"read", "write", "no"},
                reg : {"s0", "s1"}, postexec : BOOLEAN]
MemCommands == [type : {"mem"}, write : BOOLEAN, inc : BOOLEAN]

\* A command of a width this hart does not have.
Unsupported == [type |-> "unsupported"]
Commands == RegCommands \cup MemCommands \cup {Unsupported}

Addrs == Mapped \cup Unmapped

\* What a register or a cell can hold.
Values == {0} \cup Words \cup Addrs \cup {a + 1 : a \in Mapped}

\* ebreak; lw s0,0(s0); sw s1,0(s0); addi s0,s1,0; addi s1,s0,0.
Instructions == {"ebreak", "lw_s0_s0", "sw_s1_s0", "addi_s0_s1", "addi_s1_s0"}

DmTypeOK ==
  /\ active \in BOOLEAN /\ halted \in BOOLEAN
  /\ asked \in {"nothing", "halt", "resume"}
  /\ cmderr \in {"none", "busy", "exception", "haltresume", "notsup"}
  /\ running \in Commands \cup {None}
  /\ command \in Commands \cup {None}
  /\ auto \in BOOLEAN
  /\ data0 \in Values /\ data1 \in Values
  /\ progbuf \in [{0, 1} -> Instructions]
  /\ regs \in [{"s0", "s1"} -> Values]
  /\ mem \in [Mapped -> Values]

DmInit ==
  /\ active \in BOOLEAN /\ halted = FALSE /\ asked = "nothing"
  /\ cmderr = "none" /\ running = None /\ command = None /\ auto = FALSE
  /\ data0 = 0 /\ data1 = 0
  /\ progbuf = [i \in {0, 1} |-> "ebreak"]
  /\ regs = [r \in {"s0", "s1"} |-> 0]
  /\ mem \in [Mapped -> Words]
  /\ writes = << >>

Busy == running # None
Settled == ~Busy /\ asked = "nothing"

-------------------------------------------------------------------------------
(* Accesses over the DMI                                                   *)

\* While a command runs the registers of this block are out of reach.
WhileBusy ==
  /\ Busy
  /\ cmderr' = IF cmderr = "none" THEN "busy" ELSE cmderr
  /\ UNCHANGED <<halted, asked, running, command, auto, data0, data1, progbuf,
                 regs, mem, writes>>

\* An access to DATA0 runs the last command again when autoexec is on.
Autoexec ==
  running' = IF auto /\ cmderr = "none" THEN command ELSE running

WriteData0(w) ==
  \/ WhileBusy
  \/ /\ ~Busy
     /\ data0' = w
     /\ Autoexec
     /\ UNCHANGED <<halted, asked, cmderr, command, auto, data1, progbuf, regs,
                    mem, writes>>

WriteData1(w) ==
  \/ WhileBusy
  \/ /\ ~Busy
     /\ data1' = w
     /\ UNCHANGED <<halted, asked, cmderr, running, command, auto, data0,
                    progbuf, regs, mem, writes>>

ReadData0 ==
  \/ WhileBusy
  \/ /\ ~Busy
     /\ Autoexec
     /\ UNCHANGED <<halted, asked, cmderr, command, auto, data0, data1, progbuf,
                    regs, mem, writes>>

\* A command is refused without a word once cmderr is set.
WriteCommand(c) ==
  \/ WhileBusy
  \/ /\ ~Busy
     /\ IF cmderr = "none" THEN command' = c /\ running' = c
                           ELSE UNCHANGED <<command, running>>
     /\ UNCHANGED <<halted, asked, cmderr, auto, data0, data1, progbuf, regs,
                    mem, writes>>

WriteAbstractauto(b) ==
  \/ WhileBusy
  \/ /\ ~Busy
     /\ auto' = b
     /\ UNCHANGED <<halted, asked, cmderr, running, command, data0, data1,
                    progbuf, regs, mem, writes>>

WriteProgbuf(i, instruction) ==
  \/ WhileBusy
  \/ /\ ~Busy
     /\ progbuf' = [progbuf EXCEPT ![i] = instruction]
     /\ UNCHANGED <<halted, asked, cmderr, running, command, auto, data0, data1,
                    regs, mem, writes>>

WriteCmderr ==
  \/ WhileBusy
  \/ /\ ~Busy
     /\ cmderr' = "none"
     /\ UNCHANGED <<halted, asked, running, command, auto, data0, data1, progbuf,
                    regs, mem, writes>>

\* halt_cpu writes back dmactive as it read it, resume_cpu and enable_dmi set
\* it.  A write without haltreq may cancel a halt nobody has honoured yet;
\* with dmactive off no request is taken.
WriteDmcontrol(request) ==
  /\ active' = (active \/ request # "halt")
  /\ asked' \in IF ~active THEN {asked}
                ELSE IF request # "enable" THEN {request}
                ELSE IF asked = "halt" THEN {asked, "nothing"} ELSE {asked}
  /\ UNCHANGED <<halted, cmderr, running, command, auto, data0, data1, progbuf,
                 regs, mem, writes>>

ReadRegister == UNCHANGED dm

\* The reset pin: the hart starts again, and the Debug Module with it or not.
ResetChip ==
  /\ halted' = FALSE
  /\ regs' = [r \in {"s0", "s1"} |-> 0]
  /\ running' = None
  /\ \/ /\ active' = FALSE /\ asked' = "nothing" /\ cmderr' = "none" /\ command' = None
        /\ auto' = FALSE /\ data0' = 0 /\ data1' = 0
        /\ progbuf' = [i \in {0, 1} |-> "ebreak"]
     \/ /\ cmderr' \in {cmderr} \cup (IF Busy /\ cmderr = "none" THEN {"exception"} ELSE {})
        /\ UNCHANGED <<active, asked, command, auto, data0, data1, progbuf>>
  /\ UNCHANGED <<mem, writes>>

-------------------------------------------------------------------------------
(* The hart                                                                *)

HartHonours ==
  /\ asked # "nothing"
  /\ halted' = (asked = "halt")
  /\ asked' = "nothing"
  /\ UNCHANGED <<cmderr, running, command, auto, data0, data1, progbuf, regs,
                 mem, writes>>

CommandError(e) ==
  /\ running' = None
  /\ cmderr' = IF cmderr = "none" THEN e ELSE cmderr
  /\ UNCHANGED <<halted, asked, command, auto, progbuf, data0, data1, mem, writes>>

\* The register file after the transfer of a register command.
Transferred(c) == IF c.transfer = "write" THEN [regs EXCEPT ![c.reg] = data0] ELSE regs

RunProgram(r) ==
  CASE progbuf[0] = "lw_s0_s0" /\ r["s0"] \in Mapped ->
         /\ regs' = [r EXCEPT !["s0"] = mem[r["s0"]]]
         /\ running' = None
         /\ UNCHANGED <<mem, writes, cmderr>>
    [] progbuf[0] = "sw_s1_s0" /\ r["s0"] \in Mapped ->
         /\ mem' = [mem EXCEPT ![r["s0"]] = r["s1"]]
         /\ writes' = Append(writes, <<r["s0"], r["s1"]>>)
         /\ regs' = r /\ running' = None
         /\ UNCHANGED cmderr
    [] progbuf[0] \in {"ebreak", "addi_s0_s1", "addi_s1_s0"} ->
         /\ regs' = CASE progbuf[0] = "addi_s0_s1" -> [r EXCEPT !["s0"] = r["s1"]]
                      [] progbuf[0] = "addi_s1_s0" -> [r EXCEPT !["s1"] = r["s0"]]
                      [] OTHER -> r
         /\ running' = None
         /\ UNCHANGED <<mem, writes, cmderr>>
    [] OTHER ->
         /\ regs' = r /\ running' = None
         /\ cmderr' = IF cmderr = "none" THEN "exception" ELSE cmderr
         /\ UNCHANGED <<mem, writes>>

AccessRegister ==
  /\ Busy /\ running.type = "reg"
  /\ IF ~halted THEN CommandError("haltresume") /\ UNCHANGED regs
     ELSE /\ data0' = IF running.transfer = "read" THEN regs[running.reg] ELSE data0
          /\ IF running.postexec
             THEN RunProgram(Transferred(running))
             ELSE /\ regs' = Transferred(running) /\ running' = None
                  /\ UNCHANGED <<mem, writes, cmderr>>
          /\ UNCHANGED <<halted, asked, command, auto, data1, progbuf>>

Refuse ==
  /\ Busy /\ running = Unsupported
  /\ CommandError("notsup")
  /\ UNCHANGED regs

AccessMemory ==
  /\ Busy /\ running.type = "mem"
  /\ IF ~halted THEN CommandError("haltresume")
     ELSE IF data1 \notin Mapped THEN CommandError("exception")
     ELSE /\ IF running.write
             THEN /\ mem' = [mem EXCEPT ![data1] = data0]
                  /\ writes' = Append(writes, <<data1, data0>>)
                  /\ UNCHANGED data0
             ELSE data0' = mem[data1] /\ UNCHANGED <<mem, writes>>
          /\ data1' = IF running.inc THEN data1 + 1 ELSE data1
          /\ running' = None
          /\ UNCHANGED <<halted, asked, cmderr, command, auto, progbuf>>
  /\ UNCHANGED regs
===============================================================================
