-------------------------------- MODULE SysBus --------------------------------
(***************************************************************************)
(* read_memory_using_sys_bus and write_memory_using_sys_bus: one caller,   *)
(* one call at a time, one action per DMI access the functions make.       *)
(*                                                                         *)
(* The repository holds two programs: JTAG-C/jtag_function.c, whose read   *)
(* looks at no error before the polls, and JTAG-SV/dbg_test_init.c, which  *)
(* returns at the first one.                                               *)
(*                                                                         *)
(* Every access is one call of read_dm_register or write_dm_register and   *)
(* comes out in one of three ways: answered (error = 0), failed with the   *)
(* register access done all the same or not done, or refused because the   *)
(* link reports an earlier failure (the status of the DTM is sticky and no *)
(* code in the repository resets it).                                      *)
(***************************************************************************)
EXTENDS SystemBusMaster, Naturals

CONSTANTS Sizes,        \* the access sizes callers ask for
          PollLimit,    \* the polls of SBCS a call makes
          SlowBus,      \* a transfer may outlast every poll of its call
          DmiFaults,    \* an access to a debug register may fail
          StickyLink,   \* after a failed access every later one is refused
          Programs      \* which of the two programs runs

ASSUME PollAssumption == PollLimit \in Nat \ {0}

ASSUME RegimeAssumption ==
  /\ SlowBus \in BOOLEAN
  /\ DmiFaults \in BOOLEAN
  /\ StickyLink \in BOOLEAN
  /\ Programs \subseteq {"jtag_function", "dbg_test_init"}

ASSUME SizeAssumption ==
  /\ ResetSize \in SUBSET SizeBits
  /\ Sizes \in SUBSET SUBSET SizeBits

\* NoCall and NoWord are no values of the program; Mapped and Unmapped are
\* disjoint by definition of the second.
ASSUME SentinelAssumption ==
  /\ NoCall \notin Transfers
  /\ NoWord \notin Words
  /\ Mapped \cap Unmapped = {}

VARIABLES program,   \* which one runs, for good
          pc,        \* the access the call makes next
          req,       \* the arguments of the call
          rdata,     \* r_data
          polls,     \* i
          ret,       \* what the last call returned
          out,       \* *data
          link,      \* whether the DTM still carries out accesses
          progress,  \* history: what became of the transfer of the call
          seen       \* history: the word the bus returned to the call

driver == <<program, pc, req, rdata, polls, ret, out, link>>
ghost  == <<progress, seen>>
vars   == <<bus, driver, ghost>>

Requests == [op : {"read"}, addr : Addrs, data : {NoWord}, size : Sizes]
              \cup [op : {"write"}, addr : Addrs, data : Words, size : Sizes]

ReadPcs  == {"rd_getcs", "rd_setcs", "rd_addr", "rd_poll", "rd_data", "rd_clear"}
WritePcs == {"wr_getcs", "wr_setcs", "wr_addr", "wr_data", "wr_poll", "wr_clear"}

TypeOK ==
  /\ BusTypeOK
  /\ program \in Programs
  /\ pc \in {"idle"} \cup ReadPcs \cup WritePcs
  /\ req \in Requests
  /\ pc \in ReadPcs => req.op = "read"
  /\ pc \in WritePcs => req.op = "write"
  /\ rdata \in SUBSET SbcsBits
  /\ polls \in 0 .. PollLimit - 1
  /\ ret \in {"none", "ok", "error", "timeout"}
  /\ out \in Words \cup {NoWord}
  /\ link \in {"up", "down"}
  /\ progress \in {"none", "started", "taken", "failed"}
  /\ seen \in Words \cup {NoWord}

Init ==
  /\ BusInit
  /\ program \in Programs
  /\ pc = "idle" /\ req \in Requests
  /\ rdata = {} /\ polls = 0 /\ ret = "none" /\ out = NoWord
  /\ link = "up"
  /\ progress = "none" /\ seen = NoWord

-------------------------------------------------------------------------------
(* One call of read_dm_register or write_dm_register.                      *)

Answered(effect) == link = "up" /\ effect /\ UNCHANGED <<link, program>>

Failed(effect) ==
  /\ \/ /\ DmiFaults /\ link = "up"
        /\ effect \/ UNCHANGED bus
        /\ link' = IF StickyLink THEN "down" ELSE "up"
     \/ link = "down" /\ UNCHANGED <<bus, link>>
  /\ UNCHANGED program

\* dbg_test_init.c looks at every error of the read.
Checked == program = "dbg_test_init"

\* The register access, whatever its error was.
Unchecked(effect) == Answered(effect) \/ Failed(effect)

\* History: this call has put its transfer on the bus.
NoteStart ==
  /\ progress' = IF ~Busy /\ transfer' # NoCall THEN "started" ELSE progress
  /\ UNCHANGED seen

Goto(next) == pc' = next /\ UNCHANGED <<ret, out>>

Return(code) ==
  /\ pc' = "idle" /\ ret' = code
  /\ UNCHANGED out

\* An access whose error the code returns to its caller.
CheckedStep(effect, next) ==
  \/ Answered(effect) /\ Goto(next)
  \/ Failed(effect) /\ Return("error")

\* An access of the read whose error only dbg_test_init.c looks at.
ReadStep(effect, next) ==
  IF Checked THEN CheckedStep(effect, next)
             ELSE Unchecked(effect) /\ Goto(next)

-------------------------------------------------------------------------------
(* Both functions: the caller, and the polls for the end of the transfer.  *)

Call(r) ==
  /\ pc = "idle"
  /\ req' = r
  /\ pc' = IF r.op = "read" THEN "rd_getcs" ELSE "wr_getcs"
  /\ ret' = "none" /\ out' = NoWord
  /\ rdata' = {} /\ polls' = 0
  /\ progress' = "none" /\ seen' = NoWord
  /\ UNCHANGED <<bus, link, program>>

\* On a bus that is fast enough the transfer ends before the last poll.
InTime == SlowBus \/ ~(Busy /\ polls = PollLimit - 1)

\* Mutant: the loop is left after the last poll without looking at i.
PollNoTimeout(at, next) ==
  /\ pc = at
  /\ \/ /\ Answered(ReadRegister)
        /\ rdata' = SbcsValue
        /\ IF "sbbusy" \in SbcsValue /\ polls < PollLimit - 1
           THEN polls' = polls + 1 /\ UNCHANGED <<pc, ret, out>>
           ELSE Goto(next) /\ UNCHANGED polls
     \/ Failed(ReadRegister) /\ Return("error") /\ UNCHANGED <<rdata, polls>>
  /\ UNCHANGED <<req, ghost>>

\* Mutant: the loop runs while i <= 5.
PollOnceMore(at, next) ==
  /\ pc = at
  /\ \/ /\ Answered(ReadRegister)
        /\ rdata' = SbcsValue
        /\ IF "sbbusy" \in SbcsValue
           THEN IF polls = PollLimit
                THEN Return("timeout") /\ UNCHANGED polls
                ELSE polls' = polls + 1 /\ UNCHANGED <<pc, ret, out>>
           ELSE Goto(next) /\ UNCHANGED polls
     \/ Failed(ReadRegister) /\ Return("error") /\ UNCHANGED <<rdata, polls>>
  /\ UNCHANGED <<req, ghost>>

\* Mutant: the loop has no bound (i is kept small by counting round).
PollForever(at, next) ==
  /\ pc = at
  /\ \/ /\ Answered(ReadRegister)
        /\ rdata' = SbcsValue
        /\ IF "sbbusy" \in SbcsValue
           THEN polls' = (polls + 1) % PollLimit /\ UNCHANGED <<pc, ret, out>>
           ELSE Goto(next) /\ UNCHANGED polls
     \/ Failed(ReadRegister) /\ Return("error") /\ UNCHANGED <<rdata, polls>>
  /\ UNCHANGED <<req, ghost>>

Poll(at, next) ==
  /\ pc = at
  /\ InTime
  /\ \/ /\ Answered(ReadRegister)
        /\ rdata' = SbcsValue
        /\ IF "sbbusy" \in SbcsValue
           THEN IF polls = PollLimit - 1
                THEN Return("timeout") /\ UNCHANGED polls
                ELSE polls' = polls + 1 /\ UNCHANGED <<pc, ret, out>>
           ELSE Goto(next) /\ UNCHANGED polls
     \/ /\ Failed(ReadRegister)
        /\ Return("error")
        /\ UNCHANGED <<rdata, polls>>
  /\ UNCHANGED <<req, ghost>>

\* "write sbcs 0, clear sbreadonaddr, sbaccess, ...": the last access of
\* both functions, whose error is the return value.
Clear(at) ==
  /\ pc = at
  /\ \/ Answered(WriteSbcs({})) /\ Return("ok")
     \/ Failed(WriteSbcs({})) /\ Return("error")
  /\ UNCHANGED <<req, rdata, polls, ghost>>

-------------------------------------------------------------------------------
(* read_memory_using_sys_bus                                               *)

\* When the access fails r_data keeps what was on the stack.
ReadGetSbcs ==
  /\ pc = "rd_getcs"
  /\ \/ Answered(ReadRegister) /\ rdata' = SbcsValue /\ Goto("rd_setcs")
     \/ /\ Failed(ReadRegister)
        /\ IF Checked THEN Return("error") /\ UNCHANGED rdata
           ELSE rdata' \in SUBSET SbcsBits /\ Goto("rd_setcs")
  /\ UNCHANGED <<req, polls, ghost>>

\* Mutant: the error bits are masked out, so they are never written back as 1.
ReadSbcsWordMasked == (rdata \ ErrorBits) \cup req.size \cup {"sbreadonaddr"}

\* r_data |= (size << SBCS_SBACCESS) | (1u << SBCS_SBREADONADDR)
ReadSbcsWord == rdata \cup req.size \cup {"sbreadonaddr"}

ReadSetSbcs ==
  /\ pc = "rd_setcs"
  /\ ReadStep(WriteSbcs(ReadSbcsWord), "rd_addr")
  /\ UNCHANGED <<req, rdata, polls, ghost>>

ReadSetAddress ==
  /\ pc = "rd_addr"
  /\ ReadStep(WriteSbaddress(req.addr), "rd_poll")
  /\ NoteStart
  /\ UNCHANGED <<req, rdata, polls>>

ReadPoll == Poll("rd_poll", "rd_data")

\* When the access fails *data gets r_data as the last poll left it.
ReadData ==
  /\ pc = "rd_data"
  /\ \/ Answered(ReadSbdata) /\ out' = sbdata /\ pc' = "rd_clear" /\ UNCHANGED ret
     \/ Failed(ReadSbdata) /\ IF Checked THEN Return("error") ELSE Goto("rd_clear")
  /\ UNCHANGED <<req, rdata, polls, ghost>>

ReadClear == Clear("rd_clear")

-------------------------------------------------------------------------------
(* write_memory_using_sys_bus                                              *)

WriteGetSbcs ==
  /\ pc = "wr_getcs"
  /\ \/ Answered(ReadRegister) /\ rdata' = SbcsValue /\ Goto("wr_setcs")
     \/ Failed(ReadRegister) /\ Return("error") /\ UNCHANGED rdata
  /\ UNCHANGED <<req, polls, ghost>>

\* Mutant: the mask of the line the code has commented out.
WriteSbcsWordKeepRead == (rdata \ SizeBits) \cup req.size

\* r_data &= ~((7u << SBCS_SBACCESS) | (1u << SBCS_SBREADONADDR));
\* r_data |= (size << SBCS_SBACCESS);
WriteSbcsWord == (rdata \ ConfigBits) \cup req.size

WriteSetSbcs ==
  /\ pc = "wr_setcs"
  /\ CheckedStep(WriteSbcs(WriteSbcsWord), "wr_addr")
  /\ UNCHANGED <<req, rdata, polls, ghost>>

WriteSetAddress ==
  /\ pc = "wr_addr"
  /\ CheckedStep(WriteSbaddress(req.addr), "wr_data")
  /\ NoteStart
  /\ UNCHANGED <<req, rdata, polls>>

\* Mutant: the function does not wait for the bus.
WriteDataNoPoll ==
  /\ pc = "wr_data"
  /\ CheckedStep(WriteSbdata(req.data), "wr_clear")
  /\ NoteStart
  /\ UNCHANGED <<req, rdata, polls>>

WriteData ==
  /\ pc = "wr_data"
  /\ CheckedStep(WriteSbdata(req.data), "wr_poll")
  /\ NoteStart
  /\ UNCHANGED <<req, rdata, polls>>

WritePoll == Poll("wr_poll", "wr_clear")

WriteClear == Clear("wr_clear")

-------------------------------------------------------------------------------
(* The environment                                                         *)

BusDone ==
  /\ FinishTransfer
  /\ IF progress = "started"
     THEN /\ progress' = IF transfer.addr \in Mapped THEN "taken" ELSE "failed"
          /\ seen' = IF transfer.addr \in Mapped /\ transfer.op = "read"
                     THEN mem[transfer.addr] ELSE NoWord
     ELSE UNCHANGED ghost
  /\ UNCHANGED driver

HartStore ==
  /\ \E a \in Mapped, w \in Words : Store(a, w)
  /\ UNCHANGED <<driver, ghost>>

Steps ==
  \/ ReadGetSbcs \/ ReadSetSbcs \/ ReadSetAddress
  \/ ReadPoll \/ ReadData \/ ReadClear
  \/ WriteGetSbcs \/ WriteSetSbcs \/ WriteSetAddress
  \/ WriteData \/ WritePoll \/ WriteClear

Next ==
  \/ \E r \in Requests : Call(r)
  \/ Steps
  \/ BusDone
  \/ HartStore

Spec == Init /\ [][Next]_vars

\* The functions are straight code with bounded loops: once called they run.
\* Nothing is assumed of the bus, of the caller or of the hart.
FairSpec == Spec /\ WF_vars(Steps)

-------------------------------------------------------------------------------
(* Properties                                                              *)

InCall == pc # "idle"
Returned(code) == ~InCall /\ ret = code

\* A call that returns 0 for an address that exists did its work: the bus
\* took its transfer, and a read hands out the word that transfer fetched
\* (not the one SBDATA0 held before).
SuccessMeansTaken ==
  Returned("ok") /\ req.addr \in Mapped =>
    /\ progress = "taken"
    /\ req.op = "read" => out = seen

\* A call that returns 0 leaves no transfer on the bus: nothing of it, or of
\* a call that gave up before it, can still change memory.
QuietAfterSuccess == Returned("ok") => ~Busy

\* The transfers that reach the bus are the ones that were asked for: one
\* that starts has the operation, the address and the word of the call in
\* progress, however earlier calls ended.  In particular a write starts no
\* read, although a read that gave up leaves sbreadonaddr set.
AskedOnly ==
  [][~Busy /\ transfer' # NoCall =>
       /\ InCall
       /\ transfer'.op = req.op
       /\ transfer'.addr = req.addr
       /\ transfer'.data = req.data]_vars

\* Every call returns, on a bus that never answers too.
CallsReturn == InCall ~> ~InCall

\* The size that reaches the bus is the size the caller asked for.
SizeSelected == [][~Busy /\ transfer' # NoCall => transfer'.size = req.size]_vars

Named(t) == [op |-> t.op, addr |-> t.addr, data |-> t.data]

Own == InCall /\ progress = "started"

Port == INSTANCE AccessPort WITH
  call  <- IF InCall THEN Named(req) ELSE NoCall,
  taken <- InCall /\ progress = "taken",
  seen  <- IF InCall THEN seen ELSE NoWord,
  late  <- IF Busy /\ ~Own THEN Named(transfer) ELSE NoCall,
  ok    <- ret = "ok",
  out   <- IF InCall THEN NoWord ELSE out

\* NoCall is no access of the port either.
ASSUME PortAssumption == NoCall \notin Port!Calls

\* The calls are accesses of one port: each takes effect at most once,
\* between its call and its return or later if it failed, and success
\* means it has.
PortSpec == Port!Spec
===============================================================================
