--------------------------------- MODULE Dmi ---------------------------------
(***************************************************************************)
(* write_dm_register and read_dm_register: one scan to launch the          *)
(* operation, ten TCKs in Run-Test/Idle, and scans of a nop to fetch the   *)
(* answer.  A scan is two steps, because the operation goes on between the *)
(* capture and the update.                                                 *)
(*                                                                         *)
(* The repository holds two programs.  With rescan this is                 *)
(* JTAG-SV/jtag_model.sv, which scans again while the answer is busy;      *)
(* without, JTAG-C/jtag_function.c, its port, where the loop is lost and   *)
(* the busy case of the switch falls through to default.                   *)
(***************************************************************************)
EXTENDS Dtm, Naturals

CONSTANTS MaxTimeout,     \* busy answers the loop puts up with
          Setups          \* which program, on which hardware

\* A prompt Debug Module answers before the loop gives up.
ASSUME DmiAssumption ==
  /\ MaxTimeout \in Nat
  /\ Setups \subseteq [rescan : BOOLEAN, sticky : BOOLEAN, prompt : BOOLEAN]
  /\ OpsFail \in BOOLEAN
  /\ NoCall \notin Ops
  /\ NoWord \notin Words

VARIABLES rescan, prompt,
          pc, req,
          tdo,         \* what the last fetch scan shifted out
          timeout,
          ret,         \* *error: "ok" is 0
          out,         \* *reg_value
          progress,    \* history: what became of the operation of the call
          seen         \* history: the word a read of the call saw

driver == <<pc, req, tdo, timeout, ret, out>>
ghost  == <<progress, seen>>
setup  == <<rescan, sticky, prompt>>
vars   == <<setup, dtm, driver, ghost>>

Statuses == {"ok", "failed", "busy"}

TypeOK ==
  /\ [rescan |-> rescan, sticky |-> sticky, prompt |-> prompt] \in Setups
  /\ DtmTypeOK
  /\ pc \in {"idle", "launch_capture", "launch_update", "fetch_capture", "fetch_update"}
  /\ req \in Ops
  /\ tdo \in [status : Statuses, data : Words]
  /\ timeout \in 0 .. MaxTimeout
  /\ ret \in {"none", "ok", "error"}
  /\ out \in Words \cup {NoWord}
  /\ progress \in {"none", "started", "taken", "failed"}
  /\ seen \in Words \cup {NoWord}

Init ==
  /\ \E s \in Setups :
       rescan = s.rescan /\ sticky = s.sticky /\ prompt = s.prompt
  /\ DtmInit
  /\ pc = "idle" /\ req \in Ops
  /\ tdo \in [status : {"ok"}, data : Words]
  /\ timeout = 0 /\ ret = "none" /\ out = NoWord
  /\ progress = "none" /\ seen = NoWord

Call(r) ==
  /\ pc = "idle"
  /\ pc' = "launch_capture"
  /\ req' = r
  /\ timeout' = 0 /\ ret' = "none" /\ out' = NoWord
  /\ progress' = "none" /\ seen' = NoWord
  /\ UNCHANGED <<setup, dtm, tdo>>

-------------------------------------------------------------------------------
(* The launch scan: instruction 0x11, then {addr, data, op}.               *)

\* Mutant: the call clears the status of the DTM before it begins.
LaunchCaptureReset ==
  /\ pc = "launch_capture"
  /\ dmistat' = "ok" /\ UNCHANGED <<mem, pending, dmidata>>
  /\ pc' = "launch_update"
  /\ UNCHANGED <<setup, req, tdo, timeout, ret, out, ghost>>

LaunchCapture ==
  /\ pc = "launch_capture"
  /\ Capture
  /\ pc' = "launch_update"
  /\ UNCHANGED <<setup, req, tdo, timeout, ret, out, ghost>>

LaunchUpdate ==
  /\ pc = "launch_update"
  /\ Update(req)
  /\ progress' = IF pending = NoCall /\ pending' # NoCall THEN "started" ELSE progress
  /\ pc' = "fetch_capture"
  /\ UNCHANGED <<setup, req, tdo, timeout, ret, out, seen>>

-------------------------------------------------------------------------------
(* The fetch scan: a nop, whose update starts nothing.                     *)

\* Mutant: the scan that fetches the answer shifts the operation in again.
FetchCaptureAgain ==
  /\ pc = "fetch_capture"
  /\ prompt => ~(pending # NoCall /\ timeout = MaxTimeout)
  /\ tdo' = [status |-> Status, data |-> dmidata]
  /\ IF pending = NoCall
     THEN Update(req) /\ progress' = IF pending' # NoCall THEN "started" ELSE progress
     ELSE Capture /\ UNCHANGED progress
  /\ pc' = "fetch_update"
  /\ UNCHANGED <<setup, req, timeout, ret, out, seen>>

FetchCapture ==
  /\ pc = "fetch_capture"
  /\ prompt => ~(pending # NoCall /\ timeout = MaxTimeout)
  /\ tdo' = [status |-> Status, data |-> dmidata]
  /\ Capture
  /\ pc' = "fetch_update"
  /\ UNCHANGED <<setup, req, timeout, ret, out, ghost>>

\* Mutant: busy is taken for an answer.
PassedBusy ==
  /\ pc = "fetch_update" /\ tdo.status \in {"ok", "busy"}
  /\ ret' = "ok"
  /\ out' = IF req.op = "read" THEN tdo.data ELSE out
  /\ pc' = "idle"
  /\ UNCHANGED <<setup, dtm, req, tdo, timeout, ghost>>

\* The two low bits are 0: *error = 0, and a read sets *reg_value.
Passed ==
  /\ pc = "fetch_update" /\ tdo.status = "ok"
  /\ ret' = "ok"
  /\ out' = IF req.op = "read" THEN tdo.data ELSE out
  /\ pc' = "idle"
  /\ UNCHANGED <<setup, dtm, req, tdo, timeout, ghost>>

ReturnError ==
  /\ ret' = "error" /\ pc' = "idle"
  /\ UNCHANGED out

\* They are 2.
OpFailed ==
  /\ pc = "fetch_update" /\ tdo.status = "failed"
  /\ ReturnError
  /\ UNCHANGED <<setup, dtm, req, tdo, timeout, ghost>>

\* They are 3, in jtag_function.c: timeout is 1, so the break under
\* "timeout > 10" is not reached and the case falls into default.
BusyFallsThrough ==
  /\ pc = "fetch_update" /\ tdo.status = "busy"
  /\ ~rescan
  /\ ReturnError
  /\ UNCHANGED <<setup, dtm, req, tdo, timeout, ghost>>

\* Mutants: the loop without its bound; the loop that gives up one answer early.
BusyScansForever ==
  /\ pc = "fetch_update" /\ tdo.status = "busy"
  /\ rescan
  /\ pc' = "fetch_capture"
  /\ UNCHANGED <<setup, dtm, req, tdo, timeout, ret, out, ghost>>

BusyGivesUpEarly ==
  /\ pc = "fetch_update" /\ tdo.status = "busy"
  /\ rescan
  /\ IF timeout + 1 >= MaxTimeout
     THEN ReturnError /\ UNCHANGED timeout
     ELSE timeout' = timeout + 1 /\ pc' = "fetch_capture" /\ UNCHANGED <<ret, out>>
  /\ UNCHANGED <<setup, dtm, req, tdo, ghost>>

\* Mutant: one busy answer too many.
BusyOnceMore ==
  /\ pc = "fetch_update" /\ tdo.status = "busy"
  /\ rescan
  /\ IF timeout > MaxTimeout
     THEN ReturnError /\ UNCHANGED timeout
     ELSE timeout' = timeout + 1 /\ pc' = "fetch_capture" /\ UNCHANGED <<ret, out>>
  /\ UNCHANGED <<setup, dtm, req, tdo, ghost>>

\* They are 3, in jtag_model.sv: timeout += 1, an error above 10, else the
\* loop scans once more.
BusyScansAgain ==
  /\ pc = "fetch_update" /\ tdo.status = "busy"
  /\ rescan
  /\ IF timeout = MaxTimeout
     THEN ReturnError /\ UNCHANGED timeout
     ELSE timeout' = timeout + 1 /\ pc' = "fetch_capture" /\ UNCHANGED <<ret, out>>
  /\ UNCHANGED <<setup, dtm, req, tdo, ghost>>

-------------------------------------------------------------------------------
(* The Debug Module                                                        *)

Own == pending # NoCall /\ progress = "started"

PerformOp ==
  /\ Perform
  /\ IF Own
     THEN /\ progress' = "taken"
          /\ seen' = IF pending.op = "read" THEN mem[pending.addr] ELSE NoWord
     ELSE UNCHANGED ghost
  /\ UNCHANGED <<setup, driver>>

FailOp ==
  /\ Fail
  /\ progress' = IF Own THEN "failed" ELSE progress
  /\ UNCHANGED <<setup, driver, seen>>

ChangeRegister == RegisterChange /\ UNCHANGED <<setup, driver, ghost>>

Steps ==
  \/ LaunchCapture \/ LaunchUpdate \/ FetchCapture
  \/ Passed \/ OpFailed \/ BusyFallsThrough \/ BusyScansAgain

Next ==
  \/ \E r \in Ops : Call(r)
  \/ Steps
  \/ PerformOp \/ FailOp
  \/ ChangeRegister

Spec == Init /\ [][Next]_vars

\* The functions run to their end.  Only a prompt Debug Module owes answers.
FairSpec ==
  /\ Spec
  /\ WF_vars(Steps)
  /\ WF_vars(prompt /\ (PerformOp \/ FailOp))

-------------------------------------------------------------------------------
(* Properties                                                              *)

InCall == pc # "idle"
Returned(code) == ~InCall /\ ret = code

\* *error = 0 is the answer to this call and not to an earlier one: the
\* Debug Module carried out its operation, and *reg_value is the word that
\* operation read.
SuccessMeansTaken ==
  Returned("ok") => progress = "taken" /\ (req.op = "read" => out = seen)

\* After success nothing is left in the Debug Module, neither of this call
\* nor of one that gave up before it.
QuietAfterSuccess == Returned("ok") => pending = NoCall

\* Busy is no error by itself: with a Debug Module that is prompt a call
\* fails only when its operation failed.
BusyIsNoError == prompt /\ Returned("error") => progress = "failed"

\* On the hardware of the specification one failure is the end: nothing the
\* functions do makes the DTM forget it, so no later call returns 0, not even
\* one whose caller looked at no error before.
FailureStays == [](sticky /\ Returned("error") => []~Returned("ok"))

\* Every call returns, whatever the Debug Module does.
CallsReturn == InCall ~> ~InCall

\* Each call is one access of a port whose cells are the Debug Module
\* registers: however often the answer is fetched, the operation is carried
\* out at most once.
Port == INSTANCE AccessPort WITH
  Unmapped <- {},
  call  <- IF InCall THEN req ELSE NoCall,
  taken <- InCall /\ progress = "taken",
  seen  <- IF InCall THEN seen ELSE NoWord,
  late  <- IF pending # NoCall /\ ~(InCall /\ Own) THEN pending ELSE NoCall,
  ok    <- ret = "ok",
  out   <- IF InCall THEN NoWord ELSE out

PortSpec == Port!Spec
===============================================================================
