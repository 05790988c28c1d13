------------------------------- MODULE DmiProofs -------------------------------
(***************************************************************************)
(* Proofs about Dmi for every set of registers and words, every            *)
(* MaxTimeout and both programs: its type, what success and errors mean,   *)
(* that a failure stays, and that it implements AccessPort.                *)
(*                                                                         *)
(* Only the type and FailureStays hold on all hardware.  The rest needs a  *)
(* DTM that is sticky, or one that answers before the loop of the bench    *)
(* gives up; DmiBusy shows what goes wrong otherwise.                      *)
(***************************************************************************)
EXTENDS Dmi, TLAPS

\* The hardware on which an answer is the answer to the last operation.
Trusted == sticky \/ (rescan /\ prompt)
AllTrusted == \A s \in Setups : s.sticky \/ (s.rescan /\ s.prompt)

\* Prompt hardware is driven by the loop that was written for it.
Patient == \A s \in Setups : s.prompt => s.rescan /\ ~s.sticky

USE DEF dtm, driver, ghost, setup

-------------------------------------------------------------------------------
(* Type correctness                                                        *)

LEMMA OpsType ==
  ASSUME NEW o \in Ops
  PROVE  /\ o.op \in {"read", "write"} /\ o.addr \in Mapped
         /\ o.op = "read" => o.data = NoWord
         /\ o.op = "write" => o.data \in Words
BY DEF Ops

LEMMA StatusType == DtmTypeOK => Status \in Statuses
BY DEF DtmTypeOK, Status, Statuses

LEMMA CaptureType == DtmTypeOK /\ Capture => DtmTypeOK'
BY DEF Capture, Status, DtmTypeOK

LEMMA UpdateType ==
  ASSUME DtmTypeOK, NEW o \in Ops, Update(o)
  PROVE  DtmTypeOK'
BY DEF Update, DtmTypeOK

LEMMA PerformType == DtmTypeOK /\ Perform => DtmTypeOK'
<1>. SUFFICES ASSUME DtmTypeOK, Perform PROVE DtmTypeOK'
  OBVIOUS
<1>1. pending \in Ops
  BY DEF Perform, DtmTypeOK
<1>2. CASE pending.op = "read"
  BY <1>1, <1>2, OpsType DEF Perform, DtmTypeOK
<1>3. CASE pending.op # "read"
  BY <1>1, <1>3, OpsType DEF Perform, DtmTypeOK
<1>. QED BY <1>2, <1>3

LEMMA InitType == Init => TypeOK
<1>. SUFFICES ASSUME Init PROVE TypeOK
  OBVIOUS
<1>1. [rescan |-> rescan, sticky |-> sticky, prompt |-> prompt] \in Setups
  <2>1. PICK s \in Setups : rescan = s.rescan /\ sticky = s.sticky /\ prompt = s.prompt
    BY DEF Init
  <2>2. s = [rescan |-> rescan, sticky |-> sticky, prompt |-> prompt]
    BY <2>1, DmiAssumption
  <2>. QED BY <2>2
<1>2. DtmTypeOK
  BY DEF Init, DtmInit, DtmTypeOK
<1>. QED BY <1>1, <1>2, DmiAssumption DEF Init, TypeOK, Statuses

LEMMA StepType == TypeOK /\ [Next]_vars => TypeOK'
<1>. SUFFICES ASSUME TypeOK, [Next]_vars PROVE TypeOK'
  OBVIOUS
<1>. USE DmiAssumption DEF TypeOK
<1>1. ASSUME NEW r \in Ops, Call(r) PROVE TypeOK'
  BY <1>1 DEF Call, DtmTypeOK
<1>2. CASE LaunchCapture
  BY <1>2, CaptureType DEF LaunchCapture
<1>3. CASE LaunchUpdate
  BY <1>3, UpdateType DEF LaunchUpdate
<1>4. CASE FetchCapture
  BY <1>4, CaptureType, StatusType DEF FetchCapture, DtmTypeOK
<1>5. CASE Passed
  BY <1>5 DEF Passed, DtmTypeOK
<1>6. CASE OpFailed \/ BusyFallsThrough
  BY <1>6 DEF OpFailed, BusyFallsThrough, ReturnError, DtmTypeOK
<1>7. CASE BusyScansAgain
  <2>1. timeout' \in 0 .. MaxTimeout
    BY <1>7 DEF BusyScansAgain
  <2>. QED BY <1>7, <2>1 DEF BusyScansAgain, ReturnError, DtmTypeOK
<1>8. CASE PerformOp
  <2>1. DtmTypeOK' /\ pending \in Ops
    BY <1>8, PerformType DEF PerformOp, Perform, DtmTypeOK
  <2>2. mem[pending.addr] \in Words
    BY <2>1, OpsType DEF DtmTypeOK
  <2>. QED BY <1>8, <2>1, <2>2 DEF PerformOp
<1>9. CASE FailOp
  BY <1>9 DEF FailOp, Fail, DtmTypeOK
<1>10. CASE ChangeRegister
  BY <1>10 DEF ChangeRegister, RegisterChange, DtmTypeOK
<1>11. CASE UNCHANGED vars
  BY <1>11 DEF vars, DtmTypeOK
<1>. QED
  BY <1>1, <1>2, <1>3, <1>4, <1>5, <1>6, <1>7, <1>8, <1>9, <1>10, <1>11 DEF Next, Steps

\* Every variable keeps its type, on every hardware.
THEOREM TypeCorrect == Spec => []TypeOK
BY InitType, StepType, PTL DEF Spec
-------------------------------------------------------------------------------
(* What becomes of the operation of a call                                 *)

\* An operation of the call was carried out, and a read has its word.
Taken(word) == progress = "taken" /\ (req.op = "read" => word = seen)

\* A DTM whose status sticks carries out nothing any more.
Stuck == sticky /\ dmistat # "ok"

\* After the launch: in progress, carried out, or failed.
Outcome ==
  \/ pending = req /\ progress = "started" /\ dmistat = "ok"
  \/ pending = NoCall /\ Taken(dmidata) /\ dmistat = "ok"
  \/ pending = NoCall /\ progress = "failed" /\ dmistat = "failed"
  \/ Stuck

\* The DTM between calls and before the launch: nothing is in progress.
Clear == pending = NoCall \/ Stuck

FetchInv ==
  /\ sticky /\ tdo.status = "ok" => dmistat = "ok"
  /\ tdo.status = "ok" => pending = NoCall /\ Taken(tdo.data)
  /\ tdo.status = "failed" => IF sticky THEN Stuck ELSE progress = "failed"
  /\ tdo.status = "busy" => IF sticky THEN Stuck ELSE timeout < MaxTimeout

CallInv ==
  /\ ~sticky => dmistat # "busy"
  /\ pc \in {"idle", "launch_capture", "launch_update"} => Clear
  /\ pc \in {"fetch_capture", "fetch_update"} => Outcome
  /\ pc = "fetch_update" => FetchInv
  /\ Returned("ok") => pending = NoCall /\ Taken(out)
  /\ Returned("error") => IF sticky THEN Stuck ELSE progress = "failed"

\* What the history says of the operation in progress.
HistoryInv ==
  /\ progress = "started" => pending = req
  /\ pc \in {"launch_capture", "launch_update"} => progress = "none"
  /\ progress # "taken" => seen = NoWord
  /\ progress = "taken" /\ req.op = "write" => seen = NoWord
  /\ InCall => ret = "none" /\ out = NoWord
  /\ ret # "ok" \/ req.op = "write" => out = NoWord

DmiInv == HistoryInv /\ (Trusted => CallInv)

LEMMA DmiInvInit == Init => DmiInv
BY DEF Init, DtmInit, DmiInv, HistoryInv, CallInv, Clear, Returned, InCall

\* The Debug Module works on what is in progress; that is the operation of
\* the call as long as its history says "started".
LEMMA HistoryStep == TypeOK /\ HistoryInv /\ [Next]_vars => HistoryInv'
<1>. SUFFICES ASSUME TypeOK, HistoryInv, [Next]_vars PROVE HistoryInv'
  OBVIOUS
<1>t. /\ req \in Ops /\ req # NoCall
      /\ pending \in Ops \cup {NoCall}
  BY DmiAssumption DEF TypeOK, DtmTypeOK
<1>. USE DEF HistoryInv, InCall
<1>1. ASSUME NEW r \in Ops, Call(r) PROVE HistoryInv'
  BY <1>1 DEF Call
<1>2. CASE LaunchCapture
  BY <1>2 DEF LaunchCapture, Capture
<1>3. CASE LaunchUpdate
  BY <1>t, <1>3 DEF LaunchUpdate, Update
<1>4. CASE FetchCapture
  BY <1>4 DEF FetchCapture, Capture
<1>5. CASE Passed
  BY <1>t, <1>5, OpsType DEF Passed
<1>6. CASE OpFailed \/ BusyFallsThrough \/ BusyScansAgain
  BY <1>6 DEF OpFailed, BusyFallsThrough, BusyScansAgain, ReturnError
<1>7. CASE PerformOp
  BY <1>t, <1>7 DEF PerformOp, Perform, Own
<1>8. CASE FailOp
  BY <1>t, <1>8 DEF FailOp, Fail, Own
<1>9. CASE ChangeRegister
  BY <1>9 DEF ChangeRegister, RegisterChange
<1>10. CASE UNCHANGED vars
  BY <1>10 DEF vars
<1>. QED
  BY <1>1, <1>2, <1>3, <1>4, <1>5, <1>6, <1>7, <1>8, <1>9, <1>10 DEF Next, Steps

LEMMA CallStep == TypeOK /\ HistoryInv /\ Trusted /\ CallInv /\ [Next]_vars => CallInv'
<1>. SUFFICES ASSUME TypeOK, HistoryInv, Trusted, CallInv, [Next]_vars PROVE CallInv'
  OBVIOUS
<1>t. /\ req \in Ops /\ req # NoCall
      /\ pending \in Ops \cup {NoCall}
      /\ dmistat \in {"ok", "failed", "busy"}
      /\ timeout \in 0 .. MaxTimeout /\ MaxTimeout \in Nat
  BY DmiAssumption DEF TypeOK, DtmTypeOK
<1>. USE DEF CallInv, Returned, InCall, Trusted
<1>1. ASSUME NEW r \in Ops, Call(r) PROVE CallInv'
  BY <1>1 DEF Call, Clear, Stuck
<1>2. CASE LaunchCapture
  BY <1>t, <1>2 DEF LaunchCapture, Capture, Status, Clear, Stuck
<1>3. CASE LaunchUpdate
  BY <1>t, <1>3 DEF LaunchUpdate, Update, Clear, Outcome, Stuck, Taken
<1>4. CASE FetchCapture
  <2>1. Outcome'
    BY <1>t, <1>4 DEF FetchCapture, Capture, Status, Outcome, Stuck, Taken
  <2>2. FetchInv'
    BY <1>t, <1>4 DEF FetchCapture, Capture, Status, Outcome, FetchInv, Stuck, Taken
  <2>3. ~sticky' => dmistat' # "busy"
    BY <1>4 DEF FetchCapture, Capture
  <2>. QED BY <1>4, <2>1, <2>2, <2>3 DEF FetchCapture
<1>5. CASE Passed
  BY <1>t, <1>5, OpsType DEF Passed, FetchInv, Clear, Stuck, Taken
<1>6. CASE OpFailed \/ BusyFallsThrough
  BY <1>t, <1>6 DEF OpFailed, BusyFallsThrough, ReturnError, Outcome, FetchInv, Clear, Stuck, Taken
<1>7. CASE BusyScansAgain
  BY <1>t, <1>7 DEF BusyScansAgain, ReturnError, Outcome, FetchInv, Clear, Stuck, Taken
<1>8. CASE PerformOp
  BY <1>t, <1>8 DEF PerformOp, Perform, Own, HistoryInv, Outcome, FetchInv, Clear, Stuck, Taken
<1>9. CASE FailOp
  BY <1>t, <1>9 DEF FailOp, Fail, Own, HistoryInv, Outcome, FetchInv, Clear, Stuck, Taken
<1>10. CASE ChangeRegister
  BY <1>10 DEF ChangeRegister, RegisterChange, Outcome, FetchInv, Clear, Stuck, Taken
<1>11. CASE UNCHANGED vars
  BY <1>11 DEF vars, Outcome, FetchInv, Clear, Stuck, Taken
<1>. QED
  BY <1>1, <1>2, <1>3, <1>4, <1>5, <1>6, <1>7, <1>8, <1>9, <1>10, <1>11 DEF Next, Steps

LEMMA SetupStays == [Next]_vars => UNCHANGED setup
BY DEF Next, Steps, vars, Call, LaunchCapture, LaunchUpdate, FetchCapture, Passed, OpFailed,
       BusyFallsThrough, BusyScansAgain, PerformOp, FailOp, ChangeRegister

LEMMA DmiInvariant == Spec => [](TypeOK /\ DmiInv)
<1>1. TypeOK /\ DmiInv /\ [Next]_vars => DmiInv'
  BY HistoryStep, CallStep, SetupStays DEF DmiInv, Trusted
<1>. QED BY <1>1, InitType, StepType, DmiInvInit, PTL DEF Spec

LEMMA TypedTrusted == AllTrusted /\ TypeOK => Trusted
<1>. SUFFICES ASSUME AllTrusted, TypeOK PROVE Trusted
  OBVIOUS
<1>1. PICK s \in Setups : s = [rescan |-> rescan, sticky |-> sticky, prompt |-> prompt]
  BY DEF TypeOK
<1>. QED BY <1>1 DEF AllTrusted, Trusted

-------------------------------------------------------------------------------
(* What success and errors mean                                            *)

\* 0 is the answer to this call: its operation was carried out, and a read
\* hands out the word that operation read.
THEOREM SuccessMeansTakenHolds == ASSUME AllTrusted PROVE Spec => []SuccessMeansTaken
<1>1. TypeOK /\ DmiInv => SuccessMeansTaken
  BY TypedTrusted DEF DmiInv, CallInv, SuccessMeansTaken, Taken
<1>. QED BY <1>1, DmiInvariant, PTL

\* After 0 nothing is in progress in the Debug Module.
THEOREM QuietAfterSuccessHolds == ASSUME AllTrusted PROVE Spec => []QuietAfterSuccess
<1>1. TypeOK /\ DmiInv => QuietAfterSuccess
  BY TypedTrusted DEF DmiInv, CallInv, QuietAfterSuccess
<1>. QED BY <1>1, DmiInvariant, PTL

\* On prompt hardware, with the loop, an error is an operation that failed:
\* busy alone is none, whatever the bound of the loop.
THEOREM BusyIsNoErrorHolds == ASSUME Patient PROVE Spec => []BusyIsNoError
<1>1. TypeOK /\ DmiInv => BusyIsNoError
  <2>. SUFFICES ASSUME TypeOK, DmiInv, prompt, Returned("error") PROVE progress = "failed"
    BY DEF BusyIsNoError
  <2>1. PICK s \in Setups : s = [rescan |-> rescan, sticky |-> sticky, prompt |-> prompt]
    BY DEF TypeOK
  <2>2. rescan /\ ~sticky
    BY <2>1 DEF Patient
  <2>. QED BY <2>2 DEF DmiInv, Trusted, CallInv, Stuck
<1>. QED BY <1>1, DmiInvariant, PTL

\* No scan makes a stuck DTM forget: what the functions capture from it is
\* never a 0.
GivenUp == Stuck /\ ~Returned("ok") /\ (pc = "fetch_update" => tdo.status # "ok")

LEMMA GivenUpStays == TypeOK /\ GivenUp /\ [Next]_vars => GivenUp'
<1>. SUFFICES ASSUME TypeOK, GivenUp, [Next]_vars PROVE GivenUp'
  OBVIOUS
<1>. USE DEF GivenUp, Stuck, Returned, InCall
<1>1. ASSUME NEW r \in Ops, Call(r) PROVE GivenUp'
  BY <1>1 DEF Call
<1>2. CASE LaunchCapture \/ FetchCapture
  <2>1. Status = dmistat /\ UNCHANGED <<sticky, dmistat, ret>>
    BY <1>2 DEF LaunchCapture, FetchCapture, Capture, Status
  <2>2. pc' = "fetch_update" => tdo'.status = Status
    BY <1>2 DEF LaunchCapture, FetchCapture
  <2>3. pc' # "idle"
    BY <1>2 DEF LaunchCapture, FetchCapture
  <2>. QED BY <2>1, <2>2, <2>3
<1>3. CASE LaunchUpdate
  BY <1>3 DEF LaunchUpdate, Update
<1>4. CASE Passed \/ OpFailed \/ BusyFallsThrough \/ BusyScansAgain
  BY <1>4 DEF Passed, OpFailed, BusyFallsThrough, BusyScansAgain, ReturnError
<1>5. CASE PerformOp \/ FailOp \/ ChangeRegister
  BY <1>5 DEF PerformOp, FailOp, ChangeRegister, Perform, Fail, RegisterChange
<1>6. CASE UNCHANGED vars
  BY <1>6 DEF vars
<1>. QED BY <1>1, <1>2, <1>3, <1>4, <1>5, <1>6 DEF Next, Steps

\* On the hardware of the specification no call returns 0 after one that
\* returned an error.
THEOREM FailureStaysHolds == Spec => FailureStays
<1>1. TypeOK /\ DmiInv /\ sticky /\ Returned("error") => GivenUp
  BY DEF DmiInv, Trusted, CallInv, GivenUp, Stuck, Returned, InCall, Outcome
<1>2. GivenUp => ~Returned("ok")
  BY DEF GivenUp
<1>. QED BY <1>1, <1>2, GivenUpStays, TypeCorrect, DmiInvariant, PTL DEF Spec, FailureStays

-------------------------------------------------------------------------------
(* Dmi implements AccessPort                                               *)

LEMMA PortCalls == Ops = Port!Calls /\ NoCall \notin Port!Calls
BY DmiAssumption DEF Ops, Port!Calls

LEMMA PortInit == Init => Port!Init
BY DEF Init, DtmInit, Port!Init, InCall

\* A step within a call that leaves the history and the operation in progress
\* to themselves.
LEMMA PortStutter ==
  ASSUME InCall, InCall', UNCHANGED <<mem, pending, req, progress, seen, ret>>
  PROVE  UNCHANGED Port!vars
BY DEF Port!vars, Own, InCall

LEMMA PortStep ==
  ASSUME TypeOK, HistoryInv, Trusted, CallInv, Next
  PROVE  Port!Next \/ UNCHANGED Port!vars
<1>t. /\ req \in Ops /\ req # NoCall
      /\ pending \in Ops \cup {NoCall}
      /\ out \in Words \cup {NoWord} /\ tdo.data \in Words
      /\ req.addr \in Mapped
  BY DmiAssumption, OpsType DEF TypeOK, DtmTypeOK
<1>1. ASSUME NEW r \in Ops, Call(r) PROVE Port!Next
  <2>1. Port!Begin(r)
    BY <1>1, DmiAssumption DEF Call, Port!Begin, InCall, Own
  <2>. QED BY <2>1, PortCalls DEF Port!Next
<1>2. CASE LaunchCapture \/ FetchCapture
  <2>1. /\ InCall /\ InCall'
        /\ UNCHANGED <<mem, pending, req, progress, seen, ret>>
    BY <1>2 DEF LaunchCapture, FetchCapture, Capture, InCall
  <2>. QED BY <2>1, PortStutter
<1>3. CASE LaunchUpdate
  <2>1. /\ InCall /\ InCall' /\ progress = "none"
        /\ UNCHANGED <<mem, req, seen, ret>>
        /\ \/ UNCHANGED <<pending, progress>>
           \/ pending = NoCall /\ pending' = req /\ progress' = "started"
    BY <1>t, <1>3 DEF LaunchUpdate, Update, HistoryInv, InCall
  <2>. QED BY <2>1 DEF Port!vars, Own
<1>4. CASE Passed
  <2>1. pending = NoCall /\ Taken(tdo.data)
    BY <1>4 DEF Passed, CallInv, FetchInv
  <2>2. out' = seen
    BY <1>t, <1>4, <2>1, OpsType DEF Passed, HistoryInv, Taken, InCall
  <2>3. Port!ReturnOk
    BY <1>t, <1>4, <2>1, <2>2 DEF Passed, Port!ReturnOk, InCall, Own, Taken
  <2>. QED BY <2>3 DEF Port!Next
<1>5. CASE OpFailed \/ BusyFallsThrough \/ BusyScansAgain
  <2>1. InCall /\ UNCHANGED <<mem, pending, req, progress, seen, out>>
    BY <1>5 DEF OpFailed, BusyFallsThrough, BusyScansAgain, ReturnError, InCall
  <2>2. (InCall' /\ UNCHANGED ret) \/ (~InCall' /\ ret' = "error")
    BY <1>5 DEF OpFailed, BusyFallsThrough, BusyScansAgain, ReturnError, InCall
  <2>3. CASE InCall' /\ UNCHANGED ret
    BY <2>1, <2>3, PortStutter
  <2>4. CASE ~InCall' /\ ret' = "error"
    <3>1. Port!ReturnError
      BY <1>t, <2>1, <2>4 DEF Port!ReturnError, HistoryInv, InCall, Own
    <3>. QED BY <3>1 DEF Port!Next
  <2>. QED BY <2>2, <2>3, <2>4
<1>6. CASE PerformOp
  <2>1. /\ pending \in Ops /\ pending # NoCall /\ pending' = NoCall
        /\ UNCHANGED <<req, ret, out>> /\ (InCall <=> InCall')
        /\ mem' = IF pending.op = "write" THEN [mem EXCEPT ![pending.addr] = pending.data] ELSE mem
    BY <1>t, <1>6, OpsType DEF PerformOp, Perform, InCall
  <2>2. CASE InCall /\ Own
    <3>1. /\ pending = req /\ progress' = "taken"
          /\ seen' = IF req.op = "read" THEN mem[req.addr] ELSE NoWord
      BY <1>6, <2>2 DEF PerformOp, HistoryInv, Own
    <3>2. Port!Take
      BY <1>t, <2>1, <2>2, <3>1 DEF Port!Take, Port!After, Own
    <3>. QED BY <3>2 DEF Port!Next
  <2>3. CASE ~(InCall /\ Own)
    <3>1. InCall => UNCHANGED ghost
      BY <1>6, <2>3 DEF PerformOp
    <3>2. pending.addr \in Mapped
      BY <2>1, OpsType
    <3>3. Port!LateTake
      BY <2>1, <2>3, <3>1, <3>2 DEF Port!LateTake, Port!After
    <3>. QED BY <3>3 DEF Port!Next
  <2>. QED BY <2>2, <2>3
<1>7. CASE FailOp
  <2>1. /\ pending # NoCall /\ pending' = NoCall
        /\ UNCHANGED <<mem, req, ret, out, seen>> /\ (InCall <=> InCall')
        /\ progress' = IF Own THEN "failed" ELSE progress
    BY <1>7 DEF FailOp, Fail, InCall
  <2>2. CASE InCall /\ Own
    BY <2>1, <2>2 DEF Port!vars, Own
  <2>3. CASE ~(InCall /\ Own)
    <3>1. Port!LateDrop
      BY <2>1, <2>3 DEF Port!LateDrop
    <3>. QED BY <3>1 DEF Port!Next
  <2>. QED BY <2>2, <2>3
<1>8. CASE ChangeRegister
  <2>1. Port!HartStore
    BY <1>8 DEF ChangeRegister, RegisterChange, Port!HartStore, InCall, Own
  <2>. QED BY <2>1 DEF Port!Next
<1>. QED
  BY <1>1, <1>2, <1>3, <1>4, <1>5, <1>6, <1>7, <1>8 DEF Next, Steps

\* However often its answer is fetched, a call is one access of the port:
\* carried out at most once, before it returns or, if it failed, after.
THEOREM Implements == ASSUME AllTrusted PROVE Spec => PortSpec
<1>1. TypeOK /\ DmiInv /\ [Next]_vars => [Port!Next]_(Port!vars)
  <2>. SUFFICES ASSUME TypeOK, DmiInv, [Next]_vars PROVE [Port!Next]_(Port!vars)
    OBVIOUS
  <2>1. CASE Next
    BY <2>1, PortStep, TypedTrusted DEF DmiInv
  <2>2. CASE UNCHANGED vars
    BY <2>2 DEF vars, Port!vars, InCall, Own
  <2>. QED BY <2>1, <2>2
<1>. QED BY <1>1, PortInit, DmiInvariant, PTL DEF Spec, PortSpec, Port!Spec
===============================================================================
