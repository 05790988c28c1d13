--------------------------------- MODULE Dtm ---------------------------------
(***************************************************************************)
(* The Debug Transport Module behind instruction 0x11, as write_dm_register *)
(* and read_dm_register use it: a scan of the 41-bit dmi register captures *)
(* the outcome of the last operation (Capture-DR) and starts the operation *)
(* shifted in (Update-DR).  The hardware is not in the repository; this is *)
(* the RISC-V Debug Specification 0.13, section 6.1.5.                     *)
(*                                                                         *)
(* With sticky, dmistat is what the specification says: after a failed     *)
(* operation, or a capture that came too early, every operation is         *)
(* ignored.  Without it this is the module the comments of both drivers    *)
(* describe ("2'b11, busy, need next read"): a later capture gets the      *)
(* answer.                                                                 *)
(***************************************************************************)
CONSTANTS Mapped,         \* the Debug Module registers
          Words, NoWord, NoCall,
          OpsFail         \* an operation may fail

VARIABLES sticky,         \* which of the two modules this is, for good
          mem,            \* the values of the Debug Module registers
          pending,        \* the operation in progress
          dmistat,        \* "ok", "failed" or "busy"
          dmidata         \* the data field of dmi

dtm == <<mem, pending, dmistat, dmidata>>

Ops == [op : {"read"}, addr : Mapped, data : {NoWord}]
         \cup [op : {"write"}, addr : Mapped, data : Words]

DtmTypeOK ==
  /\ mem \in [Mapped -> Words]
  /\ pending \in Ops \cup {NoCall}
  /\ dmistat \in {"ok", "failed", "busy"}
  /\ dmidata \in Words

DtmInit ==
  /\ mem \in [Mapped -> Words]
  /\ pending = NoCall
  /\ dmistat = "ok"
  /\ dmidata \in Words

\* The op field of a capture: 0, 2 or 3.
Status == IF dmistat = "ok" /\ pending # NoCall THEN "busy" ELSE dmistat

Capture ==
  /\ dmistat' = IF sticky THEN Status ELSE dmistat
  /\ UNCHANGED <<mem, pending, dmidata>>

\* Update-DR with an operation other than nop.
Update(o) ==
  IF pending # NoCall \/ (sticky /\ dmistat # "ok")
  THEN UNCHANGED dtm
  ELSE /\ pending' = o
       /\ dmistat' = "ok"
       /\ UNCHANGED <<mem, dmidata>>

Perform ==
  /\ pending # NoCall
  /\ pending' = NoCall
  /\ IF pending.op = "read"
     THEN dmidata' = mem[pending.addr] /\ UNCHANGED mem
     ELSE mem' = [mem EXCEPT ![pending.addr] = pending.data] /\ UNCHANGED dmidata
  /\ UNCHANGED dmistat

Fail ==
  /\ OpsFail
  /\ pending # NoCall
  /\ pending' = NoCall
  /\ dmistat' = IF dmistat = "ok" THEN "failed" ELSE dmistat
  /\ UNCHANGED <<mem, dmidata>>

\* The Debug Module changes its own registers, status bits for example.
RegisterChange ==
  /\ \E a \in Mapped, w \in Words : mem' = [mem EXCEPT ![a] = w]
  /\ UNCHANGED <<pending, dmistat, dmidata>>
===============================================================================
