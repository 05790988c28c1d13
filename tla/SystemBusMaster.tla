--------------------------- MODULE SystemBusMaster ---------------------------
(***************************************************************************)
(* The system bus access block of the Debug Module, as the drivers in      *)
(* jtag_function.c and dbg_test_init.c use it: SBCS, SBADDRESS0, SBDATA0   *)
(* and the bus behind them.  The hardware is not in the repository; this   *)
(* module is the behaviour the RISC-V Debug Specification 0.13 gives those *)
(* registers, restricted to the fields the drivers touch.                  *)
(*                                                                         *)
(* SBCS is the set of its bits that are 1, so the drivers' "|=" and        *)
(* "&= ~" are union and difference.  The two error bits are cleared by     *)
(* writing 1 to them; while one is set no transfer starts.                 *)
(***************************************************************************)
CONSTANTS Mapped, Unmapped,   \* addresses with and without memory behind
          Words, NoWord, NoCall,
          ResetSize,          \* the sbaccess bits after reset
          Supported           \* the access sizes the bus has

VARIABLES sbcs,        \* the bits of SBCS that are set, sbbusy excepted
          sbaddress, sbdata,
          transfer,    \* the transfer on the bus
          mem          \* the memory, shared with the hart

bus == <<sbcs, sbaddress, sbdata, transfer, mem>>

SizeBits  == {"sbaccess0", "sbaccess1"}
ConfigBits == SizeBits \cup {"sbreadonaddr"}
ErrorBits == {"sbbusyerror", "sberror"}
SbcsBits  == ConfigBits \cup ErrorBits \cup {"sbbusy"}

Addrs == Mapped \cup Unmapped

Transfers == [op : {"read"}, addr : Addrs, data : {NoWord}, size : SUBSET SizeBits]
               \cup [op : {"write"}, addr : Addrs, data : Words, size : SUBSET SizeBits]

Busy == transfer # NoCall
BusTypeOK ==
  /\ sbcs \in SUBSET (ConfigBits \cup ErrorBits)
  /\ sbaddress \in Addrs
  /\ sbdata \in Words
  /\ transfer \in Transfers \cup {NoCall}
  /\ mem \in [Mapped -> Words]

BusInit ==
  /\ sbcs = ResetSize
  /\ sbaddress \in Addrs
  /\ sbdata \in Words
  /\ transfer = NoCall
  /\ mem \in [Mapped -> Words]

\* Starting a transfer of the size sbaccess selects, or refusing that size.
Start(op, a, w) ==
  IF sbcs \cap SizeBits \in Supported
  THEN /\ transfer' = [op |-> op, addr |-> a, data |-> w,
                       size |-> sbcs \cap SizeBits]
       /\ UNCHANGED sbcs
  ELSE /\ sbcs' = sbcs \cup {"sberror"}
       /\ UNCHANGED transfer

\* An access to SBADDRESS0 or SBDATA0 while a transfer runs.
BusyError == sbcs' = sbcs \cup {"sbbusyerror"}

SbcsValue == sbcs \cup (IF Busy THEN {"sbbusy"} ELSE {})

ReadRegister == UNCHANGED bus

WriteSbcs(v) ==
  /\ sbcs' = (v \cap ConfigBits) \cup (sbcs \cap (ErrorBits \ v))
  /\ UNCHANGED <<sbaddress, sbdata, transfer, mem>>

WriteSbaddress(a) ==
  IF Busy
  THEN BusyError /\ UNCHANGED <<sbaddress, sbdata, transfer, mem>>
  ELSE /\ sbaddress' = a
       /\ IF sbcs \cap ErrorBits = {} /\ "sbreadonaddr" \in sbcs
          THEN Start("read", a, NoWord)
          ELSE UNCHANGED <<sbcs, transfer>>
       /\ UNCHANGED <<sbdata, mem>>

WriteSbdata(w) ==
  IF Busy
  THEN BusyError /\ UNCHANGED <<sbaddress, sbdata, transfer, mem>>
  ELSE IF sbcs \cap ErrorBits # {}
  THEN UNCHANGED bus
  ELSE /\ sbdata' = w
       /\ Start("write", sbaddress, w)
       /\ UNCHANGED <<sbaddress, mem>>

ReadSbdata ==
  IF Busy
  THEN BusyError /\ UNCHANGED <<sbaddress, sbdata, transfer, mem>>
  ELSE UNCHANGED bus

\* The bus finishes the transfer; nothing at the address is a bus error.
FinishTransfer ==
  /\ Busy
  /\ transfer' = NoCall
  /\ IF transfer.addr \in Mapped
     THEN /\ IF transfer.op = "read"
             THEN sbdata' = mem[transfer.addr] /\ UNCHANGED mem
             ELSE mem' = [mem EXCEPT ![transfer.addr] = transfer.data]
                  /\ UNCHANGED sbdata
          /\ UNCHANGED sbcs
     ELSE sbcs' = sbcs \cup {"sberror"} /\ UNCHANGED <<sbdata, mem>>
  /\ UNCHANGED sbaddress

\* The hart is not stopped by a system bus access and goes on storing.
Store(a, w) ==
  /\ mem' = [mem EXCEPT ![a] = w]
  /\ UNCHANGED <<sbcs, sbaddress, sbdata, transfer>>
===============================================================================
