# A TLA+ model of the RISC-V JTAG driver

The repository drives the RISC-V debug port of a chip from the pins up: an MCU
toggles JTAG (or two-wire cJTAG) lines, reaches the Debug Module through scans,
and through the Debug Module reads and writes registers, memory and flash. The
specifications here model the layers in which an access can silently go wrong,
check them with TLC on small instances, and prove the main results for all
instances with TLAPS.

## 1. The system

### Components, their state and operations

| Component | Where | State | Operations |
|---|---|---|---|
| Start-up and callers | `jtag_function.c` 9-51, 974-997, 1582-1639; `dbg_test_init.c` 14-27, 669-765 | dmactive, the reset pin (hardware) | `dbg_test_init`, `enable_dmi`, `dbg_test_code`, the sensor table |
| Flash over JTAG | `jtag_function.c` 1642-1812 | the flash controller (hardware) | `flash_init`, `flash_erase`, `flash_write`, `flash_read` |
| System bus access | `jtag_function.c` 1213-1268, 1396-1453; `dbg_test_init.c` 288-345, 557-618 | SBCS, SBADDRESS0, SBDATA0, the bus (hardware) | `read_memory_using_sys_bus`, `write_memory_using_sys_bus` |
| Abstract commands | `jtag_function.c` 999-1212, 1269-1395, 1455-1519; `dbg_test_init.c` 29-286, 347-555 | DATA0/1, COMMAND, ABSTRACTAUTO, ABSTRACTCS, program buffer, s0, s1 (hardware) | halt, resume, clear cmderr; registers, memory and bulk write |
| Register access (DMI) | `jtag_function.c` 773-920; `jtag_model.sv` 413-516 | the dmi scan register, its status (hardware) | `write_dm_register`, `read_dm_register` |
| Scans and TAP | `jtag_function.c` 138-642, 922-964; `jtag_model.sv` 80-410, 519-537 | TAP state, `cjtag_mode`, `tdo_in_val`, `tms_in_val` | `send_ir`, `send_dr`, the state steps, `jtag_reset` |
| cJTAG switch | `jtag_function.c` 644-771 | `cjtag_mode`, the adapter (hardware) | `switch_jtag2cjtag` |
| On-chip loader | `JTAG-Flash/**/custom-flash.c`, `loader/loader.c` | the flash controller | `loader_main`, `flash_*` |
| SPI drivers | `JTAG-Flash/**/spi/nuspi.c`, `fespi.c` | FIFOs (hardware) | `spi_init`, `spi_tx`, `spi_rx`, `spi_hw` |
| Testbench | `jtag_model.sv` | TAP monitor | the tasks above, a monitor, `flash_ate_test` |

There are two programs for the link. `JTAG-SV` is the original: SystemVerilog tasks for the
pins up to the registers, and `dbg_test_init.c` above them through DPI.
`JTAG-C/jtag_function.c` is its port to an MCU. They differ in places that
matter, and the models keep both: the retry loop of the register access is lost
in the port; the port's system bus read does not look at the errors of four of
its accesses; the original has functions that end without a return statement
and register accesses through the program buffer. The flash functions exist
three times: in the port, which reaches the controller through the system bus
and looks at no error; in `JTAG-Flash/custom-flash.c`, the same functions on the
core; and in `openflashloader-main`, which clears less before an erase, refuses
other arguments and has no limit on the sectors.

### How they interact

Everything is a call from an upper layer to the next one down, in one thread,
with an `int` error code going up. What makes the system hard is on the other
side of each call: the hardware works on its own. An operation on the Debug
Module, a transfer on the system bus, a command on the hart and a flash
operation all go on after the access that started them, and the next access may
come before they end. The driver finds out by polling a status (system bus,
flash), by a status bit in the answer (DMI), or not at all (abstract commands,
halt requests). Four kinds of state survive a call and reach the next: the
sticky status of the DTM, the sticky error bits of SBCS and ABSTRACTCS, the
configuration left in SBCS and ABSTRACTAUTO, and a transfer still on its way.

### What makes each component correct

- *Register access*: 0 is the answer to this call and not to an earlier one;
  however often the answer is fetched the operation is carried out once; busy is
  not an error while the Debug Module keeps answering; every call returns.
- *System bus access*: 0 means the bus took the transfer of this call, and a
  read hands out the word of that transfer; only transfers that were asked for
  start; after 0 the bus is quiet; every call returns.
- *Abstract commands*: memory changes only as the call in progress asks, in its
  order, whatever earlier calls left in the shared registers; a call that finds
  the hart halted and no old error does its work; autoexec is off afterwards.
- *Start-up*: whatever state an earlier life of the program left, it ends with
  the Debug Module active, at rest and without an error.
- *Scans*: driver and TAP agree on the state after every operation, driver and
  adapter on the wire format and on where a packet begins, wherever the chip was
  at the start; an access puts its operation into the DMI register once; what
  the chip captured is what is returned, bit for bit; a chip that does not
  follow the switch to two wires is told from one that answers.
- *Flash*: over a link that works 0 means erased, programmed or read as asked,
  with controller and flash at rest; nothing outside the request ever changes;
  the core never fetches from a flash at work; every call returns. To its
  caller the flash is one that changes sector by sector and page by page, each
  whole and once.
- *SPI*: 0 means that the bytes were sent and the answers to them received;
  every byte leaves in the direction and selection it was written for; a wait
  that ended in time is no error; every call returns.

The hazards, with the lines where they bite, are listed in `PROJECT.json`.

## 2. The modules

```
AccessPort (abstract)                   FlashStore (abstract)
   ^        ^                             ^
   |        |      implemented by         |
 SysBus    Dmi       AbsCmd             Flash            Scan      Spi             the drivers
   |        |          |                  |               |         |
 SystemBusMaster  Dtm  AbstractCommands  FlashController  CJtagTap  SpiController  the hardware (external)
```

- `AccessPort` is the abstract specification shared by the two layers whose
  functions are single accesses: one caller, one call at a time. An access takes
  effect at most once, at a moment between its call and its return; success
  means that it has, and a read hands out the word it saw at that moment; a call
  that fails may leave its own access behind, at most one, which may still take
  effect later. The hart shares the cells and stores at any time.
- `SystemBusMaster` and `SysBus`: SBCS is the set of its bits that are 1, so
  `|=` and `&= ~` are union and difference, and writing back a word that was
  read clears the error bits, as it does in the hardware. Each DMI access of the
  two functions is one action (`ReadGetSbcs` ... `ReadClear`, `WriteGetSbcs` ...
  `WriteClear`). An access is answered, fails (done or not), or is refused.
  `program` chooses the port or the bench; `Checked` is their difference.
- `Dtm` and `Dmi`: a scan is two steps, the capture of the last answer and the
  update that starts the next operation, because the operation goes on in
  between. `rescan` chooses the program; `sticky` the hardware: with it, the
  status is what the debug specification says; without it, the DTM is the one
  the comments of the drivers describe, where a later capture gets the answer.
- `AbstractCommands` and `AbsCmd`: a function is the list of its register
  accesses (`HaltCpu`, `WriteMemoryBulkAbsCmd`, `PortInit`, ...), and a call is a
  list and a position in it. The hart runs commands, honours halt and resume
  requests, and fails commands in its own time. While `active` (dmactive) is off
  the block ignores everything but DMCONTROL. `Restart` is a reset of the program
  at any point: what it knew is gone, the Debug Module and the hart go on; the
  next call is `dbg_test_init`. `ResetChip` is the pin that `StartJtagTask`
  pulses: the hart starts again, the Debug Module with it or not. Callers behind
  the sensor table get a result nobody set (`LeavesUnset`). A session names the
  program, the functions and addresses its caller uses, and which of the three
  disturbances it meets: `slow`, `faults`, `crashes`.
- `FlashStore` is the abstract specification of the flash: an array of cells, a
  call at a time. `Change` puts the next sector or page of the call into effect,
  whole; `Return` says 0 when all have changed, and a read hands out the bytes
  that are there. Once the link broke a call may end early and leave the unit
  that was under way to finish late (`late`), but nothing else. `Flash` maps `pc`
  to the call in progress and counts finished units in `units`.
- `FlashController` and `Flash`: one action per register access, over a
  controller that works on its own. A program command takes its words from the
  FIFO as they come, and the flash goes on erasing or programming (`wip`) after
  the command is off the wire. `pc` names the access; `done` is the part of the
  request that earlier sectors or pages came to, `i` the words of this page.
  `Store`, `Loaded` and `LoadedZero` are the three fates of an access over
  JTAG: done, done or not as the link fails, or not done with 0 for an answer.
  `program` chooses among the three programs; on the core no access fails.
- `SpiController` and `Spi`: a transmit FIFO, a shifter and a receive FIFO, which
  move in their own time or not at all. A frame carries a tag, so that a lost, a
  doubled or a stale byte shows, and the direction and chip select mode of the
  moment it was written. `Poll` is one turn of
  `while (times_out--) { ...; if (ready) break; }` with the test after it.
  `driver` chooses `nuspi.c` or `fespi.c`, which differ in how they find the FIFO
  empty and in what they wait for at the end of `spi_tx`. A wait that came to its
  last poll sets `limit`; from then on bytes are no longer told apart, until
  `spi_init` of a controller at rest.
- `CJtagTap` and `Scan`: the chip is a record and a clock an operator on it. A
  function of the driver is the list of its pin operations (`jtag_idle_to_shift_dr`,
  `send_dr`, `switch_jtag2cjtag`, ...), each carrying the TAP state that the
  function is named for; a call goes through its lists (`phase`, `k`), and
  `Step` performs one operation: a clock, or a packet of three with two wires.
  `at` is the state the driver believes in, `temp` is `temp_tdo_reg` in its three
  parts, `tdo` is `tdo_reg`. `monitor` is `tap_state` of the bench.
  A chip may lack the adapter (`adapter`): it stays with four wires, takes every
  rising edge for a clock of its TAP, and nobody drives TMS when it is read. `ops`
  records every word that Update-DR puts into the DMI register, in a start-up as
  in an access, and at each of the three clocks of a packet (`Along`, `Updates`).
- `MCSysBus`, `MCDmi`, `MCAbsCmd`, `MCFlash`, `MCScan`, `MCSpi` give the constants their
  values.
- The proofs: `SysBusProofs` about `SysBus`, `DmiProofs` about `Dmi`,
  `AbsCmdProofs` (lists, types, autoexec, what reaches memory, what a call and a
  start-up achieve) about `AbsCmd`, `FlashProofs` (where a call is) and `FlashDone`
  (what has come of it, and that it implements `FlashStore`) about `Flash`,
  `SpiProofs` about `Spi`, `ScanProofs` (driver and chip in step) and `ScanData`
  (the bits) about `Scan`.

Correspondence: the actions carry the names of the code's steps, `req` is the
call's arguments, `rdata` is `r_data`, `polls` is `i`, `timeout` is `timeout`,
`ret` the return value and `out` what the pointer argument gets. `progress`,
`seen`, `writes`, `ready`, `cut`, `issuer`, `asked`, `before`, `units`, `late`,
`ops`, `wire`, `polls`, `limit` and `misfit` are history: they record what the
hardware did for the calls, and nothing in the code sees them. `PROJECT.json`
gives the lines of every definition. Definitions marked "Mutant" are plausible
bugs; no specification uses them. They show that each property can fail.

## 3. The runs

| Run | Question | Instance | Shows |
|---|---|---|---|
| `SysBus` | Do the calls do what they report? | two cells, one address without memory, two words, both programs, five polls; bus within the polls, link failing at any access and then for good | `TypeOK`, `SuccessMeansTaken`, and that `SysBus` implements `AccessPort` (118 208 states) |
| `SysBusSlow` | What remains when a transfer outlasts the polls, and when a failed link recovers? | one cell, one address without memory | `QuietAfterSuccess`, `AskedOnly`, `CallsReturn` (148 000 states) |
| `SysBusStale` | Does `SuccessMeansTaken` survive a slow bus? | the port, no link failures | no: after a TIMEOUT the next read returns 0 with the word of the earlier transfer |
| `SysBusSize` | Does the size asked for reach the bus? | sizes 8, 16 and 32, reset size 32 | no: the read or-s the size into the bits that are set |
| `Dmi` | Is 0 the answer to this call? | two registers, two words, ten retries; both programs on the sticky DTM that may never answer, the original on a prompt one | seven properties, among them that a failed access makes every later one fail, and that `Dmi` implements `AccessPort` (23 500 states) |
| `DmiBusy` | Does the port cope with busy as the original does? | the port on the prompt DTM | no: it returns an error at the first busy answer |
| `AbsCmd` | Do sequences of calls disturb each other, and does start-up put things in order? | seven sessions (below): up to three cells, one address after them without memory, words 2 and 5 (2 is an address too), bulk writes of up to three words | `TypeOK`, `WorkDone`, `OnlyAsked`, `AutoexecOff`, `StartedInOrder`, `NoneAstray` (5.1 million states) |
| `AbsCmdError` | Does an error of a command reach the caller? | hart within the next access, no link failures | no: cmderr is never read |
| `AbsCmdBench` | Is a write that was done reported as done? | the bench's functions, no link failures | no: a halted hart carries the write out, the function runs off its end and an error may be returned |
| `Flash` | Does a flash call do what 0 says, and nothing else? | three programs; words of two bytes, pages of three words, sectors of two pages, two sectors; FIFOs of two words and one; link failing at any access | `TypeOK`, `OkMeansDone`, `OutsideUntouched`, `CacheOffAtWork`, `BufferKept`, `CallsReturn`, and that `Flash` implements `FlashStore` (790 000 states) |
| `Scan` | Do driver and chip stay in step, do the bits arrive, and is a mute chip told from a live one? | port with two and four wires, bench with two; real widths; two words, two registers, three answers; a chip that may be anywhere at the start, with a half-done scan in its shift register or not, with an adapter or without | `TypeOK`, `InStep`, `ReadyBetweenCalls`, `OpsAsAsked`, `AnswerArrives`, `NothingReachesMute`, `MuteIsBusy`, `MonitorFollows`, `OneStrayWord` (104 700 states) |
| `Spi` | What do 0 and an error of the SPI drivers mean? | both drivers; FIFOs of two bytes, watermark one, lengths one and three, three polls, a counter that wraps at eight; a controller that may stand still | `TypeOK`, `OkMeansDone`, `FramesAsWritten`, `EarlyIsNoError`, `CallsReturn` (3.2 million states) |

`CHECK_DEADLOCK` is on everywhere: the caller can always make another call.

### Bounds, and why they are enough

`PollLimit` is 5 and `MaxTimeout` is 10, as in the code. Two cells tell the
address of a call from the address of an earlier one, two words a new value from
an old one; one address without memory reaches the error bits. A session of
`AbsCmd` limits which functions a caller mixes, so that each pair that shares
DATA0, s0, s1 or the program buffer meets in one of them: the functions of the
port with the bulk write, those with the program buffer, and the register
accesses of the bench, each with a failing link; a hart slower than the link; the
sensor table, with a caller that halts the hart first; the bench from its start; and the port from its start again and
again, reset at any point. A bulk write of three
words has a first word, a last word and one between. Nothing bounds the number
of calls: all state spaces are finite and explored completely. `writes` is
emptied by each call, and a call issues at most `MaxLen` memory commands.

`Flash` scales the sizes down and keeps their ratios where the code depends on
them: a page is more words than go out before the command (`FillWords`, 4 in the
code, 2 here), a sector more than a page, the limit (`MaxSectors`) reachable.
The requests cover a page exactly, a part of one, one that begins within a page,
one that ends on the boundary, two boundaries, an empty range, a range that is
the wrong way round (`UintRange` is where the difference wraps), more sectors
than the limit, and each refusal. A byte of the buffer (`Buffer`) is its place plus one, so
a byte in the wrong cell is told from the right one; programming a cell twice
gives `Worn`. Writes and reads that begin or end within a word are among them,
and an erase whose end lies before its start, which `openflashloader-main`
carries out round the whole flash and further (`UintRange`, where the difference
wraps, is three times the flash). `Untouched` is what the buffer held before a read. `Scan` has the real 41,
32 and 5 bits; the words are not symmetric, so an exchange or a shift of bits
shows. In `Spi` a transfer of three bytes fills the FIFO of two and leaves one to
wait, `TimesOut` is 500 in the code and 3 here, so a wait has a first, a middle
and a last poll; calls of no bytes, which touch nothing but FMT, are left out. `MaxShifts` caps the count of clocks in Shift-DR above the length of any
command, `NoPart` stands for no first scan.

Data are abstract where no property looks at them: a word is one of a few
values, registers hold whole values, the access size matters only in SBCS, and
accesses of more than 32 bits are left out (`riscv_xlen` never changes and every
call in the repository asks for 32 bits).

### The environment

The hardware is not in the repository. Its modules state what the RISC-V Debug
Specification 0.13 gives the registers the drivers touch, restricted to the
fields they use; `CJtagTap` what IEEE 1149.1 and 1149.7 give the edges the driver
makes (the reset escape, the control level, the two commands, check packets,
OScan1); `FlashController` what the waits of the flash functions rely on. The
test key that `dbg_test_init` sends first is read by nothing in the repository:
in `Scan` it leaves the chip anywhere, in the middle of a packet, a command or
the format of an earlier session; the driver may have been reset and the chip not.
A line that nobody drives reads 1: the port sets the pull-up of TMS
(`jtag_function.c` 133), the bench the value itself (`jtag_model.sv` 49). So does
TDI of the port with two wires, which is never made an output (`jtag_function.c`
125-134): `TdiPin` is 1 there whatever the driver writes to it, before the switch
and after.
`SpiController` is what the waits of the SPI drivers distinguish. The regimes
are constants or rigid variables, and each run names its own: `SlowBus`, and
`slow` of a session (may a transfer or a command outlast the driver's patience),
`faults` (may a register access fail), `StickyLink` (does a failed link stay
failed; it does under the debug specification, because no code in the repository
resets the status of the DTM; `FailureStays` of `Dmi` shows it for the scans).
An access that fails was carried out or not by the time the call goes on; one
that is carried out later still is in `Dmi` only.

### Fairness

`CallsReturn` assumes weak fairness of the driver's own steps: the functions are
straight code with bounded loops in one thread, and nothing in them waits. The
bus, the hart, the caller and the memory have no fairness. In `Dmi` a *prompt*
Debug Module also finishes the operation it has begun; that conjunct is void in
the set-ups that are not prompt. In `Flash` the commands on the wire (`Wire`) and
the operations of the flash (`Array`) come to an end too, each with a weak
fairness of its own: they are hardware that nothing interrupts, and the loops
have no limit, so without it no call could be said to return. The property
excepts a link that has failed: then `while((temp & 0x4) == 0)` reads 0 for ever;
and a write that is not of whole words. In `Spi` only the driver is fair: its
waits are counted, so a call returns even from a controller that stands still.

## 4. What is proved

The theorems hold for every value of the constants that satisfies the assumptions
named in the modules; an `ASSUME` in a theorem says what else it needs, and the
text below says why it cannot be dropped. TLC evaluates the assumptions on every
run, and each strengthening was checked as an invariant before it was proved, but
for `StepInv` and `OnWay` of `Scan`, which speak of sets of views that cannot be
enumerated.

### System bus access

For every set of addresses and words, every `PollLimit`, every set of sizes and
both programs. `NoCall` and `NoWord` are no values of the program, `Mapped` and
`Unmapped` are disjoint, the limit is a positive number, sizes are sets of size
bits.

`SysBusProofs`, on every hardware:

- `TypeCorrect`: `Spec => []TypeOK`. `TypeOK` is inductive; one lemma for each
  register access of the bus block, one for the polls, one step for each action.
- `QuietAfterSuccessHolds` and `AskedOnlyHolds`. Neither is inductive. The
  strengthening `BusInv` says why they hold: from the poll that found the bus
  free to the end of the call nothing starts a transfer (`QuietInv`), and when
  a write hands over its word sbreadonaddr is clear, and SBADDRESS0 is its own
  address unless an error bit keeps the bus idle (`AskedInv`). The last case is
  the one an informal argument misses: an address write that came while an old
  transfer was running is dropped, and only the error bit it leaves protects
  the old address.

The second part of `SysBusProofs`, under `Regime` (the bus ends transfers before the last poll,
a failed link stays failed, every size that can be in SBCS is supported):

- `SuccessMeansTakenHolds`. The strengthening follows a call access by access
  while the link is up (`CallInv`): the bus is free and the size bits are those
  of reset or none; `r_data` is SBCS, so writing it back clears the error bits;
  SBCS is armed; the transfer is on the bus or has ended; the word is in SBDATA0;
  it is in `*data`. `HistoryInv` ties the history to the transfer on the bus, on
  a failed link too.
- `Implements`: `Spec => PortSpec`, by the same invariant. A step of the driver
  is a stutter or the start or the return of a call, and the end of a transfer
  is where the access takes effect, for its own call (`Take`) or late
  (`LateTake`, `LateDrop`).

No assumption of `Regime` can be dropped: `SysBusStale` is the counterexample on
a slow bus; with `StickyLink = FALSE` the port's unchecked read, and with a size
the bus refuses either program, violates `SuccessMeansTaken`.

### Register access (DMI)

`DmiProofs`, for every set of registers and words, every `MaxTimeout` and both
programs:

- `TypeCorrect`, on every hardware.
- `SuccessMeansTakenHolds`, `QuietAfterSuccessHolds` and `Implements`
  (`Spec => PortSpec`) assume `AllTrusted`: a DTM is sticky, or it is prompt and
  driven by the loop of the original. `DmiInv` is the strengthening: after the
  launch the operation of the call is under way, was carried out with its word in
  DMIDATA, or failed (`Outcome`), or the DTM is stuck on an error (`Stuck`) and
  carries out nothing any more; what was captured says which (`FetchInv`). In the
  refinement the Debug Module carries an operation out for its own call or late,
  and a captured answer that is fetched again is a stutter. TLC refutes
  `SuccessMeansTaken` where `AllTrusted` fails: the loop takes the answer of an
  earlier operation when the DTM is neither sticky nor prompt, and so does the
  port when it is not sticky.
- `BusyIsNoErrorHolds` assumes `Patient`: prompt hardware is driven by the
  original's loop and is not sticky. A sticky DTM keeps the busy status of the
  first fetch for ever, and the port gives up at once (`DmiBusy`).
- `FailureStaysHolds`, on every hardware: it speaks of the sticky DTM, where a
  call that failed leaves a status that nothing resets.

### Abstract commands

`AbsCmdProofs`, for any memory and words, any length of a bulk write, and
sessions of all kinds (slow hart, failing link, resets):

- `TypeCorrect`. A function is a list of accesses; one lemma for each takes its
  list apart, and no later proof looks at a list again.
- `AutoexecOffHolds`. `AutoInv`: autoexec is on only between the fourth access and
  the last of a bulk write, or after one that was cut short there (`cut`).
- `OnlyAskedHolds` and `NoneAstrayHolds`. What a command stores is what DATA0,
  DATA1, s0, s1 and the program buffer hold by then, so the strengthening
  `WriteInv` says function by function what the accesses carried out so far have
  left there (`Course`), as long as each was carried out (`Clean`). From it
  follows what a command stores when it is started (`StartAsked`), and that no
  later access of a call changes it before the hart is done (`OneOfIssuer`, and
  `NextOfCall` when the hart keeps up).

- `WorkDoneHolds`, of a call that returns at all, whatever value: the functions of the
  sensor table and three of the bench return one that nobody set. A call that finds
  things in order sends commands that the hart
  accepts (`InOrderInv`: halted, active, no error, and autoexec off because a start-up
  that left things in order cleared it, `ready => ~cut`). `WorkInv` says per function
  what has been achieved between two accesses: the command that runs, or what it
  has left in DATA0, s0, s1 and the program buffer. The writes of a
  call that was cut short nowhere are all of those it asks for (`AllOfThem`).
- `StartedInOrderHolds`. `StartInv`, of both start-ups: after the reset pulse of the
  port nothing runs; the trial command ends in an error whatever it finds, and the
  clearing access that follows meets a hart that is done with it.

All but `TypeCorrect` assume `NoSlowBulk`: no caller gives a bulk write to a hart
slower than the link. Its accesses would come while the command still runs and be
dropped, the one that switches autoexec off among them, and TLC then violates
`AutoexecOff` and `NoneAstray`.

`StartedInOrderHolds` assumes `CleanStarts` as well: a start-up meets a hart that
keeps up (its accesses do not wait for its trial command, and a slow hart would
drop them), and the bench is not restarted, because what restarts it is
a new simulation with new hardware. Unlike the port the bench does not pulse reset; that it may
start again after a bulk write that failed is because the failure that cut it short has also ended
the link (`LinkInv`).

### Flash

`FlashProofs` and `FlashDone`, for every size of word, page, sector, memory and
FIFO that divide one another as `FlashSizeAssumption` says, every set of calls,
any contents of the buffer, all three programs, and a link that may break at any
access:

- `TypeCorrect`, `CacheOffAtWorkHolds`, `OutsideUntouchedHolds`, `BufferKeptHolds`,
  from one inductive invariant, `FlashInv`. `LoopInv` says where in the call an
  access is: `done` is at the beginning of a sector or page and before the end of
  the call, `i` before the words of this page. `Course` says what the controller
  and the flash are doing at each access while the link works, `WireInv` what a
  command on the wire has left to do, link or no link. `RegionInv` is why nothing
  else changes: the cells that the command on the wire and the operation in the
  flash are going to change belong to a call, although the registers may be
  written again by then and the link may have broken. Its two arithmetical facts
  are that a sector never leaves the range of an erase, even when the range goes
  round the flash, and that no page of a write wraps (`SectorInRegion`, `NoWrap`).
- `OkMeansDoneHolds`. `WorkInv` follows the data, over a link that works: the latch
  is set when an erase or program command ends (`Enabled`); the words in the FIFO
  and the bytes in the command are the next ones of the buffer and together those
  of the words sent so far, so none was lost and none is left at the end of the
  page (`Feed`); the flash is at work on the sector or page of this turn
  (`Working`); the words that came and wait are those that come next in the flash
  (`Queue`); everything up to the mark of this turn is done and nothing after it
  (`Achieved`); the loop starts at the first byte and ends at the last (`Ended`).
- `Implements`: `Flash` implements `FlashStore`. The mapping takes the history
  `units` and `late` for the units that have changed and the one left under way, and
  every step of the driver, the controller and the flash but a call, a return, the
  end of an operation and the break of the link is a stutter. Two more invariants carry it. `CountInv` holds
  while the link works: `units` is the number of the sector or page that this turn of
  the loop is about, and all of them when the loop ends, so a 0 comes after the last.
  `OwnInv` holds on a dead link too, where `done`, `i` and `cur_count` tell nothing:
  a command on the wire and the operation in the flash are for the next unit of
  the call in progress, whole, or for the one an earlier call left (`late`); and a
  call whose command is on the wire is at an access from which a dead link lets
  it not return (`HeldPcs`), so at most one unit is left behind, and no command is
  started over it. Beside `FlashSizeAssumption` the theorem takes `NoCallAssumption`:
  the value for "no call" is none of the calls.

The solver has no theory of division by a parameter. The first part of
`FlashProofs` holds the few facts about quotients and remainders the rest needs
(`Divided`, `DividedOnce`, `Nested`, ...).

### SPI

`SpiProofs`, for every number of polls, every width of the counter above it, all
FIFOs and lengths and both drivers:

- `TypeCorrect`, with `LoopInv`: where a call is says how far it came, so that the
  buffer of `spi_rx` is never filled past its length.
- `EarlyIsNoErrorHolds`: an error of the SPI drivers means that a wait came to its
  last poll. The strengthening `WaitInv` ties the unsigned counter to the polls
  that were made: as long as a wait goes on they add up to `TimesOut`, so that the
  counter is 0 after the last poll, never before it, and never again once it wrapped.
- `OkMeansDoneHolds` and `FramesAsWrittenHolds`, from `SpiInv`. Its core, `Clean`,
  holds from an init that found the controller at rest (`QuietInv`) to the first
  wait that comes to its last poll. It accounts for every byte of the call: those
  that went out, the one on the wire and those in the FIFO are, in this order, the
  bytes written so far (`Gone`, `Waiting`); the answer `spi_rx` waits for belongs
  to a byte that is in one of three places (`Awaited`), and a byte of `spi_tx`
  that fespi left on the wire ends before it. Both assume `MarkIsOne`: fespi's
  watermark shows an empty FIFO only when it is at one, which is what the
  repository relies on and nothing sets (section 5). nuspi needs no assumption.

### Scan

`ScanProofs` and `ScanData`, for every set of registers, words and answers, both
programs, four wires and two, and any state of a chip that a start-up may find.
The widths (41, 32 and 5 bits) and the instruction codes (0x11 and 0x10) are those
of the drivers.

- `InStepHolds`, `ReadyBetweenCallsHolds`, `MonitorFollowsHolds`. A call is a list of
  up to a hundred pin operations. What the chip does at each depends on the TAP,
  the slot of the packet, the level of the adapter and the command half given to
  it: a `View`. `Goes` is what an operation does to a view (`DoesGo` ties it to
  `Step`, packet by packet). `Leads(l, A, B)` says that the list takes every view of
  `A` to one of `B`, by a set of views for each place (`Course`), through the TAP
  states its operations are named for. Each function of the driver has one such
  lemma (`SendDr`, `SendIr`, `DrScan`, `ResetLeads`, `SwitchLeads`, ...), `LeadsJoin`
  puts them together as the code does, and `ListsLead` says it of each list of
  each call. `StepInv`, the inductive invariant, says that the view after `k`
  operations is one that a course of the list in progress has at `k`. A start-up
  from a chip that may be anywhere begins in the set of all views; five clocks
  with TMS high leave Test-Logic-Reset (`Rising`).
- `OpsAsAskedHolds`. `DataInv` follows an access bit by bit: `ScanAt` says what the
  register of the chip, what was captured and the driver's `temp_tdo_reg` hold
  after `j` bits of a scan (`ScanBegins`, `ScanStep`, `ScanEnds`), so that Update-DR
  puts the word that was sent; and the instruction register holds the code that
  `send_ir` sent by the time it matters.
- `NothingReachesMuteHolds`. A chip without an adapter takes each packet for three
  clocks of its TAP, and where they take it depends on the data. `MuteInv` says
  what does not: the edges after the escape have left it in Test-Logic-Reset with
  IDCODE selected, and TDI stays at one level from then on, high in the port and
  low on the bench. Whatever instruction it goes on to select is IDCODE with that
  bit shifted in (`Drawn`): never 0x11, which ends in 1 and has zeros before it.
- `MuteIsBusyHolds`. `BusyInv`: each bit sampled from the undriven line is 1, so
  the word in `tdo_reg` has the status busy.
- `TypeOKHolds`, with `RestInv` for the count of fetches.
- `AnswerArrivesHolds`. An access has its answer from `DataInv` (`Got`). The start-up
  has an invariant of its own, `AnswerInv`: up to the Capture-DR of rdback0 the view
  is on a course that ends there (`OnWay`, from the lemma about the switch,
  `RdbackLeads`), and `AtHome` follows the 51 operations from there: the 32 bits of
  the scan, the check packet, and the instruction scan that leaves the control level
  without touching what was read. With four wires the start-up is the reset alone
  (`FourInv`): nothing is read, and what a TAP caught in Capture-DR captures on its
  way is as empty as `tdo_reg`.

### Only model-checked

Every invariant of the runs that pass is proved, every action property but one,
and all three refinements. Two things are left to TLC. Liveness (`CallsReturn`) is
outside the prover's reach. `OneStrayWord` of `Scan` is the action property that is
not proved: the invariants of `ScanProofs` follow the TAP and the adapter through
the start-up but not the instruction register of a chip that follows the switch,
and the proof needs that too.

## 5. What the checks found

Five runs end in a violation, each against a line of the repository (quoted in
`PROJECT.json`): a stale word after a TIMEOUT; the access size or-ed into SBCS;
the lost retry loop of the port; cmderr and the halt request never awaited or
read; three functions without a return statement, whose writes are done and may
be reported as errors. The other runs show what the code does guarantee, which is
more than it looks: the port's unchecked system bus read is saved by the sticky
status of the DTM and the check of its last access, and a write after an abandoned
read is saved by clearing sbreadonaddr.

What was seen on the way, without a run of its own:

- `flash_write` announces `cur_count` bytes and sends `cur_count/4` words. With a
  count that is not a multiple of four the command waits for bytes that never
  come and the function waits for the command. `CallsReturn` excepts such a write
  (`Whole`) and fails without the exception.
- A flash call over a link that fails returns 0 unless it hangs: no function
  looks at an error.
- `openflashloader-main` has no limit on the sectors: an end before the start
  erases round the whole flash. `FlashStore` therefore takes addresses modulo the
  size of the flash.
- `dbg_test_init` does not clear ABSTRACTAUTO. When a bulk write was cut short, by
  a failed access or a reset of the program, with cmderr set, the trial COMMAND is
  refused, cmderr is then cleared, and the next write of one word runs the command
  of the bulk write as well as its own and stores the word at two addresses. When
  cmderr was clear the trial command is the one that autoexec runs, and the next
  write is lost. `OnlyAsked`, `NoneAstray` and `AutoexecOff` except the calls after
  such a bulk write (`cut`) and fail without the exception.
- The SPI drivers test `0 >= times_out` after `while (times_out--)`. A wait that
  ran out leaves the counter at its largest value and the call goes on and returns
  0; a wait that succeeded at its very last poll leaves 0 and is the error:

  | the controller is ready | `times_out` after the loop | the call |
  |---|---|---|
  | before the last poll | 1 or more | goes on, as it should |
  | at the last poll | 0 | returns an error |
  | never | 2^32 - 1 | goes on: the byte is lost, or read from an empty FIFO |

  So an error is never a timeout. The properties of `Spi` say what is left: until
  a wait comes to its last poll 0 means done, and no earlier wait gives an error.
- `spi_tx` of fespi waits for the watermark, which is pending when the FIFO is
  empty and the last byte still on the wire. `FramesAsWritten` depends on the
  watermark being one: with a higher one `spi_rx` would turn the direction of
  bytes that have not left. No code of the repository writes the watermark: its
  value is the one the hardware starts with.
- `spi_rx` right after `spi_tx` of fespi gets its own answers, although a byte is
  still on the wire: that byte left with direction TX and puts nothing into the FIFO.
- A start-up can put an operation nobody asked for into the DMI register. When the
  program was reset in the middle of a scan, the clocks of `jtag_reset` take the TAP
  from Shift-DR or Exit1-DR through Update-DR, with whatever the shift register
  holds. The code cannot know; `OneStrayWord` says that it stays at one word, which
  arrives on the way to Test-Logic-Reset, and that the scans of the switch, which
  pass Update-DR many times, add none.
- A chip without an adapter takes the two-wire packets for walks of its TAP, three
  clocks each. `NothingReachesMute`: none of them leads an operation of an access
  into the DMI register, for Test-Logic-Reset has selected IDCODE and with TDI at
  one level no walk selects DMI.
  `MuteIsBusy`: the pulled-up line reads as busy, so every access is an error.
- `jtag_reset` of the port with two wires leaves TCK high, so the next rising
  edge is lost; in the only call, within the switch, the next edge does no harm.
- The bench's monitor leaves Exit2-DR for Capture-DR (`jtag_model.sv` 749), where
  the TAP goes to Shift-DR, and takes each clock of a two-wire packet for a clock
  of the TAP. `MonitorFollows` holds where neither happens.
- `access_dtm_register` has no caller. The port assigns the result to its own
  parameter; the bench moves it down a second time, by nine bits. No function of
  the repository calls the SPI drivers either (`custom-spi.c` is empty).

## 6. What is left, and the plan

Not modelled: pin levels while TCK is low, delays and GPIO tables (pure I/O);
what `access_dtm_register` makes of its scan (no caller); the steps through
Pause and Exit2 (nothing calls them); the modes `SYS_BUS` of the sensor table, which
hand on to modelled functions; the test key of `StartJtagTask`, which nothing in the
repository receives; SPI registers that are written once; the testbench's own bus
write, whose every outcome ends the simulation; board files, linker scripts,
generated headers, waveforms.

In this order:

1. A proof of `OneStrayWord`, from an invariant on the instruction register.
2. That `Scan` implements the scan that `Dmi` takes as a step.
3. A composition of `SysBus` over `Dmi` (in place of `Answered` and `Failed`).
4. `jtag_reset` on its own with two wires.
