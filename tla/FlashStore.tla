------------------------------ MODULE FlashStore ------------------------------
(***************************************************************************)
(* What flash_init, flash_erase, flash_write and flash_read promise: a     *)
(* flash that changes sector by sector and page by page, in ascending      *)
(* order, each of them whole and once; 0 when all of them have changed;    *)
(* and a read that returns the bytes that are there.  When the link to the *)
(* flash breaks a call may end early or never, and the unit that was under *)
(* way may still change later; nothing else does.                          *)
(***************************************************************************)
EXTENDS Naturals

CONSTANTS PageSize, SectorSize, MemSize,
          Erased, Bytes,
          Buffer(_),          \* the bytes of the buffer a write is given
          Programmed(_, _),   \* what programming makes of a byte
          NoCall

VARIABLES cells,
          call,      \* what is asked for: op, at, and count of sectors or bytes
          units,     \* how many of its sectors or pages have changed
          late,      \* a unit a call that has ended left under way
          link,
          reply,
          result     \* the bytes of a read that has returned

store == <<cells, call, units, late, link, reply, result>>

Cells == 0 .. MemSize - 1
NoResult == <<>>

\* The sectors or pages of a call.
Units(c) ==
  CASE c.op = "erase" -> c.count
    [] c.op = "write" /\ c.count > 0 -> ((c.at % PageSize) + c.count + PageSize - 1) \div PageSize
    [] OTHER -> 0

\* The flash after unit n, counted from 0, of call c.
After(c, n) ==
  IF c.op = "erase"
  THEN LET sector == ((c.at + n * SectorSize) % MemSize) \div SectorSize
       IN  [a \in Cells |-> IF a \div SectorSize = sector THEN Erased ELSE cells[a]]
  ELSE LET page == c.at \div PageSize + n
       IN  [a \in Cells |->
              IF a \div PageSize = page /\ a >= c.at /\ a < c.at + c.count
              THEN Programmed(cells[a], Buffer(a - c.at)) ELSE cells[a]]

Init ==
  /\ cells = [a \in Cells |-> Erased]
  /\ call = NoCall /\ units = 0 /\ late = NoCall
  /\ link = "up" /\ reply = "none" /\ result = NoResult

Begin ==
  /\ call = NoCall
  /\ call' # NoCall /\ units' = 0
  /\ reply' = "none" /\ result' = NoResult
  /\ UNCHANGED <<cells, late, link>>

Reject ==
  /\ call = NoCall
  /\ reply' = "error" /\ result' = NoResult
  /\ UNCHANGED <<cells, call, units, late, link>>

Change ==
  /\ call # NoCall /\ late = NoCall
  /\ units < Units(call)
  /\ cells' = After(call, units)
  /\ units' = units + 1
  /\ UNCHANGED <<call, late, link, reply, result>>

ChangeLate ==
  /\ late # NoCall
  /\ cells' = After(late.call, late.unit)
  /\ late' = NoCall
  /\ UNCHANGED <<call, units, link, reply, result>>

Return ==
  /\ call # NoCall
  /\ link' \in {link, "down"}
  /\ \/ units = Units(call) /\ late' = late
     \/ link' = "down" /\ late' = late
     \/ link' = "down" /\ late = NoCall /\ late' = [call |-> call, unit |-> units]
  /\ result' \in
       IF call.op # "read" THEN {NoResult}
       ELSE IF link' = "up" THEN {[k \in 0 .. call.count - 1 |-> cells[call.at + k]]}
       ELSE [0 .. call.count - 1 -> Bytes]
  /\ reply' = "ok"
  /\ call' = NoCall /\ units' = 0
  /\ UNCHANGED cells

Break ==
  /\ link' = "down"
  /\ UNCHANGED <<cells, call, units, late, reply, result>>

Next == Begin \/ Reject \/ Change \/ ChangeLate \/ Return \/ Break

Spec == Init /\ [][Next]_store
===============================================================================
