------------------------------- MODULE MCAbsCmd -------------------------------
(* Instances of AbsCmd: cells in a row and one address after them where    *)
(* nothing is; two words, one of which is an address too, so that a stale  *)
(* word in DATA1 or s0 can do damage.                                      *)
EXTENDS AbsCmd

MCMapped   == {1, 2}
MCUnmapped == {3}
ThreeCells == {1, 2, 3}
AfterThree == {4}
MCWords    == {2, 5}

WithBulk == {"halt_cpu", "resume_cpu", "clear_cmderr", "read_memory_abs",
             "write_memory_abs", "write_memory_bulk"}
WithBuf  == {"halt_cpu", "clear_cmderr", "read_memory_buf", "write_memory_buf",
             "write_memory_abs"}
WithXpr  == {"halt_cpu", "resume_cpu", "read_memory_buf", "read_register",
             "read_xpr_buf", "write_xpr_buf", "write_register"}
NoBulk   == {"halt_cpu", "clear_cmderr", "read_memory_buf",
             "write_memory_abs", "write_memory_buf"}

Session(p, fs) == [program |-> p, functions |-> fs, addrs |-> Addrs,
                   slow |-> FALSE, faults |-> FALSE, crashes |-> FALSE]

InC(fs)     == Session("jtag_function", fs)
InBench(fs) == Session("dbg_test_init", fs)
Faulty(s)   == [s EXCEPT !.faults = TRUE]

\* Where no call goes along the row, two cells and the hole are enough.
At(as, s)   == [s EXCEPT !.addrs = as]
TwoAndHole  == MCMapped \cup Unmapped

InOrder == {InC(WithBulk), At(TwoAndHole, InC(WithBuf)), At(TwoAndHole, InBench(WithXpr))}

\* A hart in its own time; the sensor table; the bench from its start; the
\* port from its start, again and again.
Slow    == [At(MCMapped, InC(NoBulk)) EXCEPT !.slow = TRUE]
Table   == Faulty(Session("sensor_table", TableFunctions \cup {"halt_cpu"}))
Start   == Faulty(InBench({"dbg_test_init", "write_memory_abs", "clear_cmderr"}))
Crashes == [InC({"dbg_test_init", "halt_cpu", "write_memory_abs", "write_memory_bulk"})
              EXCEPT !.crashes = TRUE]

Separate == {Faulty(s) : s \in InOrder} \cup {Slow, Table, Start, Faulty(Crashes)}
Bench    == {InBench({"halt_cpu", "clear_cmderr", "write_memory_abs", "write_memory_buf",
                      "read_memory_abs"})}
===============================================================================
