--------------------------------- MODULE MCSpi ---------------------------------
(***************************************************************************)
(* Spi for TLC: FIFOs of two bytes, waits of three polls, calls of one    *)
(* and three bytes, so that a call fills the FIFO.  times_out wraps at 8,  *)
(* which is all it takes: after a wait it is 0, the largest value or the   *)
(* polls that were left.                                                   *)
(***************************************************************************)
EXTENDS Spi
===============================================================================
