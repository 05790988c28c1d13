-------------------------------- MODULE MCScan --------------------------------
(***************************************************************************)
(* The real widths; two words and two registers that are not their own     *)
(* mirror images; the DMI register answers, is busy, or failed; a scan cut *)
(* off by a reset leaves a write in the shift register.                    *)
(***************************************************************************)
EXTENDS Scan

\* The n low bits of v, lowest first.
BitsOf(n, v) == [j \in 1 .. n |-> (v \div 2^(j - 1)) % 2]

AllSetups == {<<"C", 2>>, <<"C", 4>>, <<"SV", 2>>}
DmiCodeBits == BitsOf(5, 17)
DtmcsCodeBits == BitsOf(5, 16)
RdbackBits == BitsOf(16, 16393) \o BitsOf(16, 41064)      \* 0xa0684009
DtmcsBits == BitsOf(16, 113) \o BitsOf(16, 4096)
WordA == BitsOf(16, 4660) \o BitsOf(16, 49374)
WordB == BitsOf(16, 65281) \o BitsOf(16, 7)
TheWords == {WordA, WordB}
TheRegs == {BitsOf(7, 56), BitsOf(7, 65)}
Answer(op, w, r) == BitsOf(2, op) \o w \o BitsOf(7, r)
TheRemains == {Answer(2, WordB, 16)}
TheAnswers == {Answer(0, WordB, 56), Answer(3, WordA, 1), Answer(2, WordB, 64)}
===============================================================================
