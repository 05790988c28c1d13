-------------------------------- MODULE MCDmi --------------------------------
(* Instances of Dmi: two Debug Module registers, two words.                *)
EXTENDS Dmi

CONSTANTS dmcontrol, sbcs, w1, w2

MCMapped == {dmcontrol, sbcs}
MCWords  == {w1, w2}

Setup(r, s, p) == [rescan |-> r, sticky |-> s, prompt |-> p]

\* Both programs on the hardware of the specification, which may answer at
\* any time or never; the test bench on the hardware its loop is written for.
Sound == {Setup(FALSE, TRUE, FALSE), Setup(TRUE, TRUE, FALSE), Setup(TRUE, FALSE, TRUE)}

\* The port on the hardware the loop of the original is written for.
Ported == {Setup(FALSE, FALSE, TRUE)}
===============================================================================
