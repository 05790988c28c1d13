------------------------------- MODULE MCSysBus -------------------------------
(* Instances of SysBus: two cells and one address where nothing is.        *)
EXTENDS SysBus

CONSTANTS a1, a2, x1, w1, w2

MCMapped    == {a1, a2}
OneMapped   == {a1}
MCUnmapped  == {x1}
MCWords     == {w1, w2}

Size8  == {}
Size16 == {"sbaccess0"}
Size32 == {"sbaccess1"}

Only32      == {Size32}
AllSizes    == {Size8, Size16, Size32}
MCSupported == {Size8, Size16, Size32}
===============================================================================
