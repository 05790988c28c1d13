-------------------------------- MODULE MCFlash --------------------------------
(***************************************************************************)
(* A flash of two sectors of two pages of three words of two bytes.        *)
(***************************************************************************)
EXTENDS Flash

\* Each byte of the buffer can be told.
MCBuffer(j) == j + 1

Plain == {[f |-> "init"], [f |-> "unknown"]}
Erase(from, to) == [f |-> "erase", from |-> from, to |-> to]
Write(o, n, al) == [f |-> "write", offset |-> o, count |-> n, aligned |-> al]
Read(o, n, al)  == [f |-> "read", offset |-> o, count |-> n, aligned |-> al]

\* Whole words and parts of words; within a page, over one or two page ends,
\* nothing at all; an end before the start, and past the end of the flash.
MCRequests ==
  Plain
    \cup {Erase(0, 12), Erase(12, 13), Erase(0, 24), Erase(12, 12),
          Erase(6, 12), Erase(12, 0), Erase(0, 40)}
    \cup {Write(0, 6, TRUE), Write(2, 4, FALSE), Write(4, 10, TRUE), Write(8, 12, TRUE),
          Write(4, 5, TRUE), Write(1, 6, TRUE), Write(6, 1, TRUE)}
    \cup {Read(0, 6, TRUE), Read(4, 13, TRUE), Read(0, 2, FALSE), Read(1, 2, TRUE),
          Read(2, 0, TRUE)}
===============================================================================
