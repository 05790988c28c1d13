------------------------------ MODULE AccessPort ------------------------------
(***************************************************************************)
(* What the caller of one access function may rely on, whatever registers  *)
(* the function goes through: debug_common.h describes read_memory,        *)
(* write_memory and the register accesses alike, "the return value is the  *)
(* access response. 0: no error 1: access error".                          *)
(*                                                                         *)
(* One caller makes one call at a time.  An access that is granted takes   *)
(* effect once, at some moment between the call and its return (Take).  A  *)
(* call that returns success was granted, and a read then hands out the    *)
(* word it saw at that moment.  A call that returns an error promises      *)
(* nothing, except that the cell it leaves behind is its own: at most one  *)
(* access may still be on its way (late), and it is one some call asked    *)
(* for.  The hart shares the cells and may store to them at any time.      *)
(***************************************************************************)
CONSTANTS Mapped,     \* the cells that exist
          Unmapped,   \* addresses a call may name although nothing is there
          Words,      \* what a cell holds
          NoWord,     \* no word was handed out
          NoCall      \* no call, no late access

VARIABLES mem,        \* the cells
          call,       \* the call being served
          taken,      \* whether it has taken effect
          seen,       \* the word a granted read saw
          late,       \* the access a failed call left behind
          ok,         \* the last return value was 0
          out         \* the word the last read handed out

vars == <<mem, call, taken, seen, late, ok, out>>

Calls == [op : {"read"}, addr : Mapped \cup Unmapped, data : {NoWord}]
           \cup [op : {"write"}, addr : Mapped \cup Unmapped, data : Words]

TypeOK ==
  /\ mem \in [Mapped -> Words]
  /\ call \in Calls \cup {NoCall}
  /\ taken \in BOOLEAN
  /\ seen \in Words \cup {NoWord}
  /\ late \in Calls \cup {NoCall}
  /\ ok \in BOOLEAN
  /\ out \in Words \cup {NoWord}

Init ==
  /\ mem \in [Mapped -> Words]
  /\ call = NoCall /\ late = NoCall
  /\ taken = FALSE /\ seen = NoWord
  /\ ok = FALSE /\ out = NoWord

\* The cells after access c: a write stores its word, a read stores nothing.
After(c) == IF c.op = "write" THEN [mem EXCEPT ![c.addr] = c.data] ELSE mem

Begin(c) ==
  /\ call = NoCall
  /\ call' = c
  /\ ok' = FALSE /\ out' = NoWord
  /\ UNCHANGED <<mem, taken, seen, late>>

\* The call takes effect, once.
Take ==
  /\ call # NoCall /\ ~taken
  /\ call.addr \in Mapped
  /\ taken' = TRUE
  /\ mem' = After(call)
  /\ seen' = IF call.op = "read" THEN mem[call.addr] ELSE NoWord
  /\ UNCHANGED <<call, late, ok, out>>

\* Success at an address that exists: the access was granted and the word
\* handed out is the one it saw.  At an address where nothing is, success
\* promises nothing.
ReturnOk ==
  /\ call # NoCall
  /\ call.addr \in Mapped => taken
  /\ IF call.addr \in Mapped THEN out' = seen ELSE out' \in Words \cup {NoWord}
  /\ ok' = TRUE
  /\ call' = NoCall /\ taken' = FALSE /\ seen' = NoWord
  /\ UNCHANGED <<mem, late>>

\* An error: granted or not, and if not then perhaps still to come.
ReturnError ==
  /\ call # NoCall
  /\ late' \in {late} \cup (IF taken THEN {} ELSE {call})
  /\ out' \in Words \cup {NoWord}
  /\ ok' = FALSE
  /\ call' = NoCall /\ taken' = FALSE /\ seen' = NoWord
  /\ UNCHANGED mem

\* The access left behind takes effect, or is dropped.
LateTake ==
  /\ late # NoCall /\ late.addr \in Mapped
  /\ mem' = After(late)
  /\ late' = NoCall
  /\ UNCHANGED <<call, taken, seen, ok, out>>

LateDrop ==
  /\ late # NoCall
  /\ late' = NoCall
  /\ UNCHANGED <<mem, call, taken, seen, ok, out>>

HartStore ==
  /\ \E a \in Mapped, w \in Words : mem' = [mem EXCEPT ![a] = w]
  /\ UNCHANGED <<call, taken, seen, late, ok, out>>

Next ==
  \/ \E c \in Calls : Begin(c)
  \/ Take \/ ReturnOk \/ ReturnError
  \/ LateTake \/ LateDrop
  \/ HartStore

Spec == Init /\ [][Next]_vars
===============================================================================
