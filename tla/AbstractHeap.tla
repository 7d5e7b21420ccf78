---------------------------- MODULE AbstractHeap ----------------------------
(***************************************************************************)
(* What a heap promises a program, whatever its data structures are: every *)
(* request is answered by an extent that overlaps no extent still held, or *)
(* the program stops; and the first word of an extent changes only when    *)
(* the program writes it.  The allocator of DcHeap implements this.        *)
(***************************************************************************)
EXTENDS Integers

CONSTANTS
  Lo, Hi,     \* the heap is the bytes Lo .. Hi - 1
  Words       \* what a machine word can hold

VARIABLES
  block,    \* start of each held extent |-> its size in bytes
  cell,     \* start of each held extent |-> the word stored there
  failed    \* the program was stopped for want of memory

vars == <<block, cell, failed>>

Disjoint(s, n, t, m) == s + n <= t \/ t + m <= s

Init == block = [s \in {} |-> 0] /\ cell = [s \in {} |-> 0] /\ failed = FALSE

\* The extent's first word may hold anything.
Allocate(s, n) ==
  /\ ~failed
  /\ s \notin DOMAIN block
  /\ Lo <= s /\ s + n <= Hi
  /\ \A t \in DOMAIN block : Disjoint(s, n, t, block[t])
  /\ block' = [t \in DOMAIN block \cup {s} |-> IF t = s THEN n ELSE block[t]]
  /\ \E w \in Words :
       cell' = [t \in DOMAIN cell \cup {s} |-> IF t = s THEN w ELSE cell[t]]
  /\ UNCHANGED failed

Store(s, w) ==
  /\ ~failed
  /\ s \in DOMAIN block
  /\ cell' = [cell EXCEPT ![s] = w]
  /\ UNCHANGED <<block, failed>>

Free(s) ==
  /\ ~failed
  /\ s \in DOMAIN block
  /\ block' = [t \in DOMAIN block \ {s} |-> block[t]]
  /\ cell'  = [t \in DOMAIN cell \ {s}  |-> cell[t]]
  /\ UNCHANGED failed

Fail == ~failed /\ failed' = TRUE /\ UNCHANGED <<block, cell>>

Next ==
  \/ \E s \in Lo .. (Hi - 1), n \in 0 .. (Hi - Lo) : Allocate(s, n)
  \/ \E s \in DOMAIN block, w \in Words : Store(s, w)
  \/ \E s \in DOMAIN block : Free(s)
  \/ Fail

Spec == Init /\ [][Next]_vars
=============================================================================
