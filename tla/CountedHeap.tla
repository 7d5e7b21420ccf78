---------------------------- MODULE CountedHeap ----------------------------
(***************************************************************************)
(* The reference-counting instructions of DC-IR as functions from heaps to *)
(* heaps, for the modules about the code that contains them.  An object    *)
(* has one nullable reference field.  A Release is done with all it brings *)
(* down; ArcRuntime takes it apart, and lays it out in memory.             *)
(***************************************************************************)
EXTENDS Naturals, FiniteSets

CONSTANTS
  Objs,  \* blocks of the heap
  Null   \* the null reference

ASSUME CountedHeapAssumption == Null \notin Objs /\ IsFiniteSet(Objs)

Ref == Objs \cup {Null}

\* held: the block is taken.  strong 0 and held: a zombie.
CountedHeaps == [Objs -> [held : BOOLEAN, strong : Nat, weak : Nat, next : Ref]]

FreeBlock == [held |-> FALSE, strong |-> 0, weak |-> 0, next |-> Null]

\* Alloc, with the field set.
Alloc(h, o, next) == [h EXCEPT ![o] = [held |-> TRUE, strong |-> 1, weak |-> 0, next |-> next]]

Retain(h, o) == IF o = Null THEN h ELSE [h EXCEPT ![o].strong = @ + 1]

FreeIfUnused(h, o) ==
  IF h[o].strong = 0 /\ h[o].weak = 0 THEN [h EXCEPT ![o] = FreeBlock] ELSE h

\* One decrement, and the reference the destructor releases next, if any.
Decrement(h, o) ==
  LET dead == h[o].strong = 1
      less == [h EXCEPT ![o].strong = @ - 1, ![o].next = IF dead THEN Null ELSE @]
  IN  <<FreeIfUnused(less, o), IF dead THEN h[o].next ELSE Null>>

\* Release: down the fields until an object survives.
Release(h, o) ==
  LET down[n \in 0 .. Cardinality(Objs)] ==
        IF n = 0 THEN <<h, o>>
        ELSE LET before == down[n - 1] IN
             IF before[2] = Null THEN before ELSE Decrement(before[1], before[2])
  IN  down[Cardinality(Objs)][1]

MakeWeak(h, o) == [h EXCEPT ![o].weak = @ + 1]
DropWeak(h, o) == FreeIfUnused([h EXCEPT ![o].weak = @ - 1], o)

\* o and what hangs on it: what every set has that has o and follows the
\* fields.
Behind(h, o) ==
  {p \in Objs :
     /\ o # Null
     /\ \A C \in SUBSET Objs :
          o \in C /\ (\A q \in C : h[q].next \in C \cup {Null}) => p \in C}

\* The counts are those of a ledger of owners, S of strong and W of weak
\* references, and of the fields; only what is alive has a field, and a block
\* is taken while it is counted.
Counted(h, S, W) ==
  /\ h \in CountedHeaps
  /\ \A o \in Objs :
       /\ h[o].strong = S[o] + Cardinality({p \in Objs : h[p].next = o})
       /\ h[o].weak = W[o]
       /\ h[o].strong = 0 => h[o].next = Null
       /\ h[o].held <=> h[o].strong > 0 \/ h[o].weak > 0
=============================================================================
