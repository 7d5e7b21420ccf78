----------------------------- MODULE ArcRuntime -----------------------------
(***************************************************************************)
(* The reference-counting runtime the backend expands inline, over the     *)
(* heap of DcHeap: Alloc, Retain, Release, MakeWeak, WeakLoad and DropWeak *)
(* of core/backend/lib/llvm_emit.dart, and the destructors lower.dart      *)
(* builds (ADR-0022, ADR-0023).                                            *)
(*                                                                         *)
(* The first word of a block is its header, strong and weak, while the     *)
(* block is held, and the free-list link of DcHeap once it is not.  The    *)
(* program is any one that respects ownership: it releases a reference it  *)
(* holds, and reaches objects through references it holds.  Each action is *)
(* one DC-IR instruction; a reference moves between a local (roots) and a  *)
(* field without touching a count.  A Release that reaches zero runs the   *)
(* destructor, one field per step, and nothing else runs meanwhile: there  *)
(* is one thread.                                                          *)
(***************************************************************************)
EXTENDS DcHeap, Sequences

CONSTANTS
  CountMod,    \* 2^32 in the source: the counts are two u32
  FieldCount,  \* the heap-typed fields of a class that has any
  Payloads,    \* leaf and node |-> the payload bytes of each
  MaxRoots,    \* bound: references the program holds to one object
  MaxWeaks,    \* bound: weak references the program holds to one object
  MaxObjects   \* bound: objects allocated and not freed

Fields == 1 .. FieldCount
Kinds  == {"leaf", "node"}    \* without and with heap-typed fields

Headers == 0 .. (CountMod * CountMod - 1)

ASSUME ArcAssumption ==
  /\ CountMod \in Nat /\ CountMod > MaxRoots + MaxObjects * FieldCount + 1
  /\ FieldCount \in Nat
  /\ MaxRoots \in Nat \ {0} /\ MaxWeaks \in Nat /\ MaxObjects \in Nat
  /\ CountMod > MaxWeaks + 1
  /\ Payloads \in [Kinds -> DOMAIN StaticClass]
  /\ Headers \subseteq StoredWords

VARIABLES
  cls,        \* header word at offset 8: is it a destructor (else null)
  fld,        \* the heap-typed fields of the object in each block
  owns,       \* history: the fields whose reference the object still owns
  roots,      \* history: strong references the program holds
  weakRoots,  \* history: weak references the program holds
  dying       \* the Releases in progress, innermost first

arcOnly == <<cls, fld, owns, roots, weakRoots, dying>>
arcVars == <<heapVars, arcOnly>>

Strong(a) == mem[a] % CountMod
Weak(a)   == mem[a] \div CountMod

\* A header; a count wraps as u32 arithmetic does.
Header(s, w) == (s % CountMod) + CountMod * (w % CountMod)

ArcInit ==
  /\ HeapInit
  /\ cls       = [a \in Addr |-> FALSE]
  /\ fld       = [a \in Addr |-> [f \in Fields |-> Null]]
  /\ owns      = [a \in Addr |-> {}]
  /\ roots     = [a \in Addr |-> 0]
  /\ weakRoots = [a \in Addr |-> 0]
  /\ dying     = <<>>

\* The program runs: no destructor is in progress.
Running == dying = <<>> /\ ~trapped

\* Faulty variant: the class's destructor is not registered in the header.
New_NoDestructor(kind, a) ==
  /\ Running
  /\ Cardinality(held) < MaxObjects
  /\ Alloc(Payloads[kind], a)
  /\ cls'   = [cls EXCEPT ![a] = FALSE]
  /\ fld'   = [fld EXCEPT ![a] = [f \in Fields |-> Null]]
  /\ owns'  = [owns EXCEPT ![a] = IF kind = "node" THEN Fields ELSE {}]
  /\ roots' = [roots EXCEPT ![a] = @ + 1]
  /\ UNCHANGED <<weakRoots, dying>>

New(kind, a) ==
  /\ Running
  /\ Cardinality(held) < MaxObjects
  /\ Alloc(Payloads[kind], a)
  /\ cls'   = [cls EXCEPT ![a] = (kind = "node")]
  /\ fld'   = [fld EXCEPT ![a] = [f \in Fields |-> Null]]
  /\ owns'  = [owns EXCEPT ![a] = IF kind = "node" THEN Fields ELSE {}]
  /\ roots' = [roots EXCEPT ![a] = @ + 1]
  /\ UNCHANGED <<weakRoots, dying>>

NewTrap(kind) ==
  /\ Running
  /\ Cardinality(held) < MaxObjects
  /\ AllocTrap(Payloads[kind])
  /\ UNCHANGED arcOnly

\* What the program can reach: an object it holds, or one in a field of an
\* object it holds (a borrowed field load).
Reaches(a) ==
  \/ roots[a] > 0
  \/ \E o \in Addr : roots[o] > 0 /\ \E f \in owns[o] : fld[o][f] = a

Retain(a) ==
  /\ Running
  /\ Reaches(a) /\ roots[a] < MaxRoots
  /\ WriteWord(a, Header(Strong(a) + 1, Weak(a)))
  /\ roots' = [roots EXCEPT ![a] = @ + 1]
  /\ UNCHANGED <<cls, fld, owns, weakRoots, dying>>

\* A field store: the reference the program holds to v goes into the field,
\* the one the field held is now the program's to release.
SwapField(o, f, v) ==
  /\ Running
  /\ roots[o] > 0 /\ f \in owns[o]
  /\ v # Null => roots[v] > 0
  /\ LET old     == fld[o][f]
         given   == IF v = Null THEN roots ELSE [roots EXCEPT ![v] = @ - 1]
     IN  roots' = IF old = Null THEN given ELSE [given EXCEPT ![old] = @ + 1]
  /\ fld' = [fld EXCEPT ![o][f] = v]
  /\ UNCHANGED <<heapVars, cls, owns, weakRoots, dying>>

\* Faulty variant: the object ends with one reference still counted.
Decrement_OffByOne(a, rest) ==
  /\ WriteWord(a, Header(Strong(a) - 1, Weak(a)))
  /\ dying' = IF Strong(a) \in {0, 1, 2} THEN <<a>> \o rest ELSE rest

\* Release's decrement: the count reaching zero starts the object's end.
\* rest is what is left of the Releases already in progress.
Decrement(a, rest) ==
  /\ WriteWord(a, Header(Strong(a) - 1, Weak(a)))
  /\ dying' = IF Strong(a) = 1 THEN <<a>> \o rest ELSE rest

Release(a) ==
  /\ Running
  /\ roots[a] > 0
  /\ Decrement(a, dying)
  /\ roots' = [roots EXCEPT ![a] = @ - 1]
  /\ UNCHANGED <<cls, fld, owns, weakRoots>>

\* Faulty variant: the destructor does not move past a field it released.
DestroyField_NoAdvance ==
  /\ dying # <<>>
  /\ LET o == Head(dying) IN
       /\ cls[o]
       /\ \E f \in owns[o] :
            /\ \A g \in owns[o] : f <= g
            /\ IF fld[o][f] = Null THEN UNCHANGED <<heapVars, dying>>
               ELSE Decrement(fld[o][f], dying)
  /\ UNCHANGED <<cls, fld, owns, roots, weakRoots>>

\* The destructor: Load and Release of the next field.  Release(null) is a
\* no-op.
DestroyField ==
  /\ dying # <<>>
  /\ LET o == Head(dying) IN
       /\ cls[o]
       /\ \E f \in owns[o] :
            /\ \A g \in owns[o] : f <= g
            /\ owns' = [owns EXCEPT ![o] = @ \ {f}]
            /\ IF fld[o][f] = Null THEN UNCHANGED <<heapVars, dying>>
               ELSE Decrement(fld[o][f], dying)
  /\ UNCHANGED <<cls, fld, roots, weakRoots>>

\* Faulty variant: the block is freed whatever the weak count says.
FinishRelease_IgnoresWeak ==
  /\ dying # <<>>
  /\ LET o == Head(dying) IN
       /\ ~cls[o] \/ owns[o] = {}
       /\ PushBack(o)
  /\ dying' = Tail(dying)
  /\ UNCHANGED <<cls, fld, owns, roots, weakRoots>>

\* After the destructor the weak count is read: the block is freed, or left
\* as a zombie for the last DropWeak.
FinishRelease ==
  /\ dying # <<>>
  /\ LET o == Head(dying) IN
       /\ ~cls[o] \/ owns[o] = {}
       /\ IF Weak(o) = 0 THEN PushBack(o) ELSE UNCHANGED heapVars
  /\ dying' = Tail(dying)
  /\ UNCHANGED <<cls, fld, owns, roots, weakRoots>>

MakeWeak(a) ==
  /\ Running
  /\ roots[a] > 0 /\ weakRoots[a] < MaxWeaks
  /\ WriteWord(a, Header(Strong(a), Weak(a) + 1))
  /\ weakRoots' = [weakRoots EXCEPT ![a] = @ + 1]
  /\ UNCHANGED <<cls, fld, owns, roots, dying>>

\* Faulty variant: a live target is returned without a reference.
WeakLoad_NoRetain(a) ==
  /\ Running
  /\ weakRoots[a] > 0
  /\ IF Strong(a) = 0 THEN UNCHANGED <<heapVars, roots>>
     ELSE /\ roots[a] < MaxRoots
          /\ roots' = [roots EXCEPT ![a] = @ + 1]
          /\ UNCHANGED heapVars
  /\ UNCHANGED <<cls, fld, owns, weakRoots, dying>>

\* Faulty variant: a dead target is not noticed.
WeakLoad_NoDeadCheck(a) ==
  /\ Running
  /\ weakRoots[a] > 0 /\ roots[a] < MaxRoots
  /\ WriteWord(a, Header(Strong(a) + 1, Weak(a)))
  /\ roots' = [roots EXCEPT ![a] = @ + 1]
  /\ UNCHANGED <<cls, fld, owns, weakRoots, dying>>

\* Alive: the result is a new strong reference.  Dead: it is null.
WeakLoad(a) ==
  /\ Running
  /\ weakRoots[a] > 0
  /\ IF Strong(a) = 0 THEN UNCHANGED <<heapVars, roots>>
     ELSE /\ roots[a] < MaxRoots
          /\ WriteWord(a, Header(Strong(a) + 1, Weak(a)))
          /\ roots' = [roots EXCEPT ![a] = @ + 1]
  /\ UNCHANGED <<cls, fld, owns, weakRoots, dying>>

\* Faulty variant: the last weak reference frees a target still alive.
DropWeak_NoStrongCheck(a) ==
  /\ Running
  /\ weakRoots[a] > 0
  /\ IF Weak(a) = 1 THEN PushBack(a)
     ELSE WriteWord(a, Header(Strong(a), Weak(a) - 1))
  /\ weakRoots' = [weakRoots EXCEPT ![a] = @ - 1]
  /\ UNCHANGED <<cls, fld, owns, roots, dying>>

\* Faulty variant: the last weak reference does not free a zombie.
DropWeak_KeepsZombie(a) ==
  /\ Running
  /\ weakRoots[a] > 0
  /\ WriteWord(a, Header(Strong(a), Weak(a) - 1))
  /\ weakRoots' = [weakRoots EXCEPT ![a] = @ - 1]
  /\ UNCHANGED <<cls, fld, owns, roots, dying>>

\* The last weak reference to a zombie frees it; otherwise only the count
\* changes.  (Freeing overwrites the decremented header with the link.)
DropWeak(a) ==
  /\ Running
  /\ weakRoots[a] > 0
  /\ IF Weak(a) = 1 /\ Strong(a) = 0 THEN PushBack(a)
     ELSE WriteWord(a, Header(Strong(a), Weak(a) - 1))
  /\ weakRoots' = [weakRoots EXCEPT ![a] = @ - 1]
  /\ UNCHANGED <<cls, fld, owns, roots, dying>>

Cascade == DestroyField \/ FinishRelease

ArcNext ==
  \/ \E kind \in Kinds, a \in Addr : New(kind, a)
  \/ \E kind \in Kinds : NewTrap(kind)
  \/ \E a \in Addr : Retain(a)
  \/ \E o \in Addr, f \in Fields, v \in Addr \cup {Null} : SwapField(o, f, v)
  \/ \E a \in Addr : Release(a)
  \/ \E a \in Addr : MakeWeak(a)
  \/ \E a \in Addr : WeakLoad(a)
  \/ \E a \in Addr : DropWeak(a)
  \/ DestroyField
  \/ FinishRelease

\* A Release once begun runs to its end: nothing suspends the thread.
ArcSpec == ArcInit /\ [][ArcNext]_arcVars /\ WF_arcVars(Cascade)

-----------------------------------------------------------------------------
(***************************************************************************)
(* Properties.                                                             *)
(***************************************************************************)

ArcTypeOK ==
  /\ HeapTypeOK
  /\ cls \in [Addr -> BOOLEAN]
  /\ fld \in [Addr -> [Fields -> Addr \cup {Null}]]
  /\ owns \in [Addr -> SUBSET Fields]
  /\ roots \in [Addr -> Nat]
  /\ weakRoots \in [Addr -> Nat]
  /\ dying \in Seq(Addr)

\* The fields that own a reference to a.
SlotsTo(a) == {s \in held \X Fields : s[2] \in owns[s[1]] /\ fld[s[1]][s[2]] = a}

\* A count is the number of references there are, at every instruction and
\* at every step of a cascade; the weak count is the number of weak ones.
CountsExact ==
  \A a \in held :
    /\ Strong(a) = roots[a] + Cardinality(SlotsTo(a))
    /\ Weak(a) = weakRoots[a]

\* No reference, strong, weak or in a field, leads to a block that was freed
\* (and may since be another object), and no field to an object already dead.
NoDangling ==
  /\ \A a \in Addr : roots[a] > 0 \/ weakRoots[a] > 0 => a \in held
  /\ \A o \in held : \A f \in owns[o] :
       fld[o][f] # Null => fld[o][f] \in held /\ Strong(fld[o][f]) > 0

\* The objects being destroyed are held, dead, and each is being destroyed
\* once: a cascade never reaches an object it is already inside.
DestroyedOnce ==
  /\ \A i \in DOMAIN dying : dying[i] \in held /\ Strong(dying[i]) = 0
  /\ \A i, j \in DOMAIN dying : dying[i] = dying[j] => i = j

\* Between cascades a dead object is kept only for a weak reference to it.
ZombieHasWeak ==
  dying = <<>> => \A a \in held : Strong(a) = 0 => weakRoots[a] > 0

\* The objects on or behind a cycle of references are not reclaimed (cycles
\* are outside what counting promises); everything else the program has let
\* go of is: with no reference left and no cycle, dc_heap_live is zero.
Acyclic ==
  ~ \E S \in SUBSET held :
      S # {} /\ \A a \in S : \E o \in S, f \in Fields : f \in owns[o] /\ fld[o][f] = a

LeakFree ==
  dying = <<>> /\ Acyclic /\ (\A a \in Addr : roots[a] = 0 /\ weakRoots[a] = 0)
    => live = 0

\* A dead object stays dead as long as its block is not given to another:
\* no weak load, and no later release, brings it back.
NoResurrection ==
  [][\A a \in held : Strong(a) = 0 /\ a \in held' => Strong(a)' = 0]_arcVars

\* Every step of the runtime is a step of the heap or leaves it alone.
ImplementsHeap == HeapSpec

\* A cascade ends, whatever the shape of the data.
CascadeEnds == dying # <<>> ~> dying = <<>>
=============================================================================
