# Verification of dcdart

dcdart is a compiler (`dcc`) from a Dart-syntax language to native code without
a runtime library.  Its memory management is part of what it compiles: a
segregated-size-class heap and a reference-counting (ARC) runtime are expanded
inline into every object file, the lowering decides where each count goes up
and down, and an optimiser deletes the counting it can show to be redundant.  A
mistake in any of the three is a use after free or a leak in every program, and
it depends on sequences of operations no test enumerates.

Around the compiler stand the programs that judge it: the C mains of
`core/examples`, which say by their exit code what a compiled program got
wrong, and the benchmark harness, whose numbers decide whether a milestone is
met.  What such a program lets pass is believed.

This project models the memory management, the language as the example programs
use it, those programs under their mains, and the benchmark harness; checks all
of it with TLC; and proves correct with TLAPS the class arithmetic, the heap,
the reference counts over it, the counting the lowering inserts, the counting
the optimiser deletes within a block, and what the harness reports.

## 1. The system

The pipeline, each stage calling the next and handing it immutable data:

    Dart source -> Kernel frontend -> dcc-lower -> DC-IR -> dc-elide -> backend -> clang
                   (subprocess)       lower.dart            elide.dart  llvm_emit.dart

| Component | State it keeps | Operations | What is hard |
|---|---|---|---|
| Heap geometry (`llvm_emit.dart`) | none: arithmetic on `heapRegionBytes` | class of a payload, of a raw size, of an address | three computations of one number, at powers of two, at 0, at the end of a region |
| Heap allocator (`_emitAlloc`, `_emitAllocRaw`, `_emitFreeSlotPushback`) | `@dc_heap`, `@dc_heap_bump`, `@dc_heap_free`, `@dc_heap_live` | take a block (pop, bump or trap), give it back | the free list is threaded through memory programs write to; long sequences of legal calls |
| ARC runtime (`_emitRetain`, `_emitRelease`, `_emitMakeWeak`, `_emitWeakLoad`, `_emitDropWeak`) and destructors (`_buildDestructor`) | the 16-byte header of each object: `strong`, `weak`, `cls` | the five ARC instructions; the cascade of releases at the end of an object | a destructor running inside a Release; a dead object kept for a weak reference; the header and the free-list link are the same word |
| ARC insertion (`_FunctionLowering` in `lower.dart`) | `_heapLocals`, `_weakLocals`, `_pendingOwners`, `_labelTargets`, `_values` | every statement and expression form over references | order of retain and release, temporaries, borrowed and `@owned` parameters, and every way out of a scope: return, break, continue, error propagation |
| ARC elision in a block (`_elideBlock`) | `pendingRetain`, `callConsumed`, `freshRoots`, `kept` | one decision per instruction | two values name one object; destructors run inside Releases; what a callee may do |
| ARC elision across blocks (`_elideCrossBlock`), call summaries (`computeRefcountTransparentCallees`, `computeReturnsFreshCallees`) | dataflow maps and worklists | frontier search, fixpoints | loops, recursion, aliases |
| SSA construction (`_lowerIf`, `_lowerWhile`, `_lowerSwitch` ...) | open block, block parameters, loop variables | merge values at joins | a variable missed on one edge |
| Monomorphization and layouts | worklist, mangled names, layouts | instantiate until nothing is new | termination, budgets |
| Numerics of the backend | none | trapping arithmetic, division, shifts, conversions, atomics | boundaries of each width |
| Example programs and their hosts (`core/examples/*/main.c`) | the object's heap, the pointers a main keeps | call, compare, test `dc_heap_live`, return a code | a faulty compiler may give the right answer; the code names a mistake only if nothing fails earlier |
| Benchmark harness (`run-bench.sh`, `bench_main.c`, `report.awk`) | binaries, sample files, rows, notes, `FATAL` | build, time, compare checksums, record, report | builds, processes and prechecks fail at any point; a missing row must not look like a smaller suite |
| Frontend, driver, C headers, targets, object inspection | files and subprocesses | straight-line I/O | none of the above kinds |

What makes each correct, in one sentence: the geometry, that the three class
computations agree and a class is never too small; the allocator, that held
blocks never overlap, free ones are never lost, and `dc_heap_live` counts the
difference; the runtime, that counts equal references at every instruction, so
that nothing dies early, dies twice, or comes back; the insertion, that the
counting it emits owns every reference exactly once on every path; the elision,
that the program cannot tell; a main, that it accepts the object of a correct
compiler and tells the mistakes its comments name; the harness, that a row
stands for all its runs, a number for its whole suite, and no benchmark
disappears.

Emitted programs have one thread, and no dcdart function can be an interrupt
handler (`docs/escalations/0007`), so the interleavings that matter are those of
a Release with the destructors it runs, of a caller with its callees, and of the
program as lowered with the program as optimised.  Nothing is persisted, so
there is no recovery from a crash; running out of memory is a trap, and the trap
is modelled.  The harness is a sequential script around processes that may
crash, answer differently each time, or not build at all.

## 2. The modules

| Module | Models | Extends |
|---|---|---|
| `HeapGeometry` | the class arithmetic | |
| `HeapGeometryProofs` | the theorems about it, and about every input `MCHeapGeometry` could feed it | `MCHeapGeometry`, `Iteration` |
| `AbstractHeap` | what a heap promises: disjoint extents, words that keep their value, or a stop | |
| `DcHeap` | the allocator; refines `AbstractHeap` | |
| `Iteration` | induction on numbers, and recursion by `LET`, in a form the provers can use | |
| `DcHeapProofs` | the theorems about `DcHeap` | `DcHeap`, `Iteration` |
| `ArcRuntime` | the ARC instructions and the destructor cascade, step by step, in the memory of `DcHeap` | `DcHeap` |
| `ArcRuntimeProofs` | the theorems about `ArcRuntime` | `ArcRuntime`, `DcHeapProofs` |
| `CountedHeap` | the same instructions as functions from heaps to heaps | |
| `CountedHeapProofs` | what each of them does to the counts of a heap and to what hangs on an object | `CountedHeap`, `Iteration` |
| `ArcLowering` | the counting `lower.dart` inserts, run over a stack of calls | `CountedHeap` |
| `ArcLoweringProofs` | the theorems about `ArcLowering`, and the lemmas on the ledger of what the calls in progress own | `ArcLowering`, `CountedHeapProofs` |
| `ElideBlock` | `_elideBlock`, and the block before and after it, run side by side | `CountedHeap` |
| `ElideBlockProofs` | the theorems about `ElideBlock` | `ElideBlock`, `CountedHeapProofs` |
| `BareSyntax` | programs as data: the expressions and statements of `@bare` code | |
| `BareLanguage` | what such a program does when run, as `lower.dart` lowers it and `llvm_emit.dart` emits it, under one mistake of the compiler or none | `BareSyntax` |
| `ExampleHost` | a C main linked with an object: its checks, one step each | `BareLanguage` |
| `HeapPrograms`, `HeapHosts` | the example programs about references, and their mains | `BareSyntax`, `HeapPrograms` + `ExampleHost` |
| `NumericPrograms`, `NumericHosts` | the example programs that compute with integers, and their mains | `BareSyntax`, `NumericPrograms` + `ExampleHost` |
| `MCHosts` | which host is run with which mistakes, and what its main finds | `HeapHosts`, `NumericHosts` |
| `MCClaims` | the mistakes that comments of the mains say they find, one after another | `MCHosts` |
| `BenchHarness` | the script, the process it times, and what the report refuses | |
| `BenchHarnessProofs` | the theorems about `BenchHarness` | `BenchHarness` |
| `MC...` | small instances for TLC | the module named |

A definition whose comment begins "Faulty variant" is a plausible bug in the
definition that follows it; no specification uses it.  It is there to show that
the properties notice: put in place of the sound definition, it makes the
property named beside it in `PROJECT.json` fail.

### Heap geometry

`SizeClassesFor`, `ClassForPayload`, `RawClassIndex` and `ClassOfOffset` are
`_sizeClassesFor`, `_classForPayload`, the leading-zero computation of
`_emitAllocRaw` and the shift of `_emitFreeSlotPushback`; `BitLength` is
`64 - ctlz`.  They are pure operators, compared with their definitions (the
smallest class that fits, the region an address lies in).  `SizeBits` is the
width of a size, 64 in the source and 26 in the runs, whose integers are
narrower; `TwoTo` is the power of two, as a recursive function because no
installed prover interprets `^`.

### Heap allocator

`bump`, `freeHead`, `live` and `mem` are the four globals; `mem` holds one word
per address, because only the first word of a block is ever both the
allocator's (the free-list link) and the program's (a header, or a raw
payload).  The word is untyped: `Store` writes any value over it while the
program holds the block, including values that look like links.  `Alloc` and
`AllocRaw` are the pop and bump paths of the emitted code, `AllocTrap` and
`AllocRawTrap` its `llvm.trap`, `Free` is `_emitFreeSlotPushback`.  `carved`,
`held` and `want` are history: no guard on the code's side reads them; `held`
restricts the PROGRAM to freeing and writing what it was given.

`AbstractHeap` knows no classes, lists or cursors.  The refinement maps a held
block to an extent of the size requested, so the abstract heap also forbids
handing out a block that is too small, and changing the word of a held block in
any step but the program's own.

### ARC runtime

One action per DC-IR instruction, on headers in `mem`: `Header(s, w)` packs the
two counts, each modulo `CountMod`, as the two u32 are packed in the first word.
A Release that reaches zero pushes the object on `dying`; `DestroyField` is one
`Load` and `Release` of the destructor and may push another; `FinishRelease` is
what `_emitRelease` does after the destructor call: read the weak count, push
the block back or leave the zombie.  Nothing else runs while `dying` is not
empty.  `roots` and `weakRoots` are the references the program has, as history:
they restrict the program to what it can reach, and are what the counts are
compared with.  `SwapField` moves a reference between a local and a field.

### ARC insertion

The state is what the emitted code has at run time: the counted heap and a
stack of calls, each with its variables, its enclosing loop bodies and the
values of the expression being evaluated.  A value's `own` is what
`_isFreshHeapOwnership` and `_pendingOwners` know of it at compile time.  Each
action is one statement or expression form with everything emitted for it, in
the emitted order: `Declare` (`VariableDeclaration`), `Assign` (`VariableSet`),
`HeapFieldLoad`, `HeapFieldStore`, `HeapConstruction`, `OwnedArgument` and `Call`
(`_lowerCallArgs`), `Resume` (its part after the call), `LeaveBody`
(`_releaseScopeFrom` and `_forgetLocalsFrom`), `ReturnVariable` and
`ReturnValue` (`_lowerReturn`), `Propagate` (`_lowerPropagate`), `WeakFromStrong`
and `WeakValue`.  Choosing actions freely, TLC runs every well-typed program
within the bounds.

### ARC elision in a block

A block is written as it is read.  Each step appends one instruction (a maximal
run of Releases is one step, as in the code), the pass handles it, the block as
lowered executes it on `orig`, and the block as the pass leaves it executes what
remains of it on `trans`.  The pass learns only at a Release whether an earlier
Retain goes, so `RetainStep` guesses, and a step at which the pass decides
otherwise does not exist (`Decide`); every real run of the pass is a behaviour,
with the right guesses.  `pass` has the code's own variables: `pendingRetain`
(and the guess), `callConsumed`, `freshRoots`.  `Sweep` is the reference sweep at
the top of the loop, `PassRun` the run-atomic matching and what follows it,
`PassCall` is `_invalidateAcrossCall`.  `vids` says what each SSA value refers
to and whether the block owns a reference through it, borrows it from the
caller, or read it from a field; it restricts blocks to those a lowering could
emit.  Callees overwrite the field of an argument, keep or give up what they
are given, and return nothing, an argument, a new object, or a new object
wrapped around an argument, and a callee counts as transparent or returns-fresh
when what it does satisfies what the summaries are to establish.

### The language, the example programs and their mains

`BareSyntax` has a constructor for each form of expression and statement the
examples use; the programs of `HeapPrograms` and `NumericPrograms` are the
`.dart` files written with them, and the mains of `HeapHosts` and
`NumericHosts` are the `main.c` files as lists of `ExampleHost` steps: `Check`
(call, compare, return a code), `Tally` (call, compare, count a failure),
`Live` (test `dc_heap_live`), `Keep` and `KeptIs` (keep a pointer, compare it
later).  A loop of a main is its rounds; what it computes by itself to compare
with is computed here in the same way.

`BareLanguage` runs a call.  `Evals`, `CallWith`, `ConstructWith`, `LoadChild`,
`LoadWeak`, `LowerLet`, `LowerPut`, `LowerReturn` and the rest carry out a form
with the counting the lowering emits for it: what a fresh value is, when a
temporary goes, who releases an `@owned` argument, what leaves each scope.
`Alloc`, `FreeSlotPushback`, `Retain`, `Release` and the weak operations are
`llvm_emit.dart`'s, on blocks whose first word is counts while held and the
free-list link when free: `BareLanguage` keeps words where `ArcRuntime` keeps
objects, because a mistaken Release of a freed block is a decrement of a link.
Arithmetic traps where the emitted code has a guard; what a missing guard lets
through (a division by zero, a shift by the width) ends the run as "wild".

A `Fault` is one mistake: an operation, named for the place the lowering emits
it, left out or done twice; the pair of Retain and Release of a variable elided;
a zombie's block freed; the releases of a loop body done before its last
statement; a predicate replaced by its neighbour, taken as signed, or given
operands truncated to a narrower width; two instructions swapped; a guard left
out.  `hosts` makes the object of each example without a fault and with each
that concerns it.  What a main's comments say it finds of such a mistake is
stated whether it is so or not: in `MCHosts` what it finds, in `MCClaims` what
it does not.  `MCClaims` runs a main to its end under the mistake of a claim
(`HostNext`), judges the claim and starts the next (`Judge`), so that one
behaviour tries them all and its last state names those refuted.

### The benchmark harness

`todo`, `phase`, `left`, `bins` and `jobs` are where the script is: the
benchmark, the part of the loop body, the refcount modes left to build, what was
built, what is still to be timed.  Each build is an action with its failure
(`BuildC` ... `BuildAot`); `Warmup`, `TimedCall` and `EndOfMain` are the process
of `bench_main.c`, `Crash` its death, `tb` what `time_binary` knows across
processes; `Precheck` and the `Timed` actions are what the loop makes of its
answer; `Report` is the exit.  `Comparable`, `GateMean`, `SuiteComplete` and
`Refusal` are what `report.awk` refuses.  What kernels compute, leak and how
noisy they are is chosen freely, within the bounds below.

## 3. The runs

Each finishes within four minutes on two workers.  "States" are distinct
states.

| Run | Instance | States | Properties |
|---|---|---|---|
| `heap_geometry` | the source's own sizes; 8 accepted regions, 32 bytes to 4 MiB; counts at and around every power of two | 1169 | `ClassesFillRegion` `ClassIsBest` `AddressNamesClass` |
| `heap` | classes of 2 and 4 bytes (the classes of 32 and 64, scaled), regions of 8; static and raw requests, one raw request too big | 18480 | `HeapTypeOK` `HeldApart` `FreeListExact` `LiveExact` `GrowsOnlyWhenFull` `ImplementsAbstractHeap` |
| `arc` | 3 objects, one field, 2 references and a weak one to each | 213117 | `ArcTypeOK` `CountsExact` `NoDangling` `DestroyedOnce` `ZombieHasWeak` `LeakFree` `NoResurrection` |
| `arc_cascade` | objects with two fields in a heap of two blocks | 26891 | `CountsExact` `CascadeEnds` `ImplementsHeap` |
| `arc_lowering` | three families of programs: `Calls` (2 objects, calls 2 deep, 3 variables, 3 values in flight), `Bodies` (3 objects, loop bodies 2 deep), `Weaks` (2 objects, weak locals, arguments and results) | 1688733 | `LowTypeOK` `OwnersCounted` `NoUseAfterFree` `NothingLeaks` |
| `elide_block` | 2 objects; 3 values, runs of 2 Releases, calls of one argument; and 2 values, runs of 3 Releases, calls of two arguments, weak references | 143509 | `ElideTypeOK` `ElisionInvisible` `FreshIsUnique` |
| `hosts` | 25 examples, 668 objects of them | 36513 | `CorrectAccepted` `LeakNeverAccepted` `FaultFoundAs` `PredicatesTold` `TrapsTold` |
| `bench` | two benchmarks in one mode, one of them the suite's; and one in both modes, with stock Dart and two timed runs of each binary | 1560836 | `BenchTypeOK` `RowsAreWhole` `NothingVanishes` `LeaksNeverTimed` `GateStandsForSuite` `DisagreementNoted` `Reports` |
| `arc_assign_borrowed` | programs that assign to borrowed parameters (`Assigning`) | finding 1 | `CallerKeeps` |
| `arc_overwrite_borrowed` | callees that overwrite a field borrowed from (`Overwriting`) | finding 2 | `NoUseAfterFree` |
| `elide_borrow` | `BorrowsThroughOwned = TRUE` | finding 3 | `ElisionInvisible` |
| `mains_comments` | the instance of `hosts`, 16 claims one after another (`MCClaims`) | findings 4 to 10 | `CommentsHold` |

What the runs of the two new parts show:

- `CorrectAccepted`: under a correct compiler every main returns 0, no program
  uses a block nobody holds, leaks, loops for ever or computes anything
  undefined; the calls that must not return, and a list longer than the heap,
  trap.
- `LeakNeverAccepted`: no object that leaks passes a main that tests
  `dc_heap_live`.
- `FaultFoundAs`: 21 mistakes of counting that the comments of the mains name
  end them at the test the comment says (`Diagnoses`).  The claims about
  counting that do not hold are findings 4 to 6.
- `PredicatesTold`: on `m2-compare/main.c` as it is, each of 24 wrong predicates
  exits with the code of its function, and so does each of 16 signed ones, but
  for u64, where the code is 17; no row of another function fails first.
  (Rows that are said to tell something more are findings 7 to 10.)
- `TrapsTold`: the sweeps of `m2-arith` tell a quotient from a remainder; only a
  call that must not return tells a missing guard.  No example shifts by the
  width or more, so the runs say nothing of how a shift is emitted beyond that
  no correct object needs more.
- `RowsAreWhole` to `DisagreementNoted`: what a row, a missing row, a number of
  the gate and a note mean, over every order of failures.  `Reports`: the
  script always comes to its report.

### Why the bounds are enough to be interesting

- `heap`: six blocks; every class can be exhausted, every free list can hold all
  its blocks in every order, and a word the program stores can equal a block's
  address.  Nothing the code does looks at more than the head, its link and the
  cursor.
- `arc`: the shortest shapes of every kind: a chain of three, a cycle, two
  references to one object, a field to oneself, a zombie whose block is reused
  after its weak reference goes.  `arc_cascade` adds branching: both fields to
  one child, and a diamond.
- `arc_lowering`: two calls are a caller and a callee, and a callee that has
  returned leaves room for the next; three values in flight are a call whose
  later argument fails while the earlier ones wait.  `Bodies` has two loop
  bodies, so that a break can leave the outer one from the inner.
- `elide_block`: three values are a pair and two aliases, or a pair, an alias
  and what is read between; two objects are the object of the pair and one that
  owns it.  A name is reused when idle, so blocks are of any length.
  The blocks of two names have the longer runs and calls and the weak references
  (`MCElideBlock`).
- `hosts`: the mains are run to their end with their own arguments, except that
  widths are scaled (`Bits`: 8, 16, 22 and 28 bits for u8 to u64, within TLC's
  integers) and arguments with them, a count is a number below 2^14 (`Word`)
  where the source has 2^32, a round of a main that repeats is repeated `Turns`
  = 4 times, the long loops run 32 times (8 * `Turns`), and a loop longer than
  2^10 iterations (`LoopDepth`) counts as one that hangs; no loop of a correct
  object reaches it (`CorrectAccepted`).  The heap has 48 blocks (`HeapBlocks`),
  96 for `m2-list`: room for what a main keeps or leaks, as in the source, where
  a class has 65536 blocks of 32 bytes and `m2-list` allocates fewer.
  `m2-recursion` has 12, which its longest chain fits exactly and the chain of
  `recursionDeep` does not.
- `bench`: two benchmarks are one that fails and one that does not; two sums are
  agreement and disagreement; two timed runs are a first and one that may
  disagree with it.  Only the C baseline is unsteady from call to call (the
  others crash instead, which `time_binary` cannot tell apart), only `json` has
  noisy samples, and drift between batches is 0 or 1 of `Limit` = 2.

`SYMMETRY` permutes objects, and values in `ElideBlock`; both are
interchangeable and no run with a liveness property uses it.

### Fairness

`ArcSpec` assumes weak fairness of `Cascade`, the rest of a Release already
begun: one thread executes straight-line code and nothing can suspend it, so it
takes its next step.  `BenchHarness` assumes weak fairness of `Next`: the script
is sequential and bounded, and the processes it starts are assumed not to hang,
since it has no timeout.  In `ArcSpec` the program itself is not assumed to do
anything: it may stop at any point between instructions, which is also why no
passing run but the one of `ElideBlock` checks deadlock.  (After a trap, or the
end of the program in `ArcLowering`, there is no next step; `HeapGeometry`'s
instance ends with its inputs, a main with its return, the harness with its
report.)

## 4. What was found

Four runs end in a violation.  Each is a promise quoted from the repository,
and a program, or an object of a faulty compiler, that breaks it.  Three are
about the compiler; what enables them is left out of every passing run, so that
those show everything else to hold.  The fourth, `mains_comments`, is about what
the examples' mains say they detect: the compiler is not at fault there, the
tests are weaker than their comments.  Its counterexample ends with all sixteen
claims refuted, which are findings 4 to 10.

1. `arc_assign_borrowed`.  Assigning to a borrowed parameter releases the old
   value (`lower.dart:1431`), which is the caller's.  The caller's variable then
   refers to a freed block; and the new value is never released.
2. `arc_overwrite_borrowed`.  A field read retains nothing
   (`lower.dart:4632`) when its receiver is owned by someone else, so a callee
   that overwrites the field frees the value its caller is still using, while
   `docs/compat-matrix.md:14` promises a reference for as long as the value is
   live.
3. `elide_borrow`.  A pair around an `@owned` argument is deleted
   (`elide.dart:1536`) when nothing AFTER the call mentions the value; the same
   call, or an earlier part of the same expression, may have borrowed through
   it, and the borrowed object dies inside the callee.

4. Releases too many.  "It catches a DOUBLE free too" (`m2-loopheap/main.c:15`)
   and its like in five other mains: a Release too many is to drive
   `dc_heap_live` below its baseline.  The header of a freed block is its
   free-list link, so the second Release decrements that, takes no branch to the
   free path (`llvm_emit.dart:1921`), and leaves the live count right.  `m2-heap`,
   `m2-heap-field`, `m2-alias` and `m2-owned` return 0; `m2-loopheap` passes the
   test that is to find it, and dies in a later loop on the spoilt list; and the
   pair that `m3-funcptr` calls load-bearing is not.
5. Releases too early.  A release one statement early "only the arithmetic
   catches" (`m2-loopheap/main.c:19-23`).  The block is indeed read after it is
   freed; but the link replaces the header, the fields stay as they were, and
   nothing takes the block before the last read, so the arithmetic is right.
6. Leaks of the list.  "One missing release exhausts the arena"
   (`m2-list/main.c:23`) of 64 slots.  A class has had 65536 since
   (`llvm_emit.dart:128`) and the main has no test of `dc_heap_live`: it accepts
   a list that keeps its nodes.  `LeakNeverAccepted` leaves this main out.
7. Signed predicates.  Codes 17 to 20 are to name the width that used a signed
   predicate (`m2-compare/main.c:157-159`).  At u32, u16 and u8 the earlier rows
   at 123-124, 138-139 and 153-154 fail, with the code of the operator.
8. A dropped negation.  A `!=` that lost its negation is to pass 33 and fail 34
   (`m2-compare/main.c:272-274`); it fails 22.
9. Truncated operands.  A 64-bit equality done in 32 bits is to show up at 29
   (`m2-compare/main.c:235-238`).  No two operands there, or in any row, differ
   in their upper halves only.
10. Bounds that are met.  The clamp rows at a bound, and gcd, are to come out wrong
    with `<=` for `<` or `>=` for `>` (`m2-compare/main.c:314-316`, `383`).  A
    value clamped to itself is the same, and the gcd's loop ends before its
    operands are equal.

Met while modelling, and not made into runs of their own, because the promise
is weaker or what is shown is still right:

- `bench/README.md` says a benchmark with a checksum mismatch is refused.  The
  script notes it, sets `FATAL` and exits 3, but writes the row, and the report
  prints a ratio from it (`TimedDcDart`, `RatioShown`): that is why
  `DisagreementNoted` speaks of the note.
- Without an `llvm-nm` on the path every DCDart binary gets the main that does
  not look at `dc_heap_live`, silently: `LeaksNeverTimed` has `nm` as its
  hypothesis.
- A stability precheck that fails leaves a drift of 0, the most favourable
  value, in the uncertainty of every ratio (`Floor`).
- The exit status looks for a word that the legend under the ratios always
  has, so it is 3 for every run (`Legend`), which the script's comment expects
  only of today's suite.

## 5. What is proved

### The class arithmetic

`HeapGeometryProofs`, for every width of a size, every power of two that fits it
as smallest class, every largest class, every header that fits the smallest
class, every region the emitter accepts and every byte count:

- `GeometryServesHeap`: the class table is not empty and its classes fit the
  region; every request that is not refused gets a class of the table whose
  blocks hold it, from the compile-time scan as from the count of leading zeros;
  and every byte of a region, not only the start of a block, shifts down to the
  number of its class.  That is what `DcHeap` assumes of the class computations,
  so the theorems about the heap, and about the runtime over it, are about the
  heap `llvm_emit.dart` emits for any accepted `--heap-region-bytes`;
- `GeometryFillsRegion`, `GeometryPicksBest`, `GeometryNamesClass`: `Spec`
  implies `[]ClassesFillRegion`, `[]ClassIsBest` and `[]AddressNamesClass`, with
  no bound on the counts and any set of regions to choose from.

Assumptions.  `GeometryAssumption`: the smallest class is a power of two that
fits a size, no larger than the largest class, and larger than a header.  The
largest class need not be a power of two.

The argument.  Two numbers that are powers of two are compared, divided and
subtracted by their exponents (`TwoToOrder`, `TwoToSum`), and `BitLength` is the
one exponent a number lies below with its predecessor not above it
(`BitLengthIs`).  The table of an accepted region counts exponents by their
cardinality; `TableShape` shows that they are an interval, so the table is the
run of powers of two `Table(m, K)`, whose last class divides the region.  From
there the scan finds the least class by the order of the table
(`ScanFindsLeast`), the leading zeros name the same one (`ZerosNameLeast`), and
the shift is the division by the region (`ShiftNamesRegion`).

### The heap

`DcHeapProofs`, checked by TLAPS for every heap base, region size, class table,
set of requests and word size that satisfy the assumptions of `DcHeap`: every
property the run `heap` checks,

- `HeapTypeCorrect`: `HeapSpec => []HeapTypeOK`;
- `HeapKeepsBlocksApart`: `HeapSpec => []HeldApart`, no two held requests share a
  byte;
- `HeapCountsBlocks`: `HeapSpec => []LiveExact`;
- `FreeListsExact`: `HeapSpec => []FreeListExact`, following the links from a
  head visits exactly the free blocks of the class, and ends;
- `HeapGrowsOnlyWhenFull`: `HeapSpec => GrowsOnlyWhenFull`;
- `HeapRefines`: `HeapSpec => ImplementsAbstractHeap`.

Assumptions.  `HeapAssumption`: the heap does not start at address 0, there is a
class, every class's block fits its region, an address is a word.
`ClassAssumption`: the class computed for a request is at least as large as the
request.  `GeometryServesHeap`, above, proves that of the computations in
`HeapGeometry`, and that the shift is the division `DcHeap` frees a block by.
TLC evaluates both assumptions in every run over `DcHeap`.

The argument.  `HeldApart` is not inductive: whether the next block handed out
overlaps a held one depends on the free lists.  `HeapInv` adds that carved
blocks lie below the cursor of their region (`BlocksInRegion`) and are apart
(`BlocksApart`), that held blocks are carved and large enough (`HeldCarved`),
and the shape of the lists in terms of single links: the head is free
(`HeadFree`), a free block's link is free and never the head (`LinksFree`), no
two links agree (`LinksApart`).  With those a pop hands out a free block and
leaves a list of the same shape, whatever its length; nothing needs to be known
of chains.  `TakeBlock`, `ReturnBlock`, `StoreIsHarmless` and `TrapKeepsHeap`
prove one kind of step each, `AddressNamesRegion` that the shift on the free
path finds the block's own class.

That no free block is LOST, and that a region grows only when its free list is
empty because the program holds everything carved from it, does need chains:
links of the right shape could still close to a cycle beside the list.
`FreeListInv` adds that the free blocks of a class can be numbered in the order
they will be popped (`Listed`, `PopOrder`).  A push prepends to that numbering,
a pop shifts it, a store to a held block touches no link of it; and following
the links, which `FreeListExact` does by recursion on the number of steps, is
shown by induction on that number to follow the numbering.

### The runtime

`ArcRuntimeProofs`, for every heap `DcHeap` is proved for, any number of fields
of a class and any bounds on references and objects that satisfy
`ArcAssumption`: every safety property `ArcRuntime` states,

- `ArcTypeCorrect`, `ArcCountsExact`, `ArcNoDangling`, `ArcDestroysOnce`,
  `ArcZombiesWatched`, `ArcLeakFree`: `ArcSpec` implies `[]ArcTypeOK`,
  `[]CountsExact`, `[]NoDangling`, `[]DestroyedOnce`, `[]ZombieHasWeak` and
  `[]LeakFree`;
- `ArcNoResurrection`: `ArcSpec => NoResurrection`;
- `ArcImplementsHeap`: `ArcSpec => ImplementsHeap`, every instruction is a step
  `DcHeap` allows its program or leaves the heap alone; hence
  `ArcObjectsApart`: `ArcSpec => []HeldApart`.

Assumptions.  `ArcAssumption`: the references the bounds allow to one object,
and one more, are fewer than the modulus of the counts (2^32 in the source,
which does not check it: the hazard at `llvm_emit.dart:1694`); the classes of
objects have a size class; a header is a word.

The argument.  None of the properties is inductive.  What a count is worth is
the number of references, `Refs`: the program's and those in fields (`SlotsTo`,
a finite set whose elements come and go one at a time).  `ArcInv` says that a
header is exactly that number and the number of weak references, neither large
enough to wrap (`HeadersExact`, `HeaderReads`); that only held objects are
referred to (`RefsHeld`); that an object nothing refers to is either being
destroyed, or owns nothing and is kept for a weak reference (`DeadKept`); and
that what is being destroyed is held, dead, and there once (`DyingOK`).  The
last two carry a cascade of any depth: a field of a dying object still counts
for the object it leads to, so that object is not dying, and is pushed exactly
when the field was its last reference (`LastReferenceDestroys`).  The program's
own instructions that touch one object's counts share `CountStep`, the two that
free a block `FreeStep`; there is one lemma per instruction.  `NoResurrection`
and `ImplementsHeap` are facts about a step, and each lemma proves them along
with the invariant (`ArcStep`).  The heap's own invariant comes along with
`HeapNextInv`, since the step is one of the heap.

### The inserted counting

`ArcLoweringProofs`, for any finite set of objects and any bounds on calls,
variables, bodies and values: every property the run `arc_lowering` checks,

- `LoweringTypeCorrect`, `LoweringCountsOwners`, `LoweringNoUseAfterFree`,
  `LoweringNothingLeaks`: `LowSpec /\ Disciplined` implies `[]LowTypeOK`,
  `[]OwnersCounted`, `[]NoUseAfterFree` and `[]NothingLeaks`;
- `LoweringCallerKeeps`: `LowSpec /\ Disciplined => []CallerKeeps`, what a
  waiting call owns outlives its callees;
- `LoweringInvariant`: `LowSpec /\ Disciplined => []LowInv`, from which the
  others follow.

Assumptions.  `LoweringAssumption` and `CountedHeapAssumption` give the
constants their types, no more.  `Disciplined` says that the program neither
assigns to a borrowed parameter nor overwrites a field that an unfinished
expression of a caller has borrowed from.  Both conditions are needed: the runs
`arc_assign_borrowed` and `arc_overwrite_borrowed` each drop one of them and TLC
finds a use after free (findings 1 and 2).  `arc_lowering` checks the same
properties for programs that are `Disciplined`, so the theorems are about what
that run checks without its bounds.

The argument.  Counts that are exact (`OwnersCounted`) say nothing about a value
used WITHOUT being owned, a borrowed parameter or a field that was read; and
that those stay alive depends on the counts.  So `LowInv` has both.  The first
half is that the heap is `Counted` by the `Ledger` of what the calls own.  The
second traces what is borrowed to an owner: a value taken by name is in a
variable of the same call, a borrowed parameter is something the caller lends
and keeps until the call is back (`CallsOK`, `Lends`), a value read from a field
still hangs on a variable (`FrameBorrows`, `Behind`).  `AllUsable` concludes
that all of it is alive, from the first call up the stack.  Each action then has
a lemma (`...Keeps`) that follows the emitted instructions one by one:
`CountedHeapProofs` says of each what it does to the ledger and that nothing
comes back to life or changes its field but on the way down of a Release; the
first section of `ArcLoweringProofs` what a value, a variable or a call more or
less is in the ledger.  A Release goes down the fields until an object survives: `ReleaseSteps`
is the induction on how far it has come.  The ways out of a scope release a
sequence of variables of any length: `DropAtCounted` is the induction on how
many.

### The elider

`ElideBlockProofs`, for any finite sets of objects and of values, any number of
references owned through a value, runs of Releases of any length, and calls of
up to two arguments, with and without weak references: every property the run
`elide_block` checks,

- `ElisionChangesNothing`: `ElideSpec => []ElisionInvisible`.  The block with the
  pairs deleted never touches a dead object, and whenever every deleted Retain
  has met its Release its heap is the heap the block as lowered leaves;
- `FreshRootsUnique`: `ElideSpec => []FreshIsUnique`;
- `ElisionTypeCorrect`: `ElideSpec => []ElideTypeOK`;
- `ElisionInvariant`: `ElideSpec => []ElideInvariant`, from which the others
  follow.

Assumptions.  `ElideAssumption` and `CountedHeapAssumption`, which give the
constants their types and limit calls to two arguments; and
`~BorrowsThroughOwned`: no expression reads through a value the same call is
given.  The last is needed: `elide_borrow` drops it and TLC finds the borrowed
object dead (finding 3).

The argument.  `ElisionInvisible` says nothing while a pair is open, which is
when things go wrong.  In between, the heap of the block as it is left is not
the other one with some counts lower: an object given to a callee may have died
in it already, with all that hung on it.  What remains true is `Beside`: each
heap is `Counted` by a ledger of its own, the second ledger lacks exactly the
deleted Retains whose Release is to come, and the second heap is the first
with, at most, some objects dead before their time, in an order along the fields
and so not around a cycle (`Shed`).  Two such heaps with the same ledger are the same heap
(`BesideSame`), which is `ElisionInvisible`.

That nothing dead is touched needs to know why what the block names is alive
WITHOUT the deleted reference: it is the caller's, or owned, or hangs by fields
on a value that is (`Rooted`); and a value whose Retain is deleted is still
alive on the second heap unless it was given away (`PassRight`), which is what
`callConsumed` is for: the sweep forgets a pair when such a value is mentioned
again, and the guess that the pair goes is then a state that does not exist.
Two names for one object make a Release of one a threat to the pair of the
other; `freshRoots` is judged by `PassRight`'s claim that a fresh value is the
only way to its object, in both heaps.

Each instruction has a lemma (`RetainKeeps` ... `WeakLoadKeeps`).  `RunKeeps`
goes through a run by induction on its length: the Releases that go, go from
the first ledger only; the ones that stay take a reference from both, and `Shed`
survives because what dies in the first heap had to die in the second
(`ShedSince`).  `CallKeeps` takes a callee stage by stage, in the order of
`Callee`: what it keeps it retains, then the field, the result, what it gives
up, and what it reads last.

### The harness

`BenchHarnessProofs`, for every set of benchmarks and modes, every command line,
number of runs, set of checksums and quality of samples that satisfies
`HarnessAssumption` (at least one run and one mode, a checksum that is not the
empty answer, no benchmark named twice: the script finds its benchmarks as
directories, `run-bench.sh:267`): every safety property the run `bench` checks,

- `HarnessTypeCorrect`: `Spec => []BenchTypeOK`;
- `HarnessRowsWhole`: `Spec => []RowsAreWhole`;
- `HarnessLeaksNeverTimed`: `Spec => []LeaksNeverTimed`;
- `HarnessNothingVanishes`: `Spec => []NothingVanishes`;
- `HarnessNotesDisagreement`: `Spec => []DisagreementNoted`;
- `HarnessGateStands`: `Spec => []GateStandsForSuite`.

The argument.  None of them is inductive: a row is written from what
`time_binary` returns, and says nothing of how it came about.  `HarnessInv` adds
what holds meanwhile: the samples are those of the runs after the first and the
checksum is that of all of them (`TimerOK`); what is live in a process is what
its calls have leaked (`ProcOK`), so one that ends well under a main that looks
shows that the kernel does not leak (`RunsShowLeaks`), and a kernel that leaks
has such a main where there is an `llvm-nm` (`Kernels`).  For
`NothingVanishes`, `SuiteInv` follows a benchmark's rows from where they come:
each mode is still to be built or has a binary (`BuildingOK`), each binary is
still to be timed or has left a row or a failure (`Accounted`), each benchmark
is still to be done or is covered (`Covered`).

A mismatch is noted when a row is compared with the baseline, so that every
mismatch is noted depends on the baseline being there FIRST, and there once.
`BaselineInv` has where that comes from: of the binaries the baseline is the
first and no other (`BaselineBuilt`), so among the jobs it comes after the
precheck and before the rest (`BaselineFirst`), and no row is of a benchmark
still to come (`RowsOfDone`), which is where a benchmark named twice would
break it.  `HarnessGateStands` puts the three together: a number of the gate
needs rows of every benchmark of the suite, each whole, without leaks and
in agreement with the same baseline.

### Induction and recursion

The library states induction for a predicate, as an operator that is a
parameter, and no installed prover instantiates one.  `Iteration` states it for
a SET of numbers (`NatInduct`), proved from the well-foundedness of the naturals,
and shows that the functions a `LET` defines by recursion on a number exist and
satisfy their equations (`IterationExists`, `FoldStepsExist`).  What is needed
of a recursive definition is then proved like anything else.

### Only model-checked

`CascadeEnds` and `Reports` are liveness under fairness, which is out of the
prover's reach, as `ENABLED` is.  `BareLanguage` is recursive over programs and
uses bitwise operators: what it computes for every input cannot be proved, nor
anything in the modules over it, which are about 25 programs and their mains and
not about every value of a constant.  That is `CorrectAccepted`,
`LeakNeverAccepted`, `FaultFoundAs`, `PredicatesTold` and `TrapsTold`.  Every other safety property of a passing run
is a theorem.

## 6. What is not modelled, and why

- Null references in the runtime and in `ElideBlock`: Retain and Release of
  null are no-ops, and an elided pair on null changes nothing.  `ArcLowering`
  has them, `ArcRuntime` has null fields.
- Interior pointers in `_elideBlock` (`derivedOf`): they are escapes of their
  root.
- Payload words but the first of a raw block, and scalar fields: nothing reads
  them but the program.
- Strong counts beyond `CountMod`: the source does not check for it
  (`llvm_emit.dart:1674`) and the model assumes it away (`ArcAssumption`).
- `lower.dart`'s if-branches over references: a branch may not assign a heap
  local of the function or leave one declared behind it, so a branch is the
  statements it contains; what merges are scalars.
- Cross-block elision, call summaries, SSA merges and monomorphization: planned
  below.
- Of the numerics: floats, atomics and fences, conversions between signed and
  unsigned.  Of the examples: those about memory-mapped I/O, ports, atomics,
  floats, sections, strings, globals, and the foreign-function interface, whose
  point is the symbol or the instruction emitted and not what is computed.
- Of the harness: the statistics awk computes from samples (a quality is
  chosen instead) and the attribution of gaps, which decide nothing; options and
  set-up errors before the loop (exit 2).
- Hosts on two threads: no example has one, and `dc_heap` is not locked.
- The frontend, command line, targets, C headers, object inspection and
  website: I/O and tables, without the kinds of state this project is about.

`PROJECT.json` lists every component with its status, every hazard found in the
code with the properties that cover it or the reason none does, and for every
definition the lines it models.

## 7. Plan

In this order.

1. `CallSummaries`: functions as small control-flow graphs of counting
   instructions; the coverage test `_allReleasesCovered`, the two fixpoints, and
   the claim each makes, checked against an execution.  Abstract specification:
   "no count falls below its value at entry", "the result is the only
   reference".  `ElideBlock` already assumes exactly these.
2. `ElideCross`: the frontier search on a graph of blocks, on top of
   `ElideBlock`'s two heaps; property `ElisionInvisible` over paths.
3. `LoopLowering`: SSA construction for while, for, if, break and continue,
   compared with an interpreter of the source statements.
4. `Monomorphize`: the worklist, its deduplication and its two budgets;
   completeness and termination.
5. Floats, atomics and signed conversions in `BareLanguage`, with the examples
   that use them.
6. Proofs over these: the two claims of `CallSummaries` are what `ElideBlock`
   takes a transparent callee and a fresh result to be, so that the theorems
   about calls would rest on the fixpoints themselves.
