---------------------------- MODULE BareLanguage ----------------------------
(***************************************************************************)
(* What a @bare program computes when it runs: each expression and         *)
(* statement as core/dcc-lower/lib/lower.dart lowers it, reference         *)
(* counting included, over arithmetic and a heap as                        *)
(* core/backend/lib/llvm_emit.dart emits them.                             *)
(*                                                                         *)
(* A run is made under a fault, one mistake of a compiler: a test is worth *)
(* what it says about those.  The heap is words, not objects, because a    *)
(* mistake in counting is an operation on a word that no longer is a       *)
(* count: the header of a freed block is the link to the next one.         *)
(***************************************************************************)
EXTENDS BareSyntax, SequencesExt, Bitwise

CONSTANTS
  Units,       \* unit |-> function name |-> [params, owned, body]
  Bits,        \* integer type |-> its width, scaled down to TLC's integers
  HeapBlocks,  \* unit |-> bound: the blocks of its heap's one size class
  LoopDepth    \* bound: a loop that runs 2^LoopDepth iterations hangs

ASSUME LanguageAssumption ==
  /\ \A t \in DOMAIN Bits : Bits[t] \in 2 .. 28
  /\ HeapBlocks \in [DOMAIN Units -> Nat \ {0}] /\ LoopDepth \in Nat

Program == Units       \* a definition, so that TLC evaluates it once

-----------------------------------------------------------------------------
(* Faults: in what operation, at what type, and how. *)

Fault(op, t, how) == [op |-> op, t |-> t, how |-> how]
NoFault == Fault("none", "none", "none")

Broken(s, op, t, how) ==
  /\ s.fault.how = how
  /\ s.fault.op \in {op, "any"} /\ s.fault.t \in {t, "any"}

-----------------------------------------------------------------------------
(* The state of a run.  out is "go" while it goes on; "break", "continue"  *)
(* and "return" on their way out of a body; "left" when a loop is over;    *)
(* "trap" when it was killed, "wild" when what it does is undefined,       *)
(* "hang" when a loop does not end.  val is the value of the expression    *)
(* just evaluated, fresh says whether that is a reference of its own.      *)

Word == 2^14           \* scaled: the counts and half a link are 32 bits wide
BlockSize == 32
Address(b) == BlockSize * b

NewBlock == [lo |-> 0, hi |-> 0, body |-> <<>>, held |-> FALSE]

EmptyHeap(unit) == [block |-> [b \in 1 .. HeapBlocks[unit] |-> NewBlock],
                    free |-> 0, top |-> 0, live |-> 0, stale |-> FALSE]

Start(unit, heap, fault) ==
  [fns |-> Program[unit], env |-> <<>>, own |-> <<>>, loop |-> 0, pending |-> <<>>,
   heap |-> heap, fault |-> fault, out |-> "go", val |-> Unit, fresh |-> FALSE]

Yield(s, v, fresh) == [s EXCEPT !.val = v, !.fresh = fresh]
Stop(s, out)       == IF s.out = "go" THEN [s EXCEPT !.out = out] ELSE s

\* What follows, if the run goes on.
Then(s, F(_)) == IF s.out = "go" THEN F(s) ELSE s

\* What the compiler emits for F, unless the fault is there.
Emit(op, s, F(_)) ==
  IF Broken(s, op, "arc", "omit") THEN s
  ELSE IF Broken(s, op, "arc", "twice") THEN F(F(s)) ELSE F(s)

-----------------------------------------------------------------------------
(* Integers. *)

MaxOf(t) == 2^Bits[t] - 1

\* n as the two's complement value of the same bits.
SignedOf(t, n) == IF n > MaxOf(t) \div 2 THEN n - MaxOf(t) - 1 ELSE n

Holds(op, x, y) ==
  CASE op = "lt" -> x < y [] op = "le" -> x <= y
    [] op = "gt" -> x > y [] op = "ge" -> x >= y
    [] op = "eq" -> x = y [] op = "ne" -> x # y

\* The predicate a backend takes by mistake: strict for not strict, eq for ne.
NextTo(op) ==
  CASE op = "lt" -> "le" [] op = "le" -> "lt" [] op = "gt" -> "ge"
    [] op = "ge" -> "gt" [] op = "eq" -> "ne" [] op = "ne" -> "eq"

\* icmp: both operands as unsigned integers of their own width.
Compare(s, op, a, b) ==
  LET as(n) == IF Broken(s, op, a.t, "signed") THEN SignedOf(a.t, n)
               ELSE IF Broken(s, op, a.t, "truncated") THEN n % 2^Bits["u32"] ELSE n
      pred  == IF Broken(s, op, a.t, "predicate") THEN NextTo(op) ELSE op
  IN  IF Holds(pred, as(a.n), as(b.n)) THEN 1 ELSE 0

ShiftLeft(t, n, by) == FoldLeft(LAMBDA m, i : (2 * m) % 2^Bits[t], n, [i \in 1 .. by |-> i])

\* The product of a and b in as many bits as the type has.
WrappedProduct(t, a, b) ==
  FoldLeft(LAMBDA m, i : (m + ((b \div 2^(i - 1)) % 2) * ShiftLeft(t, a, i - 1)) % 2^Bits[t],
           0, [i \in 1 .. Bits[t] |-> i])

\* Faulty variant: subtraction traps one value early.
Overflows_AtZero(t, op, a, b) ==
  CASE op = "add" -> a + b > MaxOf(t)
    [] op = "sub" -> a <= b
    [] op = "mul" -> b # 0 /\ a > MaxOf(t) \div b

Overflows(t, op, a, b) ==
  CASE op = "add" -> a + b > MaxOf(t)
    [] op = "sub" -> a < b
    [] op = "mul" -> b # 0 /\ a > MaxOf(t) \div b

Wrapped(t, op, a, b) ==
  CASE op = "add" -> (a + b) % 2^Bits[t]
    [] op = "sub" -> (a - b) % 2^Bits[t]
    [] op = "mul" -> IF Overflows(t, op, a, b) THEN WrappedProduct(t, a, b) ELSE a * b

\* The quotient or remainder, rounded to zero, of the bits taken as signed.
SignedDivision(t, op, a, b) ==
  LET x == SignedOf(t, a)
      y == SignedOf(t, b)
      abs(n) == IF n < 0 THEN -n ELSE n
      negative == IF op = "div" THEN (x < 0) # (y < 0) ELSE x < 0
      n == IF op = "div" THEN abs(x) \div abs(y) ELSE abs(x) % abs(y)
  IN  (IF negative THEN -n ELSE n) % 2^Bits[t]

\* add, sub and mul trap on overflow; div and rem on a zero divisor, which
\* is undefined without the test.
Arithmetic(s, op, a, b) ==
  LET t == a.t
      it(n) == Yield(s, Value(t, n), FALSE)
  IN  CASE op \in {"add", "sub", "mul"} ->
             IF Overflows(t, op, a.n, b.n) /\ ~Broken(s, op, t, "wraps") THEN Stop(s, "trap")
             ELSE it(Wrapped(t, op, a.n, b.n))
        [] op \in {"div", "rem"} /\ b.n = 0 ->
             Stop(s, IF Broken(s, op, t, "unchecked") THEN "wild" ELSE "trap")
        [] op \in {"div", "rem"} /\ Broken(s, op, t, "signed") -> it(SignedDivision(t, op, a.n, b.n))
        [] op = "div" -> it(IF Broken(s, op, t, "swapped") THEN a.n % b.n ELSE a.n \div b.n)
        [] op = "rem" -> it(IF Broken(s, op, t, "swapped") THEN a.n \div b.n ELSE a.n % b.n)

\* Never trap; a shift by the width or more is poison.
BitwiseOp(s, op, a, b) ==
  LET it(n) == Yield(s, Value(a.t, n), FALSE)
  IN  CASE op = "and" -> it(a.n & b.n)
        [] op = "or"  -> it(a.n | b.n)
        [] op = "xor" -> it(a.n ^^ b.n)
        [] op \in {"shl", "shr"} /\ b.n >= Bits[a.t] -> Stop(s, "wild")
        [] op = "shl" -> it(ShiftLeft(a.t, a.n, b.n))
        [] op = "shr" ->
             it(IF Broken(s, op, a.t, "signed") THEN (SignedOf(a.t, a.n) \div 2^b.n) % 2^Bits[a.t]
                ELSE a.n \div 2^b.n)

Apply(s, op, a, b) ==
  CASE op \in {"lt", "le", "gt", "ge", "eq", "ne"} ->
         Yield(s, Value("bool", Compare(s, op, a, b)), FALSE)
    [] op \in {"and", "or", "xor", "shl", "shr"} -> BitwiseOp(s, op, a, b)
    [] OTHER -> Arithmetic(s, op, a, b)

-----------------------------------------------------------------------------
(* The heap. *)

IsBlock(h, a) == a % BlockSize = 0 /\ a \div BlockSize \in 1 .. h.top
BlockAt(h, a) == h.block[a \div BlockSize]

\* s with the block at a changed; stale remembers that a block was used
\* that no one held.
Use(s, a, F(_)) ==
  IF s.out # "go" THEN s
  ELSE IF ~IsBlock(s.heap, a) THEN Stop(s, "wild")
  ELSE [s EXCEPT !.heap.block[a \div BlockSize] = F(@),
                 !.heap.stale = @ \/ ~BlockAt(s.heap, a).held]

\* Faulty variant: the free list is not looked at.
Alloc_Carves(s, body) ==
  LET h == s.heap
      a == Address(h.top + 1)
  IN  IF s.out # "go" THEN s
      ELSE IF h.top = Len(h.block) THEN Stop(s, "trap")
      ELSE Yield([s EXCEPT !.heap.block[a \div BlockSize] =
                              [lo |-> 1, hi |-> 0, body |-> body, held |-> TRUE],
                           !.heap.top = @ + 1, !.heap.live = (@ + 1) % Word],
                 Value("ref", a), TRUE)

\* Pop the free list, or take the next block of the region, or trap.
Alloc(s, body) ==
  LET h == s.heap
      a == IF h.free # 0 THEN h.free ELSE Address(h.top + 1)
      b == BlockAt(h, a)
      born == [lo |-> 1, hi |-> 0, body |-> body, held |-> TRUE]
  IN  IF s.out # "go" THEN s
      ELSE IF h.free = 0 /\ h.top = Len(h.block) THEN Stop(s, "trap")
      ELSE IF h.free # 0 /\ ~IsBlock(h, h.free) THEN Stop(s, "wild")
      ELSE Yield([s EXCEPT !.heap.block[a \div BlockSize] = born,
                           !.heap.free = IF @ = 0 THEN 0 ELSE b.lo + Word * b.hi,
                           !.heap.top = IF h.free = 0 THEN @ + 1 ELSE @,
                           !.heap.live = (@ + 1) % Word],
                 Value("ref", a), TRUE)

\* Faulty variant: dc_heap_live is not decremented.
FreeSlotPushback_Uncounted(s, a) ==
  IF s.out # "go" THEN s
  ELSE [s EXCEPT !.heap.block[a \div BlockSize] =
                    [@ EXCEPT !.lo = s.heap.free % Word, !.hi = s.heap.free \div Word,
                              !.held = FALSE],
                 !.heap.free = a]

\* The block goes to the head of the free list: its header becomes the link.
FreeSlotPushback(s, a) ==
  IF s.out # "go" THEN s
  ELSE [s EXCEPT !.heap.block[a \div BlockSize] =
                    [@ EXCEPT !.lo = s.heap.free % Word, !.hi = s.heap.free \div Word,
                              !.held = FALSE],
                 !.heap.free = a,
                 !.heap.live = (@ - 1) % Word]

FreeIfUnused(s, a) ==
  IF s.out = "go" /\ BlockAt(s.heap, a).lo = 0 /\ BlockAt(s.heap, a).hi = 0
  THEN FreeSlotPushback(s, a) ELSE s

Retain(s, a) ==
  IF a = 0 THEN s ELSE Use(s, a, LAMBDA b : [b EXCEPT !.lo = (@ + 1) % Word])

MakeWeak(s, a) == Use(s, a, LAMBDA b : [b EXCEPT !.hi = (@ + 1) % Word])

DropWeak(s, a) ==
  IF a = 0 THEN s
  ELSE Emit("weak.free", Use(s, a, LAMBDA b : [b EXCEPT !.hi = (@ - 1) % Word]),
            LAMBDA u : FreeIfUnused(u, a))

RECURSIVE Release(_, _)

\* The destructor releases the reference fields.
Destroy(s, a) ==
  LET refs == SelectSeq(BlockAt(s.heap, a).body, LAMBDA v : v.t = "ref")
  IN  Emit("destroy", s, LAMBDA u : FoldLeft(LAMBDA w, v : Release(w, v.n), u, refs))

\* A destroyed block is freed unless a weak reference holds it.
FreeDestroyed(s, a) ==
  IF Broken(s, "zombie", "arc", "omit") THEN FreeSlotPushback(s, a) ELSE FreeIfUnused(s, a)

Release(s, a) ==
  IF a = 0 THEN s
  ELSE Then(Use(s, a, LAMBDA b : [b EXCEPT !.lo = (@ - 1) % Word]),
            LAMBDA u : IF BlockAt(u.heap, a).lo # 0 THEN u ELSE FreeDestroyed(Destroy(u, a), a))

-----------------------------------------------------------------------------
(* Owners. *)

IsRef(v) == v.t = "ref"
IsHeap(v) == v.t \in {"ref", "weak"}

Drop(s, v) ==
  IF v.t = "ref" THEN Release(s, v.n) ELSE IF v.t = "weak" THEN DropWeak(s, v.n) ELSE s

\* The variables of a sequence are dropped, strong ones first.
DropVars(s, xs) ==
  LET strong == SelectSeq(xs, LAMBDA x : IsRef(s.env[x]))
      weak   == SelectSeq(xs, LAMBDA x : ~IsRef(s.env[x]))
  IN  FoldLeft(LAMBDA u, x : Drop(u, s.env[x]), s, strong \o weak)

\* A loop body is left by way of edge: its own variables are dropped.
LeaveScope(s, edge) ==
  LET gone == Reverse(SubSeq(s.own, s.loop + 1, Len(s.own)))
  IN  [Emit(edge, s, LAMBDA u : DropVars(u, gone)) EXCEPT !.own = SubSeq(@, 1, s.loop)]

\* _releaseHeapLocals, _releaseWeakLocals
LeaveCall(s, edge, kept) ==
  Emit(edge, s, LAMBDA u : DropVars(u, SelectSeq(u.own, LAMBDA x : x # kept)))

\* The value just evaluated gets an owner.
RetainUnlessFresh(s, site) ==
  IF IsRef(s.val) /\ ~s.fresh THEN Emit(site, s, LAMBDA u : Retain(u, s.val.n)) ELSE s

\* The value v is no longer needed; had is whether it was a temporary.
ReleaseTemporary(s, v, had) ==
  IF had THEN Emit("temporary", s, LAMBDA u : Drop(u, v)) ELSE s

-----------------------------------------------------------------------------
(* Expressions and statements. *)

RECURSIVE Eval(_, _), Evals(_, _, _), Invoke(_, _, _), Exec(_, _), Run(_, _), Iterate(_, _, _)

\* e is evaluated and F goes on with the state and its value.
With(e, s, F(_)) == Then(Eval(e, s), F)

\* The reference just evaluated belongs to an unfinished expression.
TrackPendingOwner(s, v, owned) ==
  IF IsHeap(v.val) /\ (owned \/ v.fresh) THEN [s EXCEPT !.pending = Append(@, v.val)] ELSE s

\* One more argument, for an @owned parameter acquired at once.
Argument(acc, v, owned) ==
  [s     |-> TrackPendingOwner(IF owned THEN RetainUnlessFresh(v, "owned.retain") ELSE v, v, owned),
   vals  |-> Append(acc.vals, v.val),
   temps |-> IF v.fresh /\ ~owned THEN Append(acc.temps, v.val) ELSE acc.temps,
   depth |-> acc.depth]

\* The arguments in order, into vals.
Evals(args, owned, s) ==
  LET none == [s |-> s, vals |-> <<>>, temps |-> <<>>, depth |-> Len(s.pending)]
  IN  IF args = <<>> THEN none
      ELSE FoldLeft(LAMBDA acc, i : IF acc.s.out # "go" THEN acc
                                    ELSE Argument(acc, Eval(args[i], acc.s), i \in owned),
                    none, [i \in 1 .. Len(args) |-> i])

\* The arguments have been used: the temporaries among them are dropped.
DropTemporaries(s, ready) ==
  FoldLeft(LAMBDA u, v : ReleaseTemporary(u, v, TRUE),
           [s EXCEPT !.pending = SubSeq(@, 1, ready.depth)], ready.temps)

\* f's own variables are its parameters; an @owned one is tracked.
EnterCall(s, f, args) ==
  [s EXCEPT !.env = [x \in Range(f.params) |-> args[CHOOSE i \in 1 .. Len(f.params) : f.params[i] = x]],
            !.own = SelectSeq(f.params, LAMBDA x : x \in f.owned),
            !.loop = 0, !.pending = <<>>, !.val = Unit]

\* The body of a void function may end without a return.
FallOffEnd(s) == Then(s, LAMBDA u : Stop(Yield(LeaveCall(u, "end.release", ""), Unit, FALSE), "return"))

\* The result is the caller's.
BackIn(s, done) ==
  [done EXCEPT !.env = s.env, !.own = s.own, !.loop = s.loop, !.pending = s.pending,
               !.out = IF @ = "return" THEN "go" ELSE @,
               !.fresh = IF done.out = "return" THEN IsHeap(done.val) ELSE @]

Invoke(s, f, args) == BackIn(s, FallOffEnd(Run(f.body, EnterCall(s, f, args))))

\* A call: the temporaries lent to it are dropped when it returns.
CallWith(f, ready) ==
  Then(ready.s, LAMBDA s : Then(Invoke(s, f, ready.vals), LAMBDA u : DropTemporaries(u, ready)))

LowerCall(s, f, args) ==
  CallWith(f, Evals(args, {i \in 1 .. Len(f.params) : f.params[i] \in f.owned}, s))

\* A constructor: fields retain their arguments, then temporaries go.
ConstructWith(ready) ==
  LET field(u, v) == IF IsRef(v) THEN Emit("field.retain", u, LAMBDA w : Retain(w, v.n)) ELSE u
  IN  Then(ready.s, LAMBDA s :
        DropTemporaries(FoldLeft(field, Alloc(s, ready.vals), ready.vals), ready))

LowerHeapConstruction(s, args) == ConstructWith(Evals(args, {}, s))

\* A field read; a child outlives its parent only if it is retained.
LoadChild(p, child) ==
  LET acquired == p.fresh /\ IsRef(child)
      kept == IF acquired THEN Emit("child.retain", p, LAMBDA u : Retain(u, child.n)) ELSE p
  IN  Yield(ReleaseTemporary(kept, p.val, p.fresh), child, acquired)

LowerFieldLoad(p, field) ==
  Then(Use(p, p.val.n, LAMBDA b : b),
       LAMBDA seen : LoadChild(seen, BlockAt(seen.heap, p.val.n).body[field]))

\* weak.value: a reference of its own, or null.
LoadWeak(w, found) ==
  Yield(ReleaseTemporary(Emit("weakload.retain", w, LAMBDA u : Retain(u, found)), w.val, w.fresh),
        Value("ref", found), TRUE)

LowerWeakValue(w) ==
  Then(Use(w, w.val.n, LAMBDA b : b),
       LAMBDA seen : LoadWeak(seen, IF BlockAt(seen.heap, w.val.n).lo = 0 THEN 0 ELSE w.val.n))

ReleasePendingOwners(s) == FoldLeft(Drop, s, Reverse(s.pending))

\* .propagate(): an Err is returned at once, with everything released.
LowerPropagate(r) ==
  IF r.val.t = "ok" THEN Yield(r, U64(r.val.n), FALSE)
  ELSE Stop(LeaveCall(Emit("propagate.release", r, ReleasePendingOwners), "propagate.release", ""), "return")

Eval(e, s) ==
  CASE s.out # "go"    -> s
    [] e.k = "lit"     -> Yield(s, e.v, FALSE)
    [] e.k = "var"     -> Yield(s, s.env[e.x], FALSE)
    [] e.k = "bin"     -> With(e.a, s, LAMBDA l : With(e.b, l, LAMBDA r : Apply(r, e.op, l.val, r.val)))
    [] e.k = "convert" -> With(e.e, s, LAMBDA v : Yield(v, Value(e.t, v.val.n % 2^Bits[e.t]), FALSE))
    [] e.k = "isnull"  -> With(e.e, s, LAMBDA v :
         Yield(ReleaseTemporary(v, v.val, v.fresh), Value("bool", IF v.val.n = 0 THEN 1 ELSE 0), FALSE))
    [] e.k = "new"     -> LowerHeapConstruction(s, e.args)
    [] e.k = "get"     -> With(e.e, s, LAMBDA p : LowerFieldLoad(p, e.field))
    [] e.k = "call"    -> LowerCall(s, s.fns[e.f], e.args)
    [] e.k = "indirect" -> LowerCall(s, s.fns[s.env[e.x].n], e.args)
    [] e.k = "result"  -> With(e.e, s, LAMBDA v : Yield(v, Value(e.t, v.val.n), FALSE))
    [] e.k = "propagate" -> With(e.e, s, LowerPropagate)
    [] e.k = "fromstrong" -> With(e.e, s, LAMBDA v :
         Yield(ReleaseTemporary(Emit("makeweak", v, LAMBDA u : MakeWeak(u, v.val.n)), v.val, v.fresh),
               Value("weak", v.val.n), TRUE))
    [] e.k = "weakget" -> With(e.e, s, LowerWeakValue)

\* A declaration: the variable owns what it refers to.  The fault: the pair
\* of retain and release is taken out.
LowerLet(v, x) ==
  LET bound == [v EXCEPT !.env = (x :> v.val) @@ @]
      elided == Broken(v, "let", "arc", "elide") /\ ~v.fresh
  IN  IF ~IsHeap(v.val) \/ elided THEN bound
      ELSE [RetainUnlessFresh(bound, "let.retain") EXCEPT !.own = Append(@, x)]

\* x = e: the new value is acquired, then the old one released.
LowerSet(v, x) ==
  LET old == v.env[x]
      new == [RetainUnlessFresh(v, "set.retain") EXCEPT !.env[x] = v.val]
  IN  IF IsRef(old) THEN Emit("set.release", new, LAMBDA u : Drop(u, old)) ELSE new

\* o.field = e: the same for a field; v is the state with the value.
LowerPut(o, v, field) ==
  LET old == BlockAt(v.heap, o.val.n).body[field]
      new == Use(RetainUnlessFresh(v, "put.retain"), o.val.n, LAMBDA b : [b EXCEPT !.body[field] = v.val])
      put == IF IsRef(old) THEN Emit("put.release", new, LAMBDA u : Drop(u, old)) ELSE new
  IN  IF ~IsBlock(v.heap, o.val.n) THEN Stop(v, "wild")
      ELSE ReleaseTemporary([put EXCEPT !.pending = o.pending], o.val, o.fresh)

\* Faulty variant: a variable's reference is returned without being acquired.
LowerReturn_Borrowed(v, e) == Stop(LeaveCall(v, "return.release", ""), "return")

\* return e: a tracked variable hands over its reference.
LowerReturn(v, e) ==
  LET kept == IF e.k = "var" /\ e.x \in Range(v.own) THEN e.x ELSE ""
      held == IF kept = "" THEN RetainUnlessFresh(v, "return.retain") ELSE v
  IN  Stop(LeaveCall(held, "return.release", kept), "return")

\* The body of a loop is over: its update and the next turn, or the loop is left.
EndTurn(w, outer, body) ==
  LET back == IF body.out = "go" THEN LeaveScope(body, "fall.release") ELSE body
  IN  IF body.out = "break" THEN [body EXCEPT !.loop = outer, !.out = "left"]
      ELSE Run(w.update, [back EXCEPT !.loop = outer, !.out = IF @ = "continue" THEN "go" ELSE @])

\* The body of a loop.  The fault: its variables are dropped before its last
\* statement and not after it.
LoopBody(body, s) ==
  IF ~Broken(s, "fall.release", "arc", "early") THEN Run(body, s)
  ELSE Then(Run(Front(body), s), LAMBDA u : Exec(Last(body), LeaveScope(u, "fall.release")))

\* One turn of a loop.
Turn(w, s) ==
  With(w.c, s, LAMBDA test :
    IF test.val.n = 0 THEN Stop(test, "left")
    ELSE EndTurn(w, s.loop, LoopBody(w.body, [test EXCEPT !.loop = Len(test.own)])))

\* 2^d turns, or as many as there are.
Iterate(d, w, s) ==
  IF s.out # "go" THEN s
  ELSE IF d = 0 THEN Turn(w, s)
  ELSE Iterate(d - 1, w, Iterate(d - 1, w, s))

LeaveLoop(s) == IF s.out = "left" THEN [s EXCEPT !.out = "go"] ELSE Stop(s, "hang")

LowerWhile(w, s) == LeaveLoop(Iterate(LoopDepth, w, s))

Exec(c, s) ==
  CASE c.k = "let"    -> With(c.e, s, LAMBDA v : LowerLet(v, c.x))
    [] c.k = "set"    -> With(c.e, s, LAMBDA v : LowerSet(v, c.x))
    [] c.k = "put"    -> With(c.o, s, LAMBDA o :
                           With(c.e, TrackPendingOwner(o, o, FALSE), LAMBDA v : LowerPut(o, v, c.field)))
    [] c.k = "do"     -> With(c.e, s, LAMBDA v : ReleaseTemporary(v, v.val, v.fresh))
    [] c.k = "if"     -> With(c.c, s, LAMBDA v : Run(IF v.val.n = 1 THEN c.then ELSE c.else, v))
    [] c.k = "while"  -> LowerWhile(c, s)
    [] c.k = "return" -> With(c.e, s, LAMBDA v : LowerReturn(v, c.e))
    [] c.k = "break"    -> Stop(LeaveScope(s, "break.release"), "break")
    [] c.k = "continue" -> Stop(LeaveScope(s, "continue.release"), "continue")

\* Statements in order, until one leaves.
Run(cs, s) == IF cs = <<>> \/ s.out # "go" THEN s ELSE Run(Tail(cs), Exec(Head(cs), s))

=============================================================================
