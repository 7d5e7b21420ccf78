---------------------------- MODULE ArcLowering ----------------------------
(***************************************************************************)
(* The reference counting that core/dcc-lower/lib/lower.dart inserts, run  *)
(* as the emitted code runs it: a stack of calls, each with its variables, *)
(* the bodies of loops it is in, and the values of the expression being    *)
(* evaluated.  An action is a statement, a step of an expression, a call   *)
(* or a return, with every Retain, Release, MakeWeak and DropWeak emitted  *)
(* for it and in that order.  Any well-typed program is a path: scalars,   *)
(* conditions and the blocks values are carried between are left out.      *)
(*                                                                         *)
(* A Release with all it brings down is one step here (CountedHeap);       *)
(* ArcRuntime takes it apart.                                              *)
(***************************************************************************)
EXTENDS CountedHeap, SequencesExt

CONSTANT
  Programs  \* the kinds of programs run, each with its bounds:
            \*   objs    objects at a time
            \*   depth   calls in progress
            \*   vars    variables of all calls in progress
            \*   eval    values held by all expressions in progress
            \*   bodies  nested loop bodies of a call
            \*   weak       does it use weak references?
            \*   assigns    does it assign to borrowed parameters?
            \*   overwrites does it overwrite a field while what it led to is
            \*              borrowed by an unfinished expression?

ASSUME LoweringAssumption ==
  Programs \subseteq [objs : Nat, depth : Nat, vars : Nat, eval : Nat, bodies : Nat,
                      weak : BOOLEAN, assigns : BOOLEAN, overwrites : BOOLEAN]

VARIABLES
  program, \* which of them runs
  heap,    \* object |-> its counts, its field, and whether its block is taken
  stack    \* the calls in progress, outermost first

lowVars == <<program, heap, stack>>

\* A variable of a call.  Locals and @owned parameters are tracked
\* (_heapLocals, _weakLocals); other parameters are borrowed.
Variable == [tracked : BOOLEAN, weak : BOOLEAN, val : Ref]

\* A value of the expression being evaluated.  "named": a variable's.
\* "borrowed": read from a field.  "fresh": the expression owns a reference
\* to it.  "moved": it owns one, already on its way to an @owned parameter.
Value == [val : Ref, own : {"named", "borrowed", "fresh", "moved"}, weak : BOOLEAN]

Owning == {"fresh", "moved"}

\* bodies holds, for each loop body entered, how many variables there were.
\* args is 0 while the call runs, and one more than the number of values it
\* has lent while another it made is in progress.
Frame == [vars : Seq(Variable), bodies : Seq(Nat), eval : Seq(Value), args : Nat]

NoCall == [vars |-> <<>>, bodies |-> <<>>, eval |-> <<>>, args |-> 0]

LowInit ==
  /\ program \in Programs
  /\ heap = [o \in Objs |-> FreeBlock]
  /\ stack = <<NoCall>>

-----------------------------------------------------------------------------
(* What the lowering emits at a scope's end. *)

Drop(h, r) == IF r.weak THEN DropWeak(h, r.val) ELSE Release(h, r.val)

\* Release or DropWeak the references of a sequence at the positions I, in
\* order.
DropAt(h, refs, I) ==
  LET after[n \in 0 .. Len(refs)] ==
        IF n = 0 THEN h
        ELSE IF n \in I THEN Drop(after[n - 1], refs[n]) ELSE after[n - 1]
  IN  after[Len(refs)]

\* Faulty variant: weak variables are not dropped.
DropVars_NoWeak(h, vars, I) == DropAt(h, vars, {i \in I : ~vars[i].weak})

\* The variables at the positions I: strong ones first, then weak ones.
DropVars(h, vars, I) ==
  DropAt(DropAt(h, vars, {i \in I : ~vars[i].weak}), vars, {i \in I : vars[i].weak})

-----------------------------------------------------------------------------
(* The call that runs, and what it does with its values. *)

Top     == stack[Len(stack)]
Vars    == Top.vars
Eval    == Top.eval
Callers == Front(stack)

Running == stack # <<>> /\ Top.args = 0

SetTop(f) == stack' = Append(Callers, f)
SetEval(e) == SetTop([Top EXCEPT !.eval = e])

\* The operand on top; a moved value is no operand, it waits for its call.
Operand(weak) ==
  /\ Running /\ Eval # <<>>
  /\ Last(Eval).own # "moved" /\ Last(Eval).weak = weak

\* The expression is complete: its values are what a statement works on.
Complete(n) == Running /\ Len(Eval) = n /\ \A i \in 1 .. n : Eval[i].own # "moved"

NewValue(o, own) == [val |-> o, own |-> own, weak |-> FALSE]
RetainUnlessFresh(h, e) == IF e.own = "fresh" THEN h ELSE Retain(h, e.val)

\* _releaseTemporary
DropIfFresh(h, e) == IF e.own = "fresh" THEN Drop(h, e) ELSE h

\* Room, within the bounds, for n more variables and for one more value.
RoomForVars(n) == FoldLeft(LAMBDA m, f : m + Len(f.vars), n, stack) <= program.vars
RoomForValue   == FoldLeft(LAMBDA m, f : m + Len(f.eval), 1, stack) <= program.eval

-----------------------------------------------------------------------------
(* Expressions. *)

VariableGet(i) ==
  /\ Running /\ RoomForValue
  /\ SetEval(Append(Eval, [NewValue(Vars[i].val, "named") EXCEPT !.weak = Vars[i].weak]))
  /\ UNCHANGED heap

NullLiteral ==
  /\ Running /\ RoomForValue
  /\ SetEval(Append(Eval, NewValue(Null, "borrowed")))
  /\ UNCHANGED heap

\* Faulty variant: the child of a temporary is not retained.
HeapFieldLoad_NoRetain ==
  /\ Operand(FALSE) /\ Last(Eval).val # Null
  /\ LET parent == Last(Eval)
         child  == heap[parent.val].next
     IN  /\ SetEval(Append(Front(Eval), NewValue(child, "borrowed")))
         /\ heap' = IF parent.own = "fresh" THEN Release(heap, parent.val) ELSE heap

\* A read of the field: borrowed, unless the parent is a temporary, whose
\* child must outlive it.
HeapFieldLoad ==
  /\ Operand(FALSE) /\ Last(Eval).val # Null
  /\ LET parent == Last(Eval)
         child  == heap[parent.val].next
         lasts  == parent.own = "fresh"
     IN  /\ SetEval(Append(Front(Eval), NewValue(child, IF lasts THEN "fresh" ELSE "borrowed")))
         /\ heap' = IF lasts THEN Release(Retain(heap, child), parent.val) ELSE heap

\* A constructor: the field retains its argument, then a temporary argument
\* is dropped.
HeapConstruction(o) ==
  /\ Operand(FALSE) /\ ~heap[o].held
  /\ Cardinality({p \in Objs : heap[p].held}) < program.objs
  /\ LET arg == Last(Eval)
     IN  /\ heap' = DropIfFresh(Retain(Alloc(heap, o, arg.val), arg.val), arg)
         /\ SetEval(Append(Front(Eval), NewValue(o, "fresh")))

\* Faulty variant: a temporary target is not dropped.
WeakFromStrong_KeepsTarget ==
  /\ program.weak
  /\ Operand(FALSE) /\ Last(Eval).val # Null
  /\ heap' = MakeWeak(heap, Last(Eval).val)
  /\ SetEval(Append(Front(Eval), [NewValue(Last(Eval).val, "fresh") EXCEPT !.weak = TRUE]))

\* Weak.fromStrong
WeakFromStrong ==
  /\ program.weak
  /\ Operand(FALSE) /\ Last(Eval).val # Null
  /\ heap' = DropIfFresh(MakeWeak(heap, Last(Eval).val), Last(Eval))
  /\ SetEval(Append(Front(Eval), [NewValue(Last(Eval).val, "fresh") EXCEPT !.weak = TRUE]))

\* Faulty variant: the reference found is taken for a borrowed one.
WeakValue_Borrowed ==
  /\ Operand(TRUE)
  /\ LET target == Last(Eval).val
         found  == IF heap[target].strong = 0 THEN Null ELSE target
     IN  /\ heap' = DropIfFresh(heap, Last(Eval))
         /\ SetEval(Append(Front(Eval), NewValue(found, "borrowed")))

\* weak.value: a new reference, or null when the target is dead.
WeakValue ==
  /\ Operand(TRUE)
  /\ LET target == Last(Eval).val
         found  == IF heap[target].strong = 0 THEN Null ELSE target
     IN  /\ heap' = DropIfFresh(Retain(heap, found), Last(Eval))
         /\ SetEval(Append(Front(Eval), NewValue(found, "fresh")))

\* The value is compared with null, or a scalar read through it.
ReadScalar ==
  /\ Operand(FALSE)
  /\ heap' = DropIfFresh(heap, Last(Eval))
  /\ SetEval(Front(Eval))

\* The value is the argument of an @owned parameter.  The reference is
\* acquired now, before the arguments after it are evaluated.
OwnedArgument(weak) ==
  /\ Operand(weak)
  /\ weak => Last(Eval).own = "fresh"
  /\ heap' = RetainUnlessFresh(heap, Last(Eval))
  /\ SetEval(Append(Front(Eval), [Last(Eval) EXCEPT !.own = "moved"]))

\* The arguments a caller holds on to while its call is in progress.
Kept(args) ==
  LET kept[n \in 0 .. Len(args)] ==
        IF n = 0 THEN <<>>
        ELSE IF args[n].own \in {"borrowed", "fresh"} THEN Append(kept[n - 1], args[n])
        ELSE kept[n - 1]
  IN  kept[Len(args)]

\* The call takes the last n values.  A moved one is the callee's from here
\* on; the caller keeps its temporaries until the call returns, and borrows
\* what it read from fields for as long.
Call(n) ==
  /\ Running /\ n <= Len(Eval) /\ Len(stack) < program.depth /\ RoomForVars(n)
  /\ LET start == Len(Eval) - n
         args  == SubSeq(Eval, start + 1, Len(Eval))
         kept  == Kept(args)
         params == [i \in 1 .. n |-> [tracked |-> args[i].own = "moved",
                                      weak |-> args[i].weak, val |-> args[i].val]]
     IN  stack' = Callers \o
           << [Top EXCEPT !.eval = SubSeq(Eval, 1, start) \o kept, !.args = Len(kept) + 1],
              [NoCall EXCEPT !.vars = params] >>
  /\ UNCHANGED heap

-----------------------------------------------------------------------------
(* Statements. *)

Declare ==
  /\ Complete(1) /\ RoomForVars(1)
  /\ Eval[1].weak => Eval[1].own = "fresh"
  /\ heap' = RetainUnlessFresh(heap, Eval[1])
  /\ SetTop([Top EXCEPT !.eval = <<>>,
       !.vars = Append(@, [tracked |-> TRUE, weak |-> Eval[1].weak, val |-> Eval[1].val])])

\* Faulty variant: the old value is released before the new one is retained.
Assign_ReleaseFirst(i) ==
  /\ Complete(1) /\ ~Eval[1].weak /\ ~Vars[i].weak
  /\ Vars[i].tracked \/ program.assigns
  /\ heap' = RetainUnlessFresh(Release(heap, Vars[i].val), Eval[1])
  /\ SetTop([Top EXCEPT !.eval = <<>>, !.vars[i].val = Eval[1].val])

\* x = e.  The code does not ask whether x is tracked.
Assign(i) ==
  /\ Complete(1) /\ ~Eval[1].weak /\ ~Vars[i].weak
  /\ Vars[i].tracked \/ program.assigns
  /\ heap' = Release(RetainUnlessFresh(heap, Eval[1]), Vars[i].val)
  /\ SetTop([Top EXCEPT !.eval = <<>>, !.vars[i].val = Eval[1].val])

\* What an expression holds that was read from a field and not retained.
FieldBorrows(f) ==
  {e.val : e \in {d \in Range(f.eval) : d.own = "borrowed"}}

\* o.next = e
HeapFieldStore ==
  /\ Complete(2) /\ ~Eval[1].weak /\ ~Eval[2].weak /\ Eval[1].val # Null
  /\ LET o     == Eval[1].val
         new   == RetainUnlessFresh(heap, Eval[2])
         store == [new EXCEPT ![o].next = Eval[2].val]
     IN  /\ heap' = DropIfFresh(Release(store, new[o].next), Eval[1])
         /\ program.overwrites \/
              \A f \in Range(Callers) : Behind(heap, heap[o].next) \cap FieldBorrows(f) = {}
  /\ SetEval(<<>>)

-----------------------------------------------------------------------------
(* The ways out: of a loop body, of a call. *)

EnterBody ==
  /\ Complete(0) /\ Len(Top.bodies) < program.bodies
  /\ SetTop([Top EXCEPT !.bodies = Append(@, Len(Vars))])
  /\ UNCHANGED heap

\* Faulty variant: a break out of several bodies releases the innermost only.
LeaveBody_Innermost(k) ==
  /\ Complete(0)
  /\ LET depth == Top.bodies[k]
         gone  == Reverse(SubSeq(Vars, Last(Top.bodies) + 1, Len(Vars)))
     IN  /\ heap' = DropVars(heap, gone, DOMAIN gone)
         /\ SetTop([Top EXCEPT !.vars = SubSeq(Vars, 1, depth),
                               !.bodies = SubSeq(@, 1, k - 1)])

\* Faulty variant: what was released stays tracked.
LeaveBody_NoForget(k) ==
  /\ Complete(0)
  /\ LET depth == Top.bodies[k]
         gone  == Reverse(SubSeq(Vars, depth + 1, Len(Vars)))
     IN  /\ heap' = DropVars(heap, gone, DOMAIN gone)
         /\ SetTop([Top EXCEPT !.bodies = SubSeq(@, 1, k - 1)])

\* The end of the k-th enclosing body, by its last statement, a continue or
\* a break: what was declared in it is released, innermost first.
LeaveBody(k) ==
  /\ Complete(0)
  /\ LET depth == Top.bodies[k]
         gone  == Reverse(SubSeq(Vars, depth + 1, Len(Vars)))
     IN  /\ heap' = DropVars(heap, gone, DOMAIN gone)
         /\ SetTop([Top EXCEPT !.vars = SubSeq(Vars, 1, depth),
                               !.bodies = SubSeq(@, 1, k - 1)])

\* Faulty variant: the variable returned is told by its value, and an alias
\* of it is not released either.
TrackedBut_ByValue(i) ==
  {j \in DOMAIN Vars : Vars[j].tracked /\ (i = 0 \/ Vars[j].val # Vars[i].val)}

\* Every tracked variable but one.
TrackedBut(i) == {j \in DOMAIN Vars : Vars[j].tracked /\ j # i}

\* The caller takes the result, if there is one, and drops the temporaries
\* it had lent to the call, in argument order.
Resume(h, result) ==
  IF Len(stack) = 1 THEN heap' = h /\ stack' = <<>>
  ELSE LET caller == Last(Callers)
           start  == Len(caller.eval) - (caller.args - 1)
           lent   == {j \in DOMAIN caller.eval : j > start /\ caller.eval[j].own = "fresh"}
       IN  /\ heap' = DropAt(h, caller.eval, lent)
           /\ stack' = Append(Front(Callers),
                [caller EXCEPT !.eval = SubSeq(@, 1, start) \o result, !.args = 0])

\* Faulty variant: the variable returned is released like the others.
ReturnVariable_ReleasesAll(i) ==
  /\ Complete(0) /\ Len(stack) > 1
  /\ Vars[i].weak => Vars[i].tracked
  /\ LET first == IF Vars[i].tracked THEN heap ELSE Retain(heap, Vars[i].val)
     IN  Resume(DropVars(first, Vars, TrackedBut(0)),
                << [NewValue(Vars[i].val, "fresh") EXCEPT !.weak = Vars[i].weak] >>)

\* return x.  A tracked variable hands its reference to the caller; any
\* other is retained, before the variables are released.
ReturnVariable(i) ==
  /\ Complete(0) /\ Len(stack) > 1
  /\ Vars[i].weak => Vars[i].tracked
  /\ LET first == IF Vars[i].tracked THEN heap ELSE Retain(heap, Vars[i].val)
     IN  Resume(DropVars(first, Vars, TrackedBut(i)),
                << [NewValue(Vars[i].val, "fresh") EXCEPT !.weak = Vars[i].weak] >>)

\* return e, for any other expression.
ReturnValue ==
  /\ Complete(1) /\ Len(stack) > 1 /\ Eval[1].own # "named"
  /\ Resume(DropVars(RetainUnlessFresh(heap, Eval[1]), Vars, TrackedBut(0)),
            << [Eval[1] EXCEPT !.own = "fresh"] >>)

\* return, the end of a void body, or a return of a scalar.
ReturnVoid ==
  /\ Complete(0)
  /\ Resume(DropVars(heap, Vars, TrackedBut(0)), <<>>)

\* Faulty variant: what the unfinished expression owns is forgotten.
Propagate_NoPending ==
  /\ Running /\ Eval # <<>>
  /\ Resume(DropVars(heap, Vars, TrackedBut(0)), <<>>)

\* .propagate() of an error, inside an expression: the values the expression
\* owns are released, last first, then the variables.
Propagate ==
  /\ Running /\ Eval # <<>>
  /\ LET pending == Reverse(Eval)
         owned   == {j \in DOMAIN pending : pending[j].own \in Owning}
     IN  Resume(DropVars(DropAt(heap, pending, owned), Vars, TrackedBut(0)), <<>>)

LowNext ==
  /\ UNCHANGED program
  /\ \/ \E i \in 1 .. program.vars : stack # <<>> /\ i <= Len(Vars) /\ 
          (VariableGet(i) \/ Assign(i) \/ ReturnVariable(i))
     \/ NullLiteral
     \/ HeapFieldLoad
     \/ \E o \in Objs : HeapConstruction(o)
     \/ WeakFromStrong
     \/ WeakValue
     \/ ReadScalar
     \/ \E weak \in BOOLEAN : OwnedArgument(weak)
     \/ \E n \in 0 .. program.eval : Call(n)
     \/ Declare
     \/ HeapFieldStore
     \/ EnterBody
     \/ \E k \in 1 .. program.bodies : stack # <<>> /\ k <= Len(Top.bodies) /\ LeaveBody(k)
     \/ ReturnValue
     \/ ReturnVoid
     \/ Propagate

LowSpec == LowInit /\ [][LowNext]_lowVars

-----------------------------------------------------------------------------
(***************************************************************************)
(* Properties.                                                             *)
(***************************************************************************)

\* The type invariant of the heap and of the calls in progress.
LowTypeOK ==
  /\ heap \in CountedHeaps
  /\ stack \in Seq(Frame)

\* The references a call owns: its tracked variables and the values its
\* expression owns.
OwnedVars(f) == {j \in DOMAIN f.vars : f.vars[j].tracked}
OwnedEval(f) == {j \in DOMAIN f.eval : f.eval[j].own \in Owning}

\* How many references to o the sequence refs has at the positions I.
RefsAt(refs, I, o, weak) ==
  Cardinality({j \in I : refs[j].val = o /\ refs[j].weak = weak})

OwnersIn(f, o, weak) ==
  RefsAt(f.vars, OwnedVars(f), o, weak) + RefsAt(f.eval, OwnedEval(f), o, weak)

\* How many references to o the calls of s own.
OwnersOf(s, o, weak) ==
  LET sum[n \in 0 .. Len(s)] ==
        IF n = 0 THEN 0 ELSE sum[n - 1] + OwnersIn(s[n], o, weak)
  IN  sum[Len(s)]

Owners(o, weak) == OwnersOf(stack, o, weak)

\* Every count is exactly the number of references there are to the object:
\* tracked variables and owned values of every call in progress, and fields.
\* At every statement, every step of an expression and every way out, no
\* Retain is missing or one too many.
OwnersCounted ==
  \A o \in Objs :
    /\ heap[o].strong = Owners(o, FALSE) + Cardinality({p \in Objs : heap[p].next = o})
    /\ heap[o].weak = Owners(o, TRUE)

\* No use after free: what any call can reach, through a variable, a borrowed
\* parameter, a value of an unfinished expression, or a field, is alive; and
\* the target of a weak reference still has its block.
NoUseAfterFree ==
  /\ \A i \in DOMAIN stack :
       \A r \in Range(stack[i].vars) \cup Range(stack[i].eval) :
         r.val # Null => heap[r.val].held /\ (r.weak \/ heap[r.val].strong > 0)
  /\ \A o \in Objs : heap[o].next # Null => heap[heap[o].next].strong > 0

\* A program that has ended has given every block back, but those on or
\* behind a cycle of fields.  An early return, a break or an error in the
\* middle of an expression leaks nothing.
NothingLeaks ==
  stack = <<>> =>
    \A o \in Objs : heap[o].held =>
      \E C \in SUBSET Objs :
        o \in C /\ \A p \in C : \E q \in C : heap[q].next = p

(***************************************************************************)
(* The inductive invariant behind them.  A count says how many own an      *)
(* object; what the code may use without owning it has to be traced to an  *)
(* owner, through the call that lent it or the fields it was read from.    *)
(***************************************************************************)

Ledger(s, weak) == [o \in Objs |-> OwnersOf(s, o, weak)]

Same(r, v) == r.val = v.val /\ r.weak = v.weak

\* The values f has lent to the call it waits for.
Lent(f) == {j \in DOMAIN f.eval : j > Len(f.eval) - (f.args - 1)}

\* What a call uses by name is in a variable of it, what it has lent it keeps,
\* and what is declared in a body is tracked.
FrameOK(f) ==
  /\ \A j \in DOMAIN f.vars : f.vars[j].weak => f.vars[j].val # Null
  /\ \A j \in DOMAIN f.eval :
       /\ f.eval[j].weak => f.eval[j].val # Null /\ f.eval[j].own # "borrowed"
       /\ f.eval[j].own = "named" => \E k \in DOMAIN f.vars : Same(f.vars[k], f.eval[j])
  /\ \A k \in DOMAIN f.bodies :
       /\ f.bodies[k] <= Len(f.vars)
       /\ \A l \in DOMAIN f.bodies : l <= k => f.bodies[l] <= f.bodies[k]
       /\ \A j \in DOMAIN f.vars : j > f.bodies[k] => f.vars[j].tracked
  /\ f.args <= Len(f.eval) + 1
  /\ f.args > 0 => \A j \in Lent(f) : f.eval[j].own \in {"borrowed", "fresh"}

\* f keeps alive what it lent as v.
Lends(f, v) ==
  \/ \E k \in DOMAIN f.vars : Same(f.vars[k], v)
  \/ \E j \in Lent(f) : Same(f.eval[j], v)

\* Every call but the last waits, and lends its callee's borrowed parameters.
CallsOK(s) ==
  /\ s \in Seq(Frame)
  /\ \A i \in DOMAIN s :
       /\ FrameOK(s[i])
       /\ s[i].args = 0 <=> i = Len(s)
       /\ \A j \in DOMAIN s[i].vars :
            ~s[i].vars[j].tracked => i > 1 /\ Lends(s[i - 1], s[i].vars[j])

\* What is borrowed from a field still hangs on a variable of the same call.
FrameBorrows(h, f) ==
  \A j \in DOMAIN f.eval :
    f.eval[j].own = "borrowed" /\ f.eval[j].val # Null =>
      \E k \in DOMAIN f.vars : ~f.vars[k].weak /\ f.eval[j].val \in Behind(h, f.vars[k].val)

StateOK(h, s) ==
  /\ CallsOK(s)
  /\ Counted(h, Ledger(s, FALSE), Ledger(s, TRUE))
  /\ \A i \in DOMAIN s : FrameBorrows(h, s[i])

LowInv == program \in Programs /\ StateOK(heap, stack)

\* A callee never gives up a reference its caller holds: what a waiting call
\* owns is alive for as long as it waits, and so is what it lent.
CallerKeeps ==
  \A i \in 1 .. Len(stack) - 1 :
    \A r \in {stack[i].vars[j] : j \in OwnedVars(stack[i])} \cup
             {stack[i].eval[j] : j \in OwnedEval(stack[i])} :
      r.val # Null /\ ~r.weak => heap[r.val].strong > 0
=============================================================================
