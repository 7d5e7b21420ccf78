----------------------------- MODULE ElideBlock -----------------------------
(***************************************************************************)
(* _elideBlock of core/dc-elide/lib/elide.dart: one pass over a basic      *)
(* block that deletes Retain / Release pairs.  Here the block is written   *)
(* as it is read: a step appends an instruction, the pass handles it, the  *)
(* block as lowered executes it on one heap and the block as the pass      *)
(* leaves it executes what remains on another.                             *)
(*                                                                         *)
(* Whether a Retain goes is known only when its Release is met, so a step  *)
(* that appends one guesses, and a step at which the pass decides          *)
(* otherwise than guessed does not exist.  What holds once no guess is     *)
(* open holds of every block the pass can be given.                        *)
(***************************************************************************)
EXTENDS CountedHeap, SequencesExt

CONSTANTS
  Vids,     \* bound: the values a block names (a name is reused once idle)
  MaxTok,   \* bound: references the block owns through one value
  MaxRun,   \* bound: length of a run of Releases
  MaxArgs,  \* bound: reference arguments of a call (at most 2)
  UsesWeak, \* do blocks use weak references?
  BorrowsThroughOwned
    \* does an expression read through a variable it also hands to an
    \* @owned parameter, as f(x, x) does, or f(x.next, g(x))?

ASSUME ElideAssumption ==
  /\ IsFiniteSet(Vids) /\ Null \notin Vids
  /\ MaxTok \in Nat \ {0} /\ MaxRun \in Nat /\ MaxArgs \in 0 .. 2
  /\ {UsesWeak, BorrowsThroughOwned} \subseteq BOOLEAN

VARIABLES
  orig,   \* the heap under the block as lowered
  trans,  \* the heap under the block the pass leaves, and whether it is sound
  vids,   \* what each value refers to, and by what right
  pass    \* what the pass knows

elideVars == <<orig, trans, vids, pass>>

\* tok: references the block owns through the value.  root: the value whose
\* reference keeps the object alive, itself when it owns one; Null: the caller.
Named == [val : Ref, tok : 0 .. MaxTok, root : Vids \cup {Null}]

Unbound == [val |-> Null, tok |-> 0, root |-> Null]

\* pend: pendingRetain, with what was guessed.  consumed: callConsumed.
\* fresh: freshRoots.
Pass == [pend : [Vids -> {"none", "kept", "deleted"}], consumed : SUBSET Vids,
         fresh : SUBSET Vids]

NoPass == [pend |-> [v \in Vids |-> "none"], consumed |-> {}, fresh |-> {}]

Val(v) == vids[v].val
Tok(v) == vids[v].tok
Alive(h, o) == h[o].strong > 0

Refers(n, o) == {v \in Vids : n[v].val = o}
Fields(h, o) == {p \in Objs : h[p].next = o}
Borrows(n, v) == n[v].val # Null /\ n[v].tok = 0

\* References the values of n own to o.
Tokens(n, o) ==
  Cardinality({t \in Vids \X (1 .. MaxTok) : n[t[1]].val = o /\ t[2] <= n[t[1]].tok})

\* The entry of a block: every count is owned by a value, a field, or the
\* caller of a borrowed parameter.
Entered(n, next, weak) ==
  [o \in Objs |->
    IF Refers(n, o) = {} /\ \A p \in Objs : next[p] # o THEN FreeBlock
    ELSE [held |-> TRUE, next |-> next[o], weak |-> weak[o],
          strong |-> Tokens(n, o) + Cardinality({p \in Objs : next[p] = o})
                     + (IF \E v \in Refers(n, o) : n[v].tok = 0 THEN 1 ELSE 0)]]

ElideInit ==
  /\ vids \in [Vids -> Named]
  /\ \A v \in Vids :
       /\ Tok(v) \in 0 .. 1 /\ vids[v].root = (IF Tok(v) = 0 THEN Null ELSE v)
       /\ Val(v) = Null => Tok(v) = 0
  /\ \E next \in [Objs -> Ref], weak \in [Objs -> IF UsesWeak THEN 0 .. 1 ELSE {0}] :
       /\ orig = Entered(vids, next, weak)
       /\ \A o \in Objs : ~orig[o].held => next[o] = Null /\ weak[o] = 0
       /\ \A o \in Objs : orig[o].held => \E v \in Vids : o \in Behind(orig, Val(v))
  /\ trans = [heap |-> orig, sound |-> TRUE]
  /\ pass = NoPass

-----------------------------------------------------------------------------
(* Executing on the heap the pass leaves: touching a dead object ends it.  *)

\* m after an instruction that touches o and leaves the heap h: unsound when
\* o, or what a destructor it runs releases, is dead.
Touching(m, o, h) ==
  IF m.sound /\ Alive(m.heap, o) /\ \A p \in Objs : h[p].strong >= 0
  THEN [m EXCEPT !.heap = h] ELSE [m EXCEPT !.sound = FALSE]

Touch(m, o)      == Touching(m, o, m.heap)
RetainOn(m, o)   == Touching(m, o, Retain(m.heap, o))
ReleaseOn(m, o)  == Touching(m, o, Release(m.heap, o))
StoreOn(m, o, x) == Touching(m, o, [m.heap EXCEPT ![o].next = x])

\* The Releases of a run that are at the positions I.
ReleaseAllOn(m, objs, I) ==
  LET done[i \in 0 .. Len(objs)] ==
        IF i = 0 THEN m
        ELSE IF i \in I THEN ReleaseOn(done[i - 1], objs[i]) ELSE done[i - 1]
  IN  done[Len(objs)]

-----------------------------------------------------------------------------
(* The values of the block as lowered. *)

\* Values no reference stands behind any more are not named again.
Gone(n, h, v) ==
  n[v].val = Null \/ ~Alive(h, n[v].val) \/ (n[v].root = v /\ n[v].tok = 0)

Settle(n, h) ==
  [v \in Vids |->
    IF Gone(n, h, v) \/ (n[v].root # Null /\ Gone(n, h, n[v].root)) THEN Unbound ELSE n[v]]

\* Values read out of a field that has been overwritten are not named again.
Overwritten(n, objs) ==
  [v \in Vids |->
    IF n[v].val \in objs /\ n[v].tok = 0 /\ n[v].root # Null THEN Unbound ELSE n[v]]

Defined(n, w, o, tok, root) == [n EXCEPT ![w] = [val |-> o, tok |-> tok, root |-> root]]

\* The block gets a reference through v, which stands for itself from now on.
Earn(n, v) ==
  [n EXCEPT ![v].tok = @ + 1, ![v].root = IF @ = Null THEN Null ELSE v]

\* The block gives up a reference through each value of a sequence that is at
\* one of the positions I.
Times(v, vs, I) == Cardinality({i \in I : vs[i] = v})
Spend(n, vs, I) == [v \in Vids |-> [n[v] EXCEPT !.tok = @ - Times(v, vs, I)]]

CanSpend(vs, I) == \A v \in Vids : Times(v, vs, I) <= Tok(v)

\* What a value read through v lives by.
Source(v) == IF vids[v].root = Null THEN v ELSE vids[v].root

\* v may be read.
Usable(v) ==
  /\ Val(v) # Null
  /\ BorrowsThroughOwned \/ Tok(v) > 0 \/ vids[v].root \notin pass.consumed

\* w can name a new value.
Idle(w) ==
  /\ Tok(w) = 0 /\ pass.pend[w] = "none" /\ w \notin pass.consumed
  /\ \A v \in Vids : vids[v].root = w => v = w

\* The block's step: on both heaps, on its values.  A Retain that is to be
\* deleted leaves a reference for a Release to go with it.
Execute(h, m, n) ==
  /\ orig' = h /\ trans' = m /\ vids' = Settle(n, orig')
  /\ \A v \in Vids : pass'.pend[v] = "deleted" => vids'[v].tok > 0

-----------------------------------------------------------------------------
(* The pass. *)

\* The pass moves on to p, deleting the Retains of matched and no other.
Decide(p, matched) ==
  /\ \A v \in matched : pass.pend[v] = "deleted"
  /\ \A v \in Vids \ matched : pass.pend[v] = "deleted" => p.pend[v] = "deleted"
  /\ pass' = p

Forget(p, vs) == [p EXCEPT !.pend = [v \in Vids |-> IF v \in vs THEN "none" ELSE @[v]]]

\* Faulty variant: a value given away may be mentioned again.
Sweep_Dropped(p, vs) == p

\* A mention of a value whose reference was given away.
Sweep(p, vs) == [Forget(p, p.consumed \cap vs) EXCEPT !.consumed = @ \ vs]

KillFresh(p, vs) == [p EXCEPT !.fresh = @ \ vs]

\* Faulty variant: a value stored in a field stays fresh.
PassStore_KeepsFresh(p, v, w) == Sweep(p, {v, w})

PassStore(p, v, w) == KillFresh(Sweep(p, {v, w}), {w})

Renamed(p, w) == KillFresh(p, {w})
MadeFresh(p, w) == [p EXCEPT !.fresh = @ \cup {w}]

PassRetain(p, v, guess) ==
  [p EXCEPT !.pend[v] = guess, !.consumed = @ \ {v}]

\* Those of a run whose Retain is pending, and the positions of what is left
\* of the run: the first Release of each goes.
Matched(p, run) == {v \in ToSet(run) : p.pend[v] # "none"}

Survivors(p, run) ==
  {i \in DOMAIN run : run[i] \in Matched(p, run) => \E j \in 1 .. i - 1 : run[j] = run[i]}

Cancelled(p, run) == [Forget(p, Matched(p, run)) EXCEPT !.consumed = @ \ Matched(p, run)]

\* Faulty variant: a Release that stays is taken to concern its own value only.
PassRun_OwnOnly(p, run) == Forget(Cancelled(p, run), ToSet(run))

PassRun(p, run) ==
  LET met == Cancelled(p, run)
      unfresh == KillFresh(met, {run[i] : i \in Survivors(p, run)})
  IN IF Survivors(p, run) = {} THEN met
     ELSE [Forget(unfresh, Vids \ unfresh.fresh) EXCEPT !.consumed = {}]

\* Faulty variant: an argument stays fresh.
PassCall_KeepsFresh(p, args, transparent) ==
  LET owned == {a.v : a \in {b \in ToSet(args) : b.owned}}
      swept == Sweep(p, {a.v : a \in ToSet(args)})
      held  == {v \in owned : swept.pend[v] # "none"}
  IN [Forget(swept, IF transparent THEN {} ELSE Vids \ owned) EXCEPT !.consumed = @ \cup held]

\* _invalidateAcrossCall, after the sweeps over the arguments.
PassCall(p, args, transparent) ==
  LET mentioned == {a.v : a \in ToSet(args)}
      owned == {a.v : a \in {b \in ToSet(args) : b.owned}}
      swept == KillFresh(Sweep(p, mentioned), mentioned)
      held  == {v \in owned : swept.pend[v] # "none"}
  IN [Forget(swept, IF transparent THEN {} ELSE Vids \ owned) EXCEPT !.consumed = @ \cup held]

\* Faulty variant: a value with a weak reference stays fresh.
PassWeak_KeepsFresh(p, vs) == [Forget(p, Vids) EXCEPT !.consumed = {}]

PassWeak(p, vs) == [Forget(KillFresh(p, vs), Vids) EXCEPT !.consumed = {}]

-----------------------------------------------------------------------------
(* The instructions. *)

RetainStep(v, guess) ==
  /\ Usable(v) /\ Tok(v) < MaxTok /\ pass.pend[v] # "deleted"
  /\ Decide(PassRetain(Sweep(pass, {v}), v, guess), {})
  /\ Execute(Retain(orig, Val(v)),
             IF guess = "deleted" THEN trans ELSE RetainOn(trans, Val(v)),
             Earn(vids, v))

\* A maximal run of Releases: something harmless separates it from the next.
ReleaseRun(run) ==
  LET objs == [i \in DOMAIN run |-> Val(run[i])]
  IN /\ CanSpend(run, DOMAIN run)
     /\ Decide(PassRun(pass, run), Matched(pass, run))
     /\ Execute(ReleaseAllOn([heap |-> orig, sound |-> TRUE], objs, DOMAIN run).heap,
                ReleaseAllOn(trans, objs, Survivors(pass, run)),
                Spend(vids, run, DOMAIN run))

\* A reference field is read.
LoadStep(v, w) ==
  LET o == orig[Val(v)].next
  IN /\ Usable(v) /\ Idle(w) /\ w # v /\ o # Null
     /\ Decide(Renamed(Sweep(pass, {v}), w), {})
     /\ Execute(orig,
                [Touch(trans, Val(v)) EXCEPT !.sound = @ /\ trans.heap[Val(v)].next = o],
                Defined(vids, w, o, 0, Source(v)))

\* A scalar is read or written through v.
UseStep(v) ==
  /\ Usable(v)
  /\ Decide(Sweep(pass, {v}), {})
  /\ Execute(orig, Touch(trans, Val(v)), vids)

AllocStep(w) ==
  /\ Idle(w)
  /\ Decide(MadeFresh(pass, w), {})
  /\ \E o \in Objs :
       /\ ~orig[o].held /\ ~trans.heap[o].held
       /\ Execute(Alloc(orig, o, Null),
                  [trans EXCEPT !.heap = Alloc(@, o, Null)],
                  Defined(vids, w, o, 1, w))

\* A reference of w's moves into v's field; the one that was there is u's.
StoreStep(v, w, u) ==
  LET old == orig[Val(v)].next
  IN /\ Usable(v) /\ Tok(w) > 0 /\ w # v /\ w # u
     /\ IF old = Null THEN u = v
        ELSE u # v /\ Val(u) = old /\ Borrows(vids, u) /\ vids[u].root # Null
     /\ Decide(PassStore(pass, v, w), {})
     /\ Execute([orig EXCEPT ![Val(v)].next = Val(w)],
                StoreOn(trans, Val(v), Val(w)),
                LET spent == [vids EXCEPT ![w].tok = @ - 1]
                IN IF old = Null THEN spent
                   ELSE Overwritten(Earn(spent, u), Behind(orig, old)))

\* The pass stops at the end of a block; the code goes on to the next.
EndBlock == Decide(NoPass, {}) /\ Execute(orig, trans, vids)

-----------------------------------------------------------------------------
(* Calls.  A callee may set the field of its first argument to null or to  *)
(* its second, gives up what it was given, and may return a reference: to  *)
(* its first argument, to a new object, or to a new one that holds it.     *)

Callees == [sets : {"nothing", "null", "second"},
            returns : {"nothing", "first", "new", "wrapper"}]

\* References to the argument at i that the callee does not give up.
Keeps(c, i) ==
  (i = 1 /\ c.returns \in {"first", "wrapper"}) \/ (i = 2 /\ c.sets = "second")

\* Rule T: no Release in the callee runs that a Retain does not precede.
IsTransparent(c, args) ==
  c.sets = "nothing" /\ \A i \in DOMAIN args : args[i].owned => Keeps(c, i)

\* The callee on the heap of m, returning a reference to r.  What it keeps of
\* what it borrows it retains; it sets the field, makes the result, gives up
\* what it was given and does not keep; and it has used its parameters to the
\* end.
Keep(c, args, i, m) ==
  IF i \in DOMAIN args /\ Keeps(c, i) /\ ~args[i].owned THEN RetainOn(m, Val(args[i].v)) ELSE m

SetField(c, args, m) ==
  LET o == Val(args[1].v)
      set == StoreOn(m, o, IF c.sets = "null" THEN Null ELSE Val(args[2].v))
  IN IF c.sets = "nothing" THEN m
     ELSE IF m.heap[o].next = Null THEN set ELSE ReleaseOn(set, m.heap[o].next)

Make(c, args, r, m) ==
  IF c.returns \notin {"new", "wrapper"} THEN m
  ELSE [m EXCEPT !.heap = Alloc(@, r, IF c.returns = "new" THEN Null ELSE Val(args[1].v))]

GiveUp(c, args, i, m) ==
  IF i \in DOMAIN args /\ ~Keeps(c, i) /\ args[i].owned THEN ReleaseOn(m, Val(args[i].v)) ELSE m

Read(args, i, m) ==
  IF i \in DOMAIN args /\ ~args[i].owned THEN Touch(m, Val(args[i].v)) ELSE m

Callee(c, args, r, m) ==
  Read(args, 2, Read(args, 1, GiveUp(c, args, 2, GiveUp(c, args, 1, Make(c, args, r,
    SetField(c, args, Keep(c, args, 2, Keep(c, args, 1, m))))))))

Arg(names) == [v : names, owned : BOOLEAN]

Values(args) == [i \in DOMAIN args |-> args[i].v]
Owned(args)  == {i \in DOMAIN args : args[i].owned}

\* The arguments may be passed together.
Passable(args) ==
  /\ CanSpend(Values(args), Owned(args))
  /\ \A a \in ToSet(args) : ~a.owned =>
       /\ Usable(a.v)
       /\ BorrowsThroughOwned \/ {a.v, vids[a.v].root} \cap {args[i].v : i \in Owned(args)} = {}

\* What is left of the values, where the callee returns r and it is named w.
Returned(c, args, w, r) ==
  LET old == orig[Val(args[1].v)].next
      stale == IF c.sets = "nothing" \/ old = Null THEN {} ELSE Behind(orig, old)
      left == Overwritten(Spend(vids, Values(args), Owned(args)), stale)
  IN IF c.returns = "nothing" THEN left ELSE Defined(left, w, r, 1, w)

\* A result nothing else refers to is known to the pass (returnsFreshCallees).
PassResult(p, c, w) ==
  CASE c.returns = "nothing" -> p
    [] c.returns = "first"   -> Renamed(p, w)
    [] OTHER                 -> MadeFresh(p, w)

CallStep(args, c, w) ==
  /\ c.sets = "second" => Len(args) = 2
  /\ IF c.returns = "nothing" THEN w = args[1].v ELSE Idle(w)
  /\ Decide(PassResult(PassCall(pass, args, IsTransparent(c, args)), c, w), {})
  /\ \E r \in IF c.returns \in {"new", "wrapper"} THEN Objs ELSE {Val(args[1].v)} :
       \E run \in {Callee(c, args, r, [heap |-> orig, sound |-> TRUE])} :
          /\ c.returns \in {"new", "wrapper"} => ~orig[r].held /\ ~trans.heap[r].held
          /\ run.sound
          /\ Execute(run.heap, Callee(c, args, r, trans), Returned(c, args, w, r))

-----------------------------------------------------------------------------
(* Weak references.  The weak reference itself is named by its object.     *)

MakeWeakStep(v) ==
  /\ UsesWeak /\ Usable(v) /\ orig[Val(v)].weak = 0
  /\ Decide(PassWeak(Sweep(pass, {v}), {v}), {})
  /\ Execute(MakeWeak(orig, Val(v)), Touching(trans, Val(v), MakeWeak(trans.heap, Val(v))), vids)

\* The reference is null when the object is dead: both blocks must agree.
WeakLoadStep(o, w) ==
  /\ UsesWeak /\ orig[o].weak > 0 /\ Idle(w)
  /\ Decide(Renamed(PassWeak(pass, {}), w), {})
  /\ IF Alive(orig, o)
     THEN Execute(Retain(orig, o), RetainOn(trans, o), Defined(vids, w, o, 1, w))
     ELSE Execute(orig, [trans EXCEPT !.sound = @ /\ ~Alive(trans.heap, o)], vids)

DropWeakStep(o) ==
  /\ UsesWeak /\ orig[o].weak > 0
  /\ Decide(PassWeak(pass, {}), {})
  /\ Execute(DropWeak(orig, o),
             [trans EXCEPT !.heap = IF @[o].weak > 0 THEN DropWeak(@, o) ELSE @], vids)

-----------------------------------------------------------------------------
\* The next instruction, of a block that names its values with names.
BlockNext(names) ==
  \/ \E v \in names, guess \in {"kept", "deleted"} : RetainStep(v, guess)
  \/ \E n \in 1 .. MaxRun : \E run \in [1 .. n -> names] : ReleaseRun(run)
  \/ \E v, w \in names : LoadStep(v, w)
  \/ \E v \in names : UseStep(v)
  \/ \E w \in names : AllocStep(w)
  \/ \E v, w, u \in names : StoreStep(v, w, u)
  \/ EndBlock
  \/ \E n \in 1 .. MaxArgs : \E args \in [1 .. n -> Arg(names)] :
       Passable(args) /\ \E c \in Callees, w \in names : CallStep(args, c, w)
  \/ \E v \in names : MakeWeakStep(v)
  \/ \E o \in Objs, w \in names : WeakLoadStep(o, w)
  \/ \E o \in Objs : DropWeakStep(o)

ElideNext == BlockNext(Vids)

ElideSpec == ElideInit /\ [][ElideNext]_elideVars

-----------------------------------------------------------------------------
(* Properties. *)

\* What the state is made of; and a value given away is no longer fresh, as the
\* pass assumes where a surviving Release clears all of callConsumed.
ElideTypeOK ==
  /\ orig \in CountedHeaps /\ trans \in [heap : CountedHeaps, sound : BOOLEAN]
  /\ vids \in [Vids -> Named] /\ pass \in Pass
  /\ pass.consumed \cap pass.fresh = {}

\* Once every pair that was to go is gone, the block with the pairs deleted
\* has touched no dead object and leaves exactly the heap the block as lowered
\* leaves: "the same behavior, minus any provably-redundant Retain/Release
\* pairs" (dc-elide/lib/elide.dart), across aliases, destructors, owned
\* arguments, runs of Releases and transparent calls.
ElisionInvisible ==
  (\A v \in Vids : pass.pend[v] # "deleted") => trans.sound /\ trans.heap = orig

\* A value the pass holds fresh is the only way to its object: it owns every
\* reference there is, and no field, weak reference or other value leads to it
\* (the claim freshRoots is kept by, and a surviving Release is judged by).
FreshIsUnique ==
  \A v \in pass.fresh : Val(v) # Null =>
    /\ orig[Val(v)].strong = Tok(v) /\ orig[Val(v)].weak = 0
    /\ Refers(vids, Val(v)) = {v} /\ Fields(orig, Val(v)) = {}

=============================================================================
