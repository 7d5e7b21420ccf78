--------------------------- MODULE MCArcLowering ---------------------------
(* ArcLowering on a small heap, whose blocks are interchangeable.          *)
EXTENDS ArcLowering, TLC

Bounded(objs, depth, vars, eval, bodies) ==
  [objs |-> objs, depth |-> depth, vars |-> vars, eval |-> eval, bodies |-> bodies,
   weak |-> FALSE, assigns |-> FALSE, overwrites |-> FALSE]

\* Calls and expressions over two objects; loop bodies two deep over three;
\* weak references.
Calls  == Bounded(2, 2, 3, 3, 0)
Bodies == Bounded(3, 1, 2, 2, 2)
Weaks  == [Bounded(2, 2, 3, 2, 0) EXCEPT !.weak = TRUE]

MCPrograms  == {Calls, Bodies, Weaks}
Assigning   == {[Bounded(2, 2, 2, 2, 0) EXCEPT !.assigns = TRUE]}
Overwriting == {[Calls EXCEPT !.overwrites = TRUE]}

Symmetric == Permutations(Objs)
=============================================================================
