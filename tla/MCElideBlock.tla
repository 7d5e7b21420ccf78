---------------------------- MODULE MCElideBlock ----------------------------
(***************************************************************************)
(* Blocks of two families: of two names, within the bounds of the cfg, and *)
(* of all the names there are, with calls of one argument, shorter runs    *)
(* and no weak references, for the aliases of a pair.                      *)
(***************************************************************************)
EXTENDS ElideBlock, TLC

VARIABLE names    \* what the block names its values with

Aliases == INSTANCE ElideBlock WITH MaxRun <- 2, MaxArgs <- 1, UsesWeak <- FALSE

Few == Cardinality(names) <= 2

MCInit ==
  /\ names \in kSubset(2, Vids) \cup {Vids}
  /\ IF Few THEN ElideInit ELSE Aliases!ElideInit
  /\ \A v \in Vids \ names : vids[v] = Unbound

MCNext ==
  /\ IF Few THEN BlockNext(names) ELSE Aliases!BlockNext(names)
  /\ UNCHANGED names

MCSpec == MCInit /\ [][MCNext]_<<elideVars, names>>

Symmetric == Permutations(Objs) \cup Permutations(Vids)
=============================================================================
