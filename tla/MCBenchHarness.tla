--------------------------- MODULE MCBenchHarness ---------------------------
(* Two benchmarks in one mode, of which M3 asks for the first; and one in  *)
(* both modes, with stock Dart and two timed runs of each binary.          *)
EXTENDS BenchHarness

MCCommandLines ==
  { [benches |-> <<"json", "fib">>, modes |-> <<"nonatomic">>, runs |-> 1],
    [benches |-> <<"sort">>, modes |-> <<"nonatomic", "atomic">>, runs |-> 2] }

MCBenches   == {"json", "fib", "sort"}
MCSuiteOf   == [b \in MCBenches |-> IF b = "json" THEN "m3" ELSE "selftest"]

\* Samples within bounds, and for the first benchmark also out of them.
Quiet       == [ok |-> TRUE, sem |-> 1]
Noisy       == [ok |-> FALSE, sem |-> 0]
MCQualities == [b \in MCBenches |-> IF b = "json" THEN {Quiet, Noisy} ELSE {Quiet}]

=============================================================================
