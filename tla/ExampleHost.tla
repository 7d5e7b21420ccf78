---------------------------- MODULE ExampleHost ----------------------------
(***************************************************************************)
(* A program of core/examples: a main in C linked with an object the       *)
(* compiler made of a .dart file, as tests/conformance runs it.  main is a *)
(* list of steps: calls whose results it compares, tests of dc_heap_live,  *)
(* pointers it keeps.  The object is the program under a fault of the      *)
(* compiler, or under none.                                                *)
(***************************************************************************)
EXTENDS BareLanguage, FiniteSets

CONSTANTS
  Hosts,     \* host |-> the steps of its main
  FaultsOf   \* host |-> the faults its object is compiled with

VARIABLES
  host,    \* the program, which gives its name to its object
  fault,   \* what is wrong with the object
  pc,      \* the step main is at
  heap,    \* the object's heap
  kept,    \* main's variables: the results it keeps
  fails,   \* how many of the checks it only counts have failed
  exit     \* how the process ended

hostVars == <<host, fault, pc, heap, kept, fails, exit>>

\* What main does.  A result of another type than expected is not compared.
Check(f, args, want, code) == [k |-> "check", f |-> f, args |-> args, want |-> want, code |-> code]
Tally(f, args, want)       == [k |-> "tally", f |-> f, args |-> args, want |-> want]
Live(want, code)           == [k |-> "live", want |-> want, code |-> code]
Keep(x, f, args)           == [k |-> "keep", x |-> x, f |-> f, args |-> args]
KeptIs(x, want, code)      == [k |-> "kept", x |-> x, is |-> TRUE, want |-> want, code |-> code]
KeptIsNot(x, v, code)      == [k |-> "kept", x |-> x, is |-> FALSE, want |-> v, code |-> code]
Kept(x)                    == Value("kept", x)

\* The steps of n rounds of a loop, F(i) in round i, from 0.
Rounds(n, F(_)) == FlattenSeq([i \in 1 .. n |-> F(i - 1)])

Running == [how |-> "running", code |-> 0]
Exited(code) == [how |-> "exited", code |-> code]
Ended == exit.how # "running"
Accepted == exit = Exited(0)

HostInit ==
  /\ host \in DOMAIN Hosts
  /\ fault \in FaultsOf[host]
  /\ pc = 1
  /\ heap = EmptyHeap(host)
  /\ kept = <<>>
  /\ fails = 0
  /\ exit = Running

Mains == Hosts          \* a definition, so that TLC evaluates it once

\* The step main is at, if it is one of these kinds.
StepOf(main)   == {main[i] : i \in {pc} \cap DOMAIN main}
Pending(kinds) == {step \in StepOf(Mains[host]) : ~Ended /\ step.k \in kinds}

\* The call of a step, with the results main passes on.
Passed(v) == IF v.t = "kept" THEN kept[v.n] ELSE v
CallIn(s, step) == Invoke(s, s.fns[step.f], [i \in DOMAIN step.args |-> Passed(step.args[i])])
Result(step) == CallIn(Start(host, heap, fault), step)

\* return code, if the test fails.
Test(holds, code) ==
  /\ exit' = IF holds THEN exit ELSE Exited(code)
  /\ pc' = pc + 1

\* if (f(args) != want) return code;
CallAndTest ==
  /\ \E step \in Pending({"check"}) : \E r \in {Result(step)} :
       r.out = "go" /\ heap' = r.heap /\ Test(r.val = step.want, step.code)
  /\ UNCHANGED <<host, fault, kept, fails>>

\* ck(name, f(args), want): a failure is counted.
CallAndTally ==
  /\ \E step \in Pending({"tally"}) : \E r \in {Result(step)} :
       /\ r.out = "go" /\ heap' = r.heap
       /\ fails' = IF r.val = step.want THEN fails ELSE fails + 1
  /\ pc' = pc + 1
  /\ UNCHANGED <<host, fault, kept, exit>>

\* Faulty variant: the test of dc_heap_live is left out.
TestLive_LeftOut ==
  /\ \E step \in Pending({"live"}) : Test(TRUE, step.code)
  /\ UNCHANGED <<host, fault, heap, kept, fails>>

\* if (dc_heap_live != want) return code;
TestLive ==
  /\ \E step \in Pending({"live"}) : Test(heap.live = step.want, step.code)
  /\ UNCHANGED <<host, fault, heap, kept, fails>>

\* x = f(args);
KeepResult ==
  /\ \E step \in Pending({"keep"}) : \E r \in {Result(step)} :
       r.out = "go" /\ heap' = r.heap /\ kept' = (step.x :> r.val) @@ kept
  /\ pc' = pc + 1
  /\ UNCHANGED <<host, fault, fails, exit>>

\* if (x != want) return code; or, for a result that must not be v, ==.
TestKept ==
  /\ \E step \in Pending({"kept"}) : Test((kept[step.x] = step.want) = step.is, step.code)
  /\ UNCHANGED <<host, fault, heap, kept, fails>>

\* The call does not return: a trap kills the process, a loop does not end,
\* or what follows is undefined.
CallFails ==
  /\ \E step \in Pending({"check", "tally", "keep"}) : \E r \in {Result(step)} :
       r.out # "go" /\ exit' = [how |-> r.out, code |-> 0]
  /\ UNCHANGED <<host, fault, pc, heap, kept, fails>>

\* The end of main: return fails != 0;
Finish ==
  /\ ~Ended /\ pc \notin DOMAIN Mains[host]
  /\ exit' = Exited(IF fails = 0 THEN 0 ELSE 1)
  /\ UNCHANGED <<host, fault, pc, heap, kept, fails>>

HostNext ==
  \/ CallAndTest \/ CallAndTally \/ TestLive \/ KeepResult \/ TestKept \/ CallFails \/ Finish

HostSpec == HostInit /\ [][HostNext]_hostVars

=============================================================================
