---------------------------- MODULE BenchHarness ----------------------------
(***************************************************************************)
(* The benchmark harness: core/bench/run-bench.sh builds and times each    *)
(* benchmark as C, as C with trapping arithmetic, as DCDart in every       *)
(* refcount mode and as stock Dart; bench_main.c is the main of every      *)
(* process it times; tool/report.awk turns the rows into ratios.           *)
(*                                                                         *)
(* Compilers, kernels and the machine are the environment: a build         *)
(* succeeds or not, a kernel computes some checksum, the same in every     *)
(* call or not, leaks or not, a process may crash, samples are as quiet    *)
(* as they are.                                                            *)
(***************************************************************************)
EXTENDS Naturals, Sequences, SequencesExt, FiniteSets

CONSTANTS
  CommandLines, \* what the script is called with: the benchmarks, in order,
                \* the refcount modes, in order, and the timed runs of each binary
  SuiteOf,    \* benchmark |-> "m3", "selftest" or "diagnostic"
  Required,   \* the benchmarks M3 asks for
  HasTrap,    \* the benchmarks with a kernel_trapck.c
  HasAot,     \* the benchmarks with a bench_aot.dart
  Sums,       \* what kernels compute
  Qualities,  \* benchmark |-> what awk makes of its samples: [ok, sem]
  Limit       \* the square of --ratio-unc-max, in the unit of sem and drift

None == "none"

ASSUME HarnessAssumption ==
  /\ \A c \in CommandLines :
       /\ c.benches \in Seq(DOMAIN SuiteOf) /\ c.runs \in Nat \ {0}
       /\ IsInjective(c.benches) \* they are directories, found one by one
       /\ c.modes \in Seq({"nonatomic", "atomic"}) /\ c.modes # <<>>
  /\ SuiteOf \in [DOMAIN SuiteOf -> {"m3", "selftest", "diagnostic"}]
  /\ Limit \in Nat /\ Sums # {} /\ None \notin Sums

VARIABLES
  args,      \* its command line
  nm,        \* llvm-nm is on the PATH
  todo,      \* the benchmarks still to do; the first is being done
  phase,     \* the part of the loop body that is next
  left,      \* the refcount modes it is still to be built in
  bins,      \* the binaries built for it, in the order they are timed
  jobs,      \* what is still to be timed
  tb,        \* time_binary: its run, and what it returns
  proc,      \* the process that runs
  stability, \* the drift between two batches: a set, empty when not run
  prechecked, rows, notes, fatal, exit

benchVars == <<args, nm, todo, phase, left, bins, jobs, tb, proc, stability, prechecked, rows, notes, fatal, exit>>

Benches == args.benches
Modes   == args.modes
Runs    == args.runs
bench   == Head(todo)

\* A kernel linked with a main; only DCDart's has a heap, and checked says
\* whether its main was compiled to test dc_heap_live.
Binary(side, mode, sum, steady, leak, checked) ==
  [side |-> side, mode |-> mode, sum |-> sum, steady |-> steady, leak |-> leak, checked |-> checked]

Idle    == [at |-> "warm", warm |-> None, live |-> 0]
NewTimer == [run |-> 0, seen |-> None, n |-> 0, out |-> "running"]

Init ==
  /\ args \in CommandLines
  /\ nm \in BOOLEAN
  /\ todo = Benches /\ phase = "c" /\ left = Modes /\ bins = <<>> /\ jobs = <<>>
  /\ tb = NewTimer /\ proc = Idle
  /\ stability = {} /\ prechecked = FALSE
  /\ rows = {} /\ notes = {} /\ fatal = FALSE /\ exit = 0

-----------------------------------------------------------------------------
(* Building. *)

NextBench ==
  /\ todo' = Tail(todo) /\ phase' = "c" /\ left' = Modes /\ bins' = <<>> /\ jobs' = <<>>

\* Faulty variant: a benchmark that fails gets no row.
RecordFailed_Silent == fatal' = TRUE /\ UNCHANGED rows

\* record_failed, FATAL=1
RecordFailed ==
  /\ rows' = rows \cup {[bench |-> bench, side |-> "FAILED", mode |-> "-"]}
  /\ fatal' = TRUE

\* The benchmark is given up, with a note or without.
GiveUp(said) ==
  /\ RecordFailed /\ NextBench
  /\ notes' = notes \cup [bench : {bench}, about : said]

Phase(p) == phase = p /\ todo # <<>>

\* What a steady C baseline computes: only whether others agree matters.
CSum == CHOOSE s \in Sums : TRUE

\* Bound: only the C baseline may be unsteady, the others crash instead.
BuildC ==
  /\ Phase("c")
  /\ \/ /\ \E steady \in BOOLEAN :
             bins' = <<Binary("c", "-", CSum, steady, 0, FALSE)>>
        /\ phase' = "ctrap"
        /\ UNCHANGED <<todo, left, jobs, rows, notes, fatal>>
     \/ GiveUp({"c"})
  /\ UNCHANGED <<args, nm, tb, proc, stability, prechecked, exit>>

\* No file, no binary; one that does not build is only talked about.
BuildTrap ==
  /\ Phase("ctrap")
  /\ \/ \E sum \in Sums :
          /\ bench \in HasTrap
          /\ bins' = Append(bins, Binary("ctrap", "-", sum, TRUE, 0, FALSE))
     \/ bins' = bins
  /\ phase' = "dcdart"
  /\ UNCHANGED <<args, nm, todo, left, jobs, tb, proc, stability, prechecked, rows, notes, fatal, exit>>

\* One object per mode.  Which main it gets is read off the object.
BuildDcDart ==
  /\ Phase("dcdart")
  /\ \/ /\ \E sum \in Sums, heap \in BOOLEAN : \E leak \in IF heap THEN {0, 1} ELSE {0} :
             bins' = Append(bins, Binary("dcdart", Head(left), sum, TRUE, leak, nm /\ heap))
        /\ left' = Tail(left)
        /\ phase' = IF Tail(left) = <<>> THEN "identity" ELSE phase
        /\ UNCHANGED <<todo, jobs, rows, notes, fatal>>
     \/ \E said \in {{"dcdart build"}, {}} : GiveUp(said)
  /\ UNCHANGED <<args, nm, tb, proc, stability, prechecked, exit>>

\* cmp of the object timed with the object of dcc build.
CheckIdentity ==
  /\ Phase("identity")
  /\ \/ UNCHANGED <<notes, fatal>>
     \/ /\ "nonatomic" \in Range(Modes)
        /\ notes' = notes \cup {[bench |-> bench, about |-> "identity"]}
        /\ fatal' \in {fatal, TRUE}
  /\ phase' = "aot"
  /\ UNCHANGED <<args, nm, todo, left, bins, jobs, tb, proc, stability, prechecked, rows, exit>>

\* Stock Dart, then the list of what to time: the C baseline for the stability
\* precheck, on the first benchmark that gets here; then everything.
BuildAot ==
  /\ Phase("aot")
  /\ \/ \E sum \in Sums :
          /\ bench \in HasAot
          /\ bins' = Append(bins, Binary("dartaot", "-", sum, TRUE, 0, FALSE))
     \/ bins' = bins
  /\ jobs' = (IF prechecked THEN <<>> ELSE << [what |-> "batch a", bin |-> bins'[1]] >>)
             \o [i \in DOMAIN bins' |-> [what |-> bins'[i].side, bin |-> bins'[i]]]
  /\ phase' = "time"
  /\ UNCHANGED <<args, nm, todo, left, tb, proc, stability, prechecked, rows, notes, fatal, exit>>

-----------------------------------------------------------------------------
(* One process: bench_main.c with one iteration. *)

Job    == Head(jobs)
Kernel == Job.bin

InProcess(at) == Phase("time") /\ jobs # <<>> /\ tb.out = "running" /\ proc.at = at

\* benchKernel
Results == IF Kernel.steady THEN {Kernel.sum} ELSE Sums

Leaks == Kernel.leak

\* uint64_t warm = benchKernel(arg);
Warmup ==
  /\ InProcess("warm")
  /\ \E r \in Results : proc' = [at |-> "timed", warm |-> r, live |-> Leaks]
  /\ UNCHANGED <<args, nm, todo, phase, left, bins, jobs, tb, stability, prechecked, rows, notes, fatal, exit>>

\* time_binary returns what it returns when a process fails: nothing.
ProcessFails == /\ tb' = [tb EXCEPT !.out = "failed"] /\ proc' = Idle

\* The timed call; another result than the first ends the process with 2.
TimedCall ==
  /\ InProcess("timed")
  /\ \E r \in Results :
       IF r # proc.warm THEN ProcessFails
       ELSE /\ proc' = [proc EXCEPT !.at = "end", !.live = @ + Leaks]
            /\ UNCHANGED tb
  /\ UNCHANGED <<args, nm, todo, phase, left, bins, jobs, stability, prechecked, rows, notes, fatal, exit>>

\* Faulty variant: one run more than asked for.
RunSucceeds_OneMore(sum) ==
  tb' = IF tb.run = 0 THEN [tb EXCEPT !.run = 1]
        ELSE IF tb.seen \notin {None, sum} THEN [tb EXCEPT !.n = @ + 1, !.out = "failed"]
        ELSE [run |-> tb.run + 1, seen |-> sum, n |-> tb.n + 1,
              out |-> IF tb.run > Runs THEN "returned" ELSE "running"]

\* Faulty variant: the sample of the run that should be thrown away is kept.
RunSucceeds_Cold(sum) ==
  tb' = IF tb.run = 0 THEN [tb EXCEPT !.run = 1, !.n = 1]
        ELSE IF tb.seen \notin {None, sum} THEN [tb EXCEPT !.n = @ + 1, !.out = "failed"]
        ELSE [run |-> tb.run + 1, seen |-> sum, n |-> tb.n + 1,
              out |-> IF tb.run = Runs THEN "returned" ELSE "running"]

\* The samples of run 0 are thrown away; a checksum that differs from an
\* earlier run's is a failure, after its sample was written.
RunSucceeds(sum) ==
  tb' = IF tb.run = 0 THEN [tb EXCEPT !.run = 1]
        ELSE IF tb.seen \notin {None, sum} THEN [tb EXCEPT !.n = @ + 1, !.out = "failed"]
        ELSE [run |-> tb.run + 1, seen |-> sum, n |-> tb.n + 1,
              out |-> IF tb.run = Runs THEN "returned" ELSE "running"]

\* Faulty variant: HEAPLIVE is printed and not looked at.
EndOfMain_Unread ==
  /\ InProcess("end")
  /\ RunSucceeds(proc.warm) /\ proc' = Idle
  /\ UNCHANGED <<args, nm, todo, phase, left, bins, jobs, stability, prechecked, rows, notes, fatal, exit>>

\* CHECKSUM is printed; a live object ends the process with 3.
EndOfMain ==
  /\ InProcess("end")
  /\ IF Kernel.checked /\ proc.live # 0 THEN ProcessFails
     ELSE RunSucceeds(proc.warm) /\ proc' = Idle
  /\ UNCHANGED <<args, nm, todo, phase, left, bins, jobs, stability, prechecked, rows, notes, fatal, exit>>

Crash ==
  /\ InProcess("warm")
  /\ ProcessFails
  /\ UNCHANGED <<args, nm, todo, phase, left, bins, jobs, stability, prechecked, rows, notes, fatal, exit>>

-----------------------------------------------------------------------------
(* What becomes of a timed binary. *)

Returned(what) == Phase("time") /\ jobs # <<>> /\ Job.what \in what /\ tb.out # "running"
Clean == tb.out = "returned"

Done(js) == jobs' = js /\ tb' = NewTimer

Note(about) == notes' = notes \cup {[bench |-> bench, about |-> about]}

\* awk over the samples: noise, drift and length are within bounds or not,
\* and the median is uncertain by sem.
Record ==
  \E quality \in Qualities[bench] :
    rows' = rows \cup {[bench |-> bench, side |-> Kernel.side, mode |-> Kernel.mode, sum |-> tb.seen,
                        n |-> tb.n, ok |-> quality.ok, sem |-> quality.sem, leak |-> Leaks]}

\* The checksum of the C baseline of the benchmark being done.
SumOfC == (CHOOSE r \in rows : r.bench = bench /\ r.side = "c").sum

\* The C baseline is timed once more for the drift, then the precheck is over.
BatchReturns ==
  \/ /\ Job.what = "batch a" /\ Done(<<[Job EXCEPT !.what = "batch b"]>> \o Tail(jobs))
     /\ UNCHANGED <<stability, prechecked>>
  \/ /\ Job.what = "batch b" /\ Done(Tail(jobs))
     /\ stability' \in {{0}, {1}} /\ prechecked' = TRUE

\* Faulty variant: a batch that fails is tried again.
Precheck_Again ==
  /\ Returned({"batch a", "batch b"})
  /\ \/ ~Clean /\ Note("stability") /\ Done(jobs) /\ UNCHANGED <<stability, prechecked>>
     \/ Clean /\ BatchReturns /\ UNCHANGED notes
  /\ UNCHANGED <<args, nm, todo, phase, left, bins, proc, rows, fatal, exit>>

\* stability_check gives up when one batch fails; it is not tried again.
Precheck ==
  /\ Returned({"batch a", "batch b"})
  /\ \/ ~Clean /\ Note("stability") /\ prechecked' = TRUE /\ Done(Tail(jobs)) /\ UNCHANGED stability
     \/ Clean /\ BatchReturns /\ UNCHANGED notes
  /\ UNCHANGED <<args, nm, todo, phase, left, bins, proc, rows, fatal, exit>>

TimedC ==
  /\ Returned({"c"})
  /\ IF Clean
     THEN Record /\ Done(Tail(jobs)) /\ UNCHANGED <<todo, phase, left, bins, notes, fatal>>
     ELSE GiveUp({"c run"}) /\ tb' = NewTimer
  /\ UNCHANGED <<args, nm, proc, stability, prechecked, exit>>

\* Faulty variant: the trap-matched baseline is recorded whatever it computed.
TimedTrap_Unchecked ==
  /\ Returned({"ctrap"})
  /\ IF ~Clean THEN Note("ctrap run") /\ UNCHANGED rows ELSE Record /\ UNCHANGED notes
  /\ Done(Tail(jobs))
  /\ UNCHANGED <<args, nm, todo, phase, left, bins, proc, stability, prechecked, fatal, exit>>

\* One that computes something else than C is left out.
TimedTrap ==
  /\ Returned({"ctrap"})
  /\ IF ~Clean THEN Note("ctrap run") /\ UNCHANGED <<rows, fatal>>
     ELSE IF tb.seen # SumOfC THEN Note("ctrap checksum") /\ fatal' = TRUE /\ UNCHANGED rows
     ELSE Record /\ UNCHANGED <<notes, fatal>>
  /\ Done(Tail(jobs))
  /\ UNCHANGED <<args, nm, todo, phase, left, bins, proc, stability, prechecked, exit>>

\* Faulty variant: the checksum is not compared.
TimedDcDart_Unchecked ==
  /\ Returned({"dcdart"})
  /\ IF ~Clean THEN Note("dcdart run") /\ RecordFailed ELSE Record /\ UNCHANGED <<notes, fatal>>
  /\ Done(Tail(jobs))
  /\ UNCHANGED <<args, nm, todo, phase, left, bins, proc, stability, prechecked, exit>>

\* The row is written whatever the checksum.
TimedDcDart ==
  /\ Returned({"dcdart"})
  /\ IF ~Clean THEN Note("dcdart run") /\ RecordFailed
     ELSE IF tb.seen # SumOfC THEN Note("checksum") /\ fatal' = TRUE /\ Record
     ELSE Record /\ UNCHANGED <<notes, fatal>>
  /\ Done(Tail(jobs))
  /\ UNCHANGED <<args, nm, todo, phase, left, bins, proc, stability, prechecked, exit>>

TimedAot ==
  /\ Returned({"dartaot"})
  /\ IF ~Clean \/ tb.seen # SumOfC THEN Note("aot") /\ UNCHANGED rows
     ELSE Record /\ UNCHANGED notes
  /\ Done(Tail(jobs))
  /\ UNCHANGED <<args, nm, todo, phase, left, bins, proc, stability, prechecked, fatal, exit>>

\* Everything is timed.  For a self-test without counting, the objects of
\* the modes are compared.
EndOfBench ==
  /\ Phase("time") /\ jobs = <<>>
  /\ \/ UNCHANGED <<notes, fatal>>
     \/ /\ SuiteOf[bench] = "selftest" /\ Len(Modes) > 1
        /\ Note("modes") /\ fatal' = TRUE
  /\ NextBench
  /\ UNCHANGED <<args, nm, tb, proc, stability, prechecked, rows, exit>>

-----------------------------------------------------------------------------
(* The report. *)

Failed(b) == \E r \in rows : r.bench = b /\ r.side = "FAILED"
RowOf(b, side, mode) == {r \in rows : r.bench = b /\ r.side = side /\ r.mode = mode}
Visited == {r.bench : r \in rows}

Floor == IF stability = {} THEN 0 ELSE CHOOSE d \in stability : TRUE

\* cfg_status of both sides, and ratio_unc of the pair.
Comparable(b, x, y) ==
  \E r \in x, s \in y : r.ok /\ s.ok /\ r.sem^2 + s.sem^2 + Floor^2 <= Limit

\* ratio_cell prints a number.
RatioShown(b, mode) ==
  ~Failed(b) /\ Comparable(b, RowOf(b, "c", "-"), RowOf(b, "dcdart", mode))

\* A benchmark that lacks a usable side refuses the mean of its whole suite.
GateMean(suite, mode) ==
  LET members == {b \in Visited : SuiteOf[b] = suite}
  IN  /\ members # {}
      /\ \A b \in members : ~Failed(b) /\ Comparable(b, RowOf(b, "ctrap", "-"), RowOf(b, "dcdart", mode))

SuiteComplete == \A b \in Required : b \in Visited /\ SuiteOf[b] = "m3" /\ ~Failed(b)

GateShown(mode) == SuiteComplete /\ GateMean("m3", mode)

\* Something was refused, or there is nothing to refuse it for.
Refusal ==
  \/ \E r \in rows : r.side = "FAILED" \/ ~r.ok
  \/ \E i \in DOMAIN Modes : ~GateShown(Modes[i]) \/ \E b \in Visited : ~RatioShown(b, Modes[i])
  \/ Len(Modes) < 2 \/ notes # {}

Reported == phase = "reported"

\* The legend under the ratios has the word the exit status looks for.
Legend == TRUE

Report ==
  /\ todo = <<>> /\ ~Reported
  /\ exit' = IF Legend \/ Refusal \/ fatal THEN 3 ELSE 0
  /\ phase' = "reported"
  /\ UNCHANGED <<args, nm, todo, left, bins, jobs, tb, proc, stability, prechecked, rows, notes, fatal>>

Next ==
  \/ BuildC \/ BuildTrap \/ BuildDcDart \/ CheckIdentity \/ BuildAot
  \/ Warmup \/ TimedCall \/ EndOfMain \/ Crash
  \/ Precheck \/ TimedC \/ TimedTrap \/ TimedDcDart \/ TimedAot \/ EndOfBench \/ Report

\* The script runs to its end: processes do not hang.
Spec == Init /\ [][Next]_benchVars /\ WF_benchVars(Next)

-----------------------------------------------------------------------------
(* Properties. *)

BenchTypeOK ==
  /\ nm \in BOOLEAN /\ prechecked \in BOOLEAN /\ fatal \in BOOLEAN
  /\ todo \in {SubSeq(Benches, i, Len(Benches)) : i \in 1 .. Len(Benches) + 1}
  /\ tb.run \in 0 .. Runs + 1 /\ tb.n \in 0 .. Runs /\ tb.seen \in Sums \cup {None}
  /\ proc.at \in {"warm", "timed", "end"} /\ proc.live \in 0 .. 2
  /\ stability \in {{}, {0}, {1}} /\ exit \in {0, 3}

\* A row holds one sample of every timed run and none of the discarded one,
\* and every run computed the checksum of the row: what a process printed
\* before it failed is never counted (run-bench.sh:282-308).
RowsAreWhole ==
  /\ \A r \in rows : r.side # "FAILED" => r.n = Runs /\ r.sum \in Sums
  /\ tb.out = "returned" => tb.n = Runs

\* A benchmark of the run cannot vanish: when the report is made each has a
\* row that says it failed, or a row of the C baseline and one of DCDart for
\* every mode (run-bench.sh:328-332).
NothingVanishes ==
  Reported => \A b \in Range(Benches) :
    \/ Failed(b)
    \/ /\ RowOf(b, "c", "-") # {}
       /\ \A i \in DOMAIN Modes : RowOf(b, "dcdart", Modes[i]) # {}

\* Where llvm-nm says which main a kernel needs, no time of a kernel that
\* leaks is ever recorded (bench_main.c:45-53).
LeaksNeverTimed == nm => \A r \in rows : r.side = "FAILED" \/ r.leak = 0

\* A gate number stands for the whole suite: every benchmark of it has all
\* its rows, within bounds, and its trap-matched baseline computes what the
\* C baseline computes (report.awk:207-224).
GateStandsForSuite ==
  \A i \in DOMAIN Modes : Reported /\ GateShown(Modes[i]) =>
    \A b \in {b \in Range(Benches) : SuiteOf[b] = "m3"} :
      /\ RowOf(b, "c", "-") # {} /\ RowOf(b, "ctrap", "-") # {} /\ RowOf(b, "dcdart", Modes[i]) # {}
      /\ \A c \in RowOf(b, "c", "-"), t \in RowOf(b, "ctrap", "-") : t.sum = c.sum

\* A row of DCDart that computed something else than C comes with a note
\* and a fatal run (run-bench.sh:503-508).
DisagreementNoted ==
  \A r \in rows, c \in rows :
    r.side = "dcdart" /\ c.side = "c" /\ r.bench = c.bench /\ r.sum # c.sum =>
      fatal /\ [bench |-> r.bench, about |-> "checksum"] \in notes

\* The harness always ends with a report.
Reports == <>Reported

=============================================================================
