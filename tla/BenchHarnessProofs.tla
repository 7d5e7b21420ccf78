------------------------- MODULE BenchHarnessProofs -------------------------
(***************************************************************************)
(* What is in a row of the harness, and what the rows say together, proved *)
(* for every command line, every set of benchmarks and every number of     *)
(* runs.                                                                   *)
(*                                                                         *)
(* A row is written from what the script knows when the last run of a      *)
(* binary is over; that it is whole and free of leaks follows from what    *)
(* holds while the process runs (HarnessInv), process by process.  That no *)
(* benchmark vanishes follows from where its rows still are: in the list   *)
(* of jobs, in the list of binaries, or in the modes left to build         *)
(* (SuiteInv).  That rows are compared with the right one follows from the *)
(* order of the jobs: a baseline is recorded once, and before all that is  *)
(* compared with it (BaselineInv).                                         *)
(***************************************************************************)
EXTENDS BenchHarness, SequenceTheorems, TLAPS

Sides     == {"c", "ctrap", "dcdart", "dartaot"}
Batches   == {"batch a", "batch b"}
ModeNames == {"nonatomic", "atomic"}

\* A kernel that leaks is linked with the main that looks, if there is an
\* llvm-nm to say so.
Kernels == {k \in [side : Sides, mode : ModeNames \cup {"-"}, sum : Sums, steady : BOOLEAN,
                   leak : {0, 1}, checked : BOOLEAN] : nm /\ k.leak # 0 => k.checked}

JobList == {j \in [what : Sides \cup Batches, bin : Kernels] :
              j.what \in Sides => j.what = j.bin.side}

BinsOK ==
  /\ bins \in Seq(Kernels)
  /\ phase \in {"ctrap", "dcdart", "identity", "aot"} => bins # <<>>

JobsOK == jobs \in Seq(JobList)

ArgsOK ==
  /\ args \in CommandLines /\ left \in Seq(ModeNames)
  /\ phase \in {"c", "ctrap", "dcdart"} => left # <<>>
  /\ phase = "time" => todo # <<>>

\* The samples so far are those of the runs after the first.
TimerOK ==
  /\ tb \in [run : Nat, seen : Sums \cup {None}, n : Nat, out : {"running", "returned", "failed"}]
  /\ phase # "time" \/ jobs = <<>> => tb = NewTimer
  /\ tb.n > 0 => tb.seen \in Sums
  /\ tb.out = "running" => tb.run <= Runs /\ tb.n = (IF tb.run = 0 THEN 0 ELSE tb.run - 1)
  /\ tb.out = "returned" => tb.run > 0 /\ tb.n = Runs

\* A process exists only while its job is timed, and what is live in it is
\* what its calls have leaked.
ProcOK ==
  /\ proc \in [at : {"warm", "timed", "end"}, warm : Sums \cup {None}, live : Nat]
  /\ proc.at # "warm" =>
       /\ phase = "time" /\ jobs # <<>> /\ tb.out = "running" /\ proc.warm \in Sums
       /\ proc.live = (IF proc.at = "end" THEN Leaks + Leaks ELSE Leaks)

\* One process that succeeded shows that the kernel does not leak.
RunsShowLeaks == nm /\ phase = "time" /\ jobs # <<>> /\ tb.run > 0 => Leaks = 0

RowsOK ==
  \A r \in rows : r.side # "FAILED" => r.n = Runs /\ r.sum \in Sums /\ (nm => r.leak = 0)

HarnessInv ==
  ArgsOK /\ BinsOK /\ JobsOK /\ TimerOK /\ ProcOK /\ RunsShowLeaks /\ RowsOK

-----------------------------------------------------------------------------

\* What the assumption on command lines says of the one the script is given.
LEMMA CommandLine ==
  ASSUME args \in CommandLines
  PROVE  Runs \in Nat /\ Runs > 0 /\ Modes \in Seq(ModeNames) /\ Modes # <<>>
BY HarnessAssumption DEF Runs, Modes, ModeNames

\* Whether there is an llvm-nm does not change, nor what a kernel is.
LEMMA SameKernels ==
  ASSUME nm' = nm
  PROVE  Kernels' = Kernels /\ JobList' = JobList
BY DEF Kernels, JobList

\* The job being timed, where there is one, and the list without it.
LEMMA CurrentJob ==
  ASSUME JobsOK, jobs # <<>>
  PROVE  /\ Job \in JobList /\ Kernel \in Kernels /\ Leaks \in {0, 1}
         /\ Job.what \in Sides => Job.what = Kernel.side
         /\ Tail(jobs) \in Seq(JobList)
<1>1. Job \in JobList /\ Tail(jobs) \in Seq(JobList)
  BY DEF JobsOK, Job
<1> QED
  BY <1>1 DEF Kernel, Leaks, JobList, Kernels

\* The invariant holds when the script starts.
LEMMA InitHarness == Init => HarnessInv
<1> SUFFICES ASSUME Init PROVE HarnessInv
  OBVIOUS
<1>1. ArgsOK
  BY CommandLine DEF Init, ArgsOK
<1>2. BinsOK /\ JobsOK
  BY DEF Init, BinsOK, JobsOK
<1>3. TimerOK
  BY CommandLine DEF Init, TimerOK, NewTimer
<1>4. ProcOK /\ RunsShowLeaks /\ RowsOK
  BY DEF Init, ProcOK, Idle, RunsShowLeaks, NewTimer, RowsOK
<1> QED
  BY <1>1, <1>2, <1>3, <1>4 DEF HarnessInv

-----------------------------------------------------------------------------
(* Building: no process runs, and no row is written but that of a failure. *)

\* A benchmark is left, failed or finished, when no process of it runs.
LEMMA NextBenchKeeps ==
  ASSUME HarnessInv, NextBench, UNCHANGED <<args, nm, proc>>, proc.at = "warm", tb' = NewTimer,
         rows' = rows \/ rows' = rows \cup {[bench |-> bench, side |-> "FAILED", mode |-> "-"]}
  PROVE  HarnessInv'
<1> USE DEF HarnessInv, NextBench
<1>1. ArgsOK'
  BY CommandLine DEF ArgsOK, Modes
<1>2. BinsOK' /\ JobsOK'
  BY DEF BinsOK, JobsOK
<1>3. TimerOK' /\ ProcOK' /\ RunsShowLeaks'
  BY CommandLine DEF ArgsOK, TimerOK, ProcOK, RunsShowLeaks, NewTimer, Runs
<1>4. RowsOK'
  BY DEF RowsOK, Runs
<1> QED
  BY <1>1, <1>2, <1>3, <1>4

\* A binary more, or none, while the benchmark is built.
LEMMA BuildingKeeps ==
  ASSUME HarnessInv, phase # "time", phase' # "time",
         phase \in {"c", "ctrap", "dcdart", "identity", "aot"},
         UNCHANGED <<args, nm, jobs, tb, proc, rows>>,
         left' \in Seq(ModeNames), phase' \in {"c", "ctrap", "dcdart"} => left' # <<>>,
         \/ bins' = bins /\ phase # "c"
         \/ \E k \in Kernels : bins' = <<k>> \/ bins' = Append(bins, k)
  PROVE  HarnessInv'
<1> USE DEF HarnessInv
<1>1. ArgsOK'
  BY DEF ArgsOK
<1>2. BinsOK'
  <2>1. CASE bins' = bins /\ phase # "c"
    BY <2>1, SameKernels DEF BinsOK
  <2>2. CASE \E k \in Kernels : bins' = <<k>> \/ bins' = Append(bins, k)
    <3>1. PICK k \in Kernels : bins' = <<k>> \/ bins' = Append(bins, k)
      BY <2>2
    <3>2. bins' \in Seq(Kernels) /\ bins' # <<>>
      <4>1. <<k>> \in Seq(Kernels) /\ <<k>> # <<>>
        OBVIOUS
      <4>2. CASE bins' = Append(bins, k)
        BY <4>2 DEF BinsOK
      <4> QED
        BY <3>1, <4>1, <4>2
    <3> QED
      BY <3>2, SameKernels DEF BinsOK
  <2> QED
    BY <2>1, <2>2
<1>3. JobsOK'
  BY SameKernels DEF JobsOK
<1>4. TimerOK' /\ ProcOK' /\ RunsShowLeaks' /\ RowsOK'
  BY DEF TimerOK, ProcOK, RunsShowLeaks, RowsOK, Runs
<1> QED
  BY <1>1, <1>2, <1>3, <1>4

\* The actions that build before stock Dart is built.
LEMMA BuildsKeep ==
  ASSUME HarnessInv, BuildC \/ BuildTrap \/ BuildDcDart \/ CheckIdentity
  PROVE  HarnessInv'
<1>1. phase # "time" => proc.at = "warm" /\ tb = NewTimer
  BY DEF HarnessInv, ProcOK, TimerOK
<1>2. CSum \in Sums
  BY HarnessAssumption DEF CSum
<1>3. ASSUME BuildC PROVE HarnessInv'
  <2>1. CASE GiveUp({"c"}) /\ UNCHANGED <<args, nm, tb, proc>>
    BY <2>1, <1>1, <1>3, NextBenchKeeps DEF BuildC, Phase, GiveUp, RecordFailed
  <2>2. CASE /\ \E steady \in BOOLEAN : bins' = <<Binary("c", "-", CSum, steady, 0, FALSE)>>
             /\ phase' = "ctrap"
             /\ UNCHANGED <<args, nm, tb, proc, todo, left, jobs, rows, notes, fatal>>
    <3>1. PICK steady \in BOOLEAN : bins' = <<Binary("c", "-", CSum, steady, 0, FALSE)>>
      BY <2>2
    <3>2. Binary("c", "-", CSum, steady, 0, FALSE) \in Kernels
      BY <1>2 DEF Binary, Kernels, Sides
    <3> QED
      BY <3>1, <3>2, <2>2, <1>3, BuildingKeeps DEF BuildC, Phase, HarnessInv, ArgsOK
  <2> QED
    BY <1>3, <2>1, <2>2 DEF BuildC
<1>4. ASSUME BuildTrap PROVE HarnessInv'
  <2>1. \A sum \in Sums : Binary("ctrap", "-", sum, TRUE, 0, FALSE) \in Kernels
    BY DEF Binary, Kernels, Sides
  <2>2. \/ bins' = bins /\ phase # "c"
        \/ \E k \in Kernels : bins' = <<k>> \/ bins' = Append(bins, k)
    BY <1>4, <2>1 DEF BuildTrap, Phase
  <2> QED
    BY <1>4, <2>2, BuildingKeeps DEF BuildTrap, Phase, HarnessInv, ArgsOK
<1>5. ASSUME BuildDcDart PROVE HarnessInv'
  <2>1. left \in Seq(ModeNames) /\ left # <<>>
    BY <1>5 DEF HarnessInv, ArgsOK, BuildDcDart, Phase
  <2>2. Head(left) \in ModeNames /\ Tail(left) \in Seq(ModeNames)
    BY <2>1
  <2>3. CASE /\ \E said \in {{"dcdart build"}, {}} : GiveUp(said)
             /\ UNCHANGED <<args, nm, tb, proc>>
    BY <2>3, <1>1, <1>5, NextBenchKeeps DEF BuildDcDart, Phase, GiveUp, RecordFailed
  <2>4. CASE /\ \E sum \in Sums, heap \in BOOLEAN : \E leak \in IF heap THEN {0, 1} ELSE {0} :
                  bins' = Append(bins, Binary("dcdart", Head(left), sum, TRUE, leak, nm /\ heap))
             /\ left' = Tail(left)
             /\ phase' = IF Tail(left) = <<>> THEN "identity" ELSE phase
             /\ UNCHANGED <<args, nm, tb, proc, todo, jobs, rows, notes, fatal>>
    <3>1. PICK sum \in Sums, heap \in BOOLEAN : \E leak \in IF heap THEN {0, 1} ELSE {0} :
                  bins' = Append(bins, Binary("dcdart", Head(left), sum, TRUE, leak, nm /\ heap))
      BY <2>4
    <3>2. PICK leak \in IF heap THEN {0, 1} ELSE {0} :
                  bins' = Append(bins, Binary("dcdart", Head(left), sum, TRUE, leak, nm /\ heap))
      BY <3>1
    <3>3. Binary("dcdart", Head(left), sum, TRUE, leak, nm /\ heap) \in Kernels
      BY <2>2, <3>2 DEF Binary, Kernels, Sides
    <3> QED
      BY <3>2, <3>3, <2>2, <2>4, <1>5, BuildingKeeps DEF BuildDcDart, Phase
  <2> QED
    BY <1>5, <2>3, <2>4 DEF BuildDcDart
<1>6. ASSUME CheckIdentity PROVE HarnessInv'
  BY <1>6, BuildingKeeps DEF CheckIdentity, Phase, HarnessInv, ArgsOK
<1> QED
  BY <1>3, <1>4, <1>5, <1>6

\* Stock Dart and the list of what to time.
LEMMA BuildAotKeeps ==
  ASSUME HarnessInv, BuildAot
  PROVE  HarnessInv'
<1> DEFINE stable == IF prechecked THEN <<>> ELSE << [what |-> "batch a", bin |-> bins'[1]] >>
           timed  == [i \in DOMAIN bins' |-> [what |-> bins'[i].side, bin |-> bins'[i]]]
<1>1. /\ nm' = nm /\ args' = args /\ left' = left /\ tb' = tb /\ proc' = proc /\ rows' = rows
      /\ phase = "aot" /\ phase' = "time" /\ todo' = todo /\ todo # <<>> /\ tb = NewTimer /\ proc.at = "warm"
  BY DEF BuildAot, Phase, HarnessInv, TimerOK, ProcOK
<1>2. bins' \in Seq(Kernels) /\ bins' # <<>>
  <2>1. bins \in Seq(Kernels) /\ bins # <<>>
    BY <1>1 DEF HarnessInv, BinsOK
  <2>2. \A sum \in Sums : Binary("dartaot", "-", sum, TRUE, 0, FALSE) \in Kernels
    BY DEF Binary, Kernels, Sides
  <2>3. CASE bins' = bins
    BY <2>1, <2>3
  <2>4. CASE \E k \in Kernels : bins' = Append(bins, k)
    BY <2>1, <2>4
  <2> QED
    BY <2>2, <2>3, <2>4 DEF BuildAot
<1>3. stable \in Seq(JobList)
  <2>1. bins'[1] \in Kernels
    BY <1>2
  <2>2. [what |-> "batch a", bin |-> bins'[1]] \in JobList
    BY <2>1 DEF JobList, Batches, Sides
  <2>3. \A x \in JobList : <<x>> \in Seq(JobList) /\ <<>> \in Seq(JobList)
    OBVIOUS
  <2>4. CASE prechecked
    BY <2>4
  <2>5. CASE ~prechecked
    BY <2>2, <2>3, <2>5
  <2> QED
    BY <2>4, <2>5
<1>4. timed \in Seq(JobList)
  <2>1. \A k \in Kernels : [what |-> k.side, bin |-> k] \in JobList
    BY DEF JobList, Kernels
  <2>2. \A i \in DOMAIN bins' : [what |-> bins'[i].side, bin |-> bins'[i]] \in JobList
    BY <1>2, <2>1
  <2>3. DOMAIN bins' = 1 .. Len(bins') /\ Len(bins') \in Nat
    BY <1>2
  <2> QED
    BY <2>2, <2>3
<1>5. JobsOK'
  <2>1. jobs' = stable \o timed
    BY DEF BuildAot
  <2> HIDE DEF stable, timed
  <2> QED
    BY <2>1, <1>1, <1>3, <1>4, SameKernels DEF JobsOK
<1>6. BinsOK'
  BY <1>1, <1>2, SameKernels DEF BinsOK
<1>7. ArgsOK' /\ TimerOK' /\ ProcOK' /\ RunsShowLeaks' /\ RowsOK'
  BY <1>1, CommandLine
     DEF HarnessInv, ArgsOK, TimerOK, ProcOK, RunsShowLeaks, RowsOK, NewTimer, Runs
<1> QED
  BY <1>5, <1>6, <1>7 DEF HarnessInv

-----------------------------------------------------------------------------
(* One process.  The job stays; the process moves on, or it is over and the *)
(* timer has one run more or a failure.                                    *)

LEMMA ProcessMoves ==
  ASSUME HarnessInv, Phase("time"), jobs # <<>>, tb.out = "running",
         UNCHANGED <<args, nm, todo, phase, left, bins, jobs, rows>>, TimerOK', ProcOK',
         nm /\ tb'.run > 0 => Leaks = 0
  PROVE  HarnessInv'
<1> USE DEF HarnessInv
<1>1. ArgsOK' /\ RowsOK'
  BY DEF ArgsOK, RowsOK, Runs
<1>2. BinsOK' /\ JobsOK'
  BY SameKernels DEF BinsOK, JobsOK
<1>3. RunsShowLeaks'
  BY DEF RunsShowLeaks, Leaks, Kernel, Job
<1> QED
  BY <1>1, <1>2, <1>3

\* A process that fails is the end of time_binary.
LEMMA FailureKeeps ==
  ASSUME HarnessInv, Phase("time"), jobs # <<>>, tb.out = "running", ProcessFails,
         UNCHANGED <<args, nm, todo, phase, left, bins, jobs, rows>>
  PROVE  HarnessInv'
<1>1. TimerOK'
  BY DEF HarnessInv, TimerOK, ProcessFails, Phase, Runs
<1>2. ProcOK'
  BY DEF ProcessFails, Idle, ProcOK
<1>3. nm /\ tb'.run > 0 => Leaks = 0
  BY DEF HarnessInv, RunsShowLeaks, Phase, TimerOK, ProcessFails
<1> QED
  BY <1>1, <1>2, <1>3, ProcessMoves

\* The warm-up call and the crash.
LEMMA WarmupKeeps ==
  ASSUME HarnessInv, Warmup \/ Crash
  PROVE  HarnessInv'
<1>1. CASE Crash
  BY <1>1, FailureKeeps DEF Crash, InProcess
<1>2. CASE Warmup
  <2>1. /\ Phase("time") /\ jobs # <<>> /\ tb.out = "running" /\ tb' = tb
        /\ UNCHANGED <<args, nm, todo, phase, left, bins, jobs, rows>>
    BY <1>2 DEF Warmup, InProcess
  <2>2. Kernel \in Kernels /\ Leaks \in {0, 1}
    BY <2>1, CurrentJob DEF HarnessInv
  <2>3. PICK r \in Results : proc' = [at |-> "timed", warm |-> r, live |-> Leaks]
    BY <1>2 DEF Warmup
  <2>4. r \in Sums
    BY <2>2 DEF Results, Kernels
  <2>5. ProcOK'
    BY <2>1, <2>2, <2>3, <2>4 DEF ProcOK, Phase, Leaks, Kernel, Job
  <2>6. TimerOK'
    BY <2>1 DEF HarnessInv, TimerOK, Runs
  <2>7. nm /\ tb'.run > 0 => Leaks = 0
    BY <2>1 DEF HarnessInv, RunsShowLeaks, Phase
  <2> QED
    BY <2>1, <2>5, <2>6, <2>7, ProcessMoves
<1> QED
  BY <1>1, <1>2

\* The timed call leaks what the first leaked.
LEMMA TimedCallKeeps ==
  ASSUME HarnessInv, TimedCall
  PROVE  HarnessInv'
<1>1. /\ Phase("time") /\ jobs # <<>> /\ tb.out = "running" /\ proc.at = "timed"
      /\ UNCHANGED <<args, nm, todo, phase, left, bins, jobs, rows>>
  BY DEF TimedCall, InProcess
<1>2. CASE ProcessFails
  BY <1>1, <1>2, FailureKeeps
<1>3. CASE proc' = [proc EXCEPT !.at = "end", !.live = @ + Leaks] /\ tb' = tb
  <2>1. Leaks \in {0, 1} /\ proc.live = Leaks /\ proc.warm \in Sums
    BY <1>1, CurrentJob DEF HarnessInv, ProcOK
  <2>2. Leaks' = Leaks
    BY <1>1 DEF Leaks, Kernel, Job
  <2>4. ProcOK'
    <3>1. proc' = [at |-> "end", warm |-> proc.warm, live |-> Leaks + Leaks]
      BY <1>1, <1>3, <2>1 DEF HarnessInv, ProcOK
    <3>2. Leaks + Leaks \in Nat
      BY <2>1
    <3> QED
      BY <1>1, <1>3, <2>1, <2>2, <3>1, <3>2 DEF ProcOK, Phase
  <2>5. TimerOK'
    BY <1>1, <1>3 DEF HarnessInv, TimerOK, Runs
  <2>6. nm /\ tb'.run > 0 => Leaks = 0
    BY <1>1, <1>3 DEF HarnessInv, RunsShowLeaks, Phase
  <2> QED
    BY <1>1, <2>4, <2>5, <2>6, ProcessMoves
<1> QED
  BY <1>2, <1>3 DEF TimedCall

\* The process succeeds: the timer has one run more, and the kernel is known
\* not to leak where its main looks.
LEMMA EndOfMainKeeps ==
  ASSUME HarnessInv, EndOfMain
  PROVE  HarnessInv'
<1>1. /\ Phase("time") /\ jobs # <<>> /\ tb.out = "running" /\ proc.at = "end"
      /\ UNCHANGED <<args, nm, todo, phase, left, bins, jobs, rows>>
  BY DEF EndOfMain, InProcess
<1>2. CASE ProcessFails
  BY <1>1, <1>2, FailureKeeps
<1>3. CASE RunSucceeds(proc.warm) /\ proc' = Idle /\ ~(Kernel.checked /\ proc.live # 0)
  <2>1. /\ Kernel \in Kernels /\ Leaks \in {0, 1} /\ proc.live = Leaks + Leaks /\ proc.warm \in Sums
    BY <1>1, CurrentJob DEF HarnessInv, ProcOK
  <2>2. nm => Leaks = 0
    BY <1>3, <2>1 DEF Kernels, Leaks
  <2>3. ProcOK'
    BY <1>3 DEF ProcOK, Idle
  <2>4. Runs \in Nat /\ Runs > 0
    BY CommandLine DEF HarnessInv, ArgsOK
  <2>5. /\ tb \in [run : Nat, seen : Sums \cup {None}, n : Nat, out : {"running", "returned", "failed"}]
        /\ tb.run <= Runs /\ tb.n = (IF tb.run = 0 THEN 0 ELSE tb.run - 1)
        /\ tb.n > 0 => tb.seen \in Sums
    BY <1>1 DEF HarnessInv, TimerOK
  <2>6. TimerOK'
    <3>1. CASE tb.run = 0
      <4>1. tb' = [tb EXCEPT !.run = 1]
        BY <1>3, <3>1 DEF RunSucceeds
      <4> QED
        BY <1>1, <2>4, <2>5, <3>1, <4>1 DEF TimerOK, Phase, Runs
    <3>2. CASE tb.run # 0 /\ tb.seen \notin {None, proc.warm}
      <4>1. tb' = [tb EXCEPT !.n = @ + 1, !.out = "failed"]
        BY <1>3, <3>2 DEF RunSucceeds
      <4>2. tb.seen \in Sums
        BY <2>5, <3>2
      <4>3. tb' = [run |-> tb.run, seen |-> tb.seen, n |-> tb.n + 1, out |-> "failed"]
        BY <2>5, <4>1
      <4> QED
        BY <1>1, <2>5, <4>2, <4>3 DEF TimerOK, Phase
    <3>3. CASE tb.run # 0 /\ tb.seen \in {None, proc.warm}
      <4>1. tb' = [run |-> tb.run + 1, seen |-> proc.warm, n |-> tb.n + 1,
                   out |-> IF tb.run = Runs THEN "returned" ELSE "running"]
        BY <1>3, <3>3 DEF RunSucceeds
      <4> QED
        BY <1>1, <2>1, <2>4, <2>5, <3>3, <4>1 DEF TimerOK, Phase, Runs
    <3> QED
      BY <3>1, <3>2, <3>3
  <2>7. nm /\ tb'.run > 0 => Leaks = 0
    BY <2>2
  <2> QED
    BY <1>1, <2>3, <2>6, <2>7, ProcessMoves
<1> QED
  BY <1>2, <1>3 DEF EndOfMain

-----------------------------------------------------------------------------
(* What becomes of a timed binary. *)

\* No process runs any more.
LEMMA Settled ==
  ASSUME HarnessInv, tb.out # "running"
  PROVE  proc.at = "warm"
BY DEF HarnessInv, ProcOK

\* The row of a binary that was timed is whole.
LEMMA RecordKeeps ==
  ASSUME HarnessInv, Phase("time"), jobs # <<>>, Clean, UNCHANGED <<args, nm>>, Record
  PROVE  RowsOK'
<1>1. tb.seen \in Sums /\ tb.n = Runs /\ (nm => Leaks = 0)
  BY CommandLine DEF HarnessInv, TimerOK, ArgsOK, Clean, RunsShowLeaks, Phase
<1>2. PICK quality \in Qualities[bench] :
        rows' = rows \cup {[bench |-> bench, side |-> Kernel.side, mode |-> Kernel.mode, sum |-> tb.seen,
                            n |-> tb.n, ok |-> quality.ok, sem |-> quality.sem, leak |-> Leaks]}
  BY DEF Record
<1> QED
  BY <1>1, <1>2 DEF HarnessInv, RowsOK, Runs

\* The next job, or the same binary once more, with a new timer.
LEMMA DoneKeeps ==
  ASSUME HarnessInv, tb.out # "running", NEW js \in Seq(JobList), Done(js),
         UNCHANGED <<args, nm, todo, phase, left, bins, proc>>, RowsOK'
  PROVE  HarnessInv'
<1> USE DEF HarnessInv, Done
<1>1. ArgsOK'
  BY DEF ArgsOK
<1>2. BinsOK' /\ JobsOK'
  BY SameKernels DEF BinsOK, JobsOK
<1>3. TimerOK' /\ RunsShowLeaks'
  BY CommandLine DEF ArgsOK, TimerOK, RunsShowLeaks, NewTimer, Runs
<1>4. ProcOK'
  BY Settled DEF ProcOK
<1> QED
  BY <1>1, <1>2, <1>3, <1>4

\* The stability precheck.
LEMMA PrecheckKeeps ==
  ASSUME HarnessInv, Precheck
  PROVE  HarnessInv'
<1>1. /\ jobs # <<>> /\ tb.out # "running" /\ Phase("time")
      /\ UNCHANGED <<args, nm, todo, phase, left, bins, proc, rows>>
  BY DEF Precheck, Returned
<1>2. RowsOK'
  BY <1>1 DEF HarnessInv, RowsOK, Runs
<1>3. Tail(jobs) \in Seq(JobList) /\ Job \in JobList
  BY <1>1, CurrentJob DEF HarnessInv
<1>4. CASE Done(Tail(jobs))
  BY <1>1, <1>2, <1>3, <1>4, DoneKeeps
<1>5. CASE Done(<<[Job EXCEPT !.what = "batch b"]>> \o Tail(jobs))
  <2>1. [Job EXCEPT !.what = "batch b"] \in JobList
    BY <1>3 DEF JobList, Batches, Sides
  <2>2. \A x \in JobList : <<x>> \o Tail(jobs) \in Seq(JobList)
    BY <1>3
  <2>3. <<[Job EXCEPT !.what = "batch b"]>> \o Tail(jobs) \in Seq(JobList)
    BY <2>1, <2>2
  <2> QED
    BY <1>1, <1>2, <1>5, <2>3, DoneKeeps
<1> QED
  BY <1>4, <1>5 DEF Precheck, BatchReturns

\* The four kinds of binaries.
LEMMA TimedKeep ==
  ASSUME HarnessInv, TimedC \/ TimedTrap \/ TimedDcDart \/ TimedAot
  PROVE  HarnessInv'
<1>1. /\ jobs # <<>> /\ tb.out # "running" /\ Phase("time")
      /\ UNCHANGED <<args, nm, proc>>
  BY DEF TimedC, TimedTrap, TimedDcDart, TimedAot, Returned
<1>2. Tail(jobs) \in Seq(JobList) /\ proc.at = "warm"
  BY <1>1, CurrentJob, Settled DEF HarnessInv
<1>3. CASE GiveUp({"c run"}) /\ tb' = NewTimer
  BY <1>1, <1>2, <1>3, NextBenchKeeps DEF GiveUp, RecordFailed
<1>4. CASE Done(Tail(jobs)) /\ UNCHANGED <<todo, phase, left, bins>> /\ RowsOK'
  BY <1>1, <1>2, <1>4, DoneKeeps
<1>5. (rows' = rows \/ RecordFailed) => RowsOK'
  BY <1>1 DEF HarnessInv, RowsOK, Runs, RecordFailed
<1>6. Clean /\ Record => RowsOK'
  BY <1>1, RecordKeeps
<1> QED
  BY <1>3, <1>4, <1>5, <1>6 DEF TimedC, TimedTrap, TimedDcDart, TimedAot

-----------------------------------------------------------------------------
(* The theorems. *)

\* Every action of the harness keeps the invariant.
LEMMA StepKeeps == HarnessInv /\ [Next]_benchVars => HarnessInv'
<1> SUFFICES ASSUME HarnessInv, [Next]_benchVars PROVE HarnessInv'
  OBVIOUS
<1>1. CASE BuildC \/ BuildTrap \/ BuildDcDart \/ CheckIdentity
  BY <1>1, BuildsKeep
<1>2. CASE BuildAot
  BY <1>2, BuildAotKeeps
<1>3. CASE Warmup \/ Crash
  BY <1>3, WarmupKeeps
<1>4. CASE TimedCall
  BY <1>4, TimedCallKeeps
<1>5. CASE EndOfMain
  BY <1>5, EndOfMainKeeps
<1>6. CASE Precheck
  BY <1>6, PrecheckKeeps
<1>7. CASE TimedC \/ TimedTrap \/ TimedDcDart \/ TimedAot
  BY <1>7, TimedKeep
<1>8. CASE EndOfBench
  <2>1. phase = "time" /\ jobs = <<>> /\ NextBench /\ UNCHANGED <<args, nm, tb, proc, rows>>
    BY <1>8 DEF EndOfBench, Phase
  <2>2. proc.at = "warm" /\ tb = NewTimer
    BY <2>1 DEF HarnessInv, ProcOK, TimerOK
  <2> QED
    BY <2>1, <2>2, NextBenchKeeps
<1>9. CASE Report
  <2>1. proc' = proc /\ phase' = "reported" /\ UNCHANGED <<args, nm, left, bins, jobs, tb, rows>>
    BY <1>9 DEF Report
  <2>2. proc.at = "warm" /\ tb = NewTimer
    BY <1>9 DEF HarnessInv, ArgsOK, ProcOK, TimerOK, Report
  <2>3. BinsOK' /\ JobsOK'
    BY <2>1, SameKernels DEF HarnessInv, BinsOK, JobsOK
  <2> QED
    BY <2>1, <2>2, <2>3 DEF HarnessInv, ArgsOK, TimerOK, ProcOK, RunsShowLeaks, RowsOK, Runs
<1>10. CASE UNCHANGED benchVars
  BY <1>10, SameKernels
     DEF benchVars, HarnessInv, ArgsOK, BinsOK, JobsOK, TimerOK, ProcOK, RunsShowLeaks, RowsOK,
         Runs, Leaks, Kernel, Job
<1> QED
  BY <1>1, <1>2, <1>3, <1>4, <1>5, <1>6, <1>7, <1>8, <1>9, <1>10 DEF Next

\* The invariant holds of the harness.
THEOREM HarnessInvariant == Spec => []HarnessInv
BY InitHarness, StepKeeps, PTL DEF Spec

\* Every row counts exactly the runs asked for, and each of them computed the
\* checksum of the row.
THEOREM HarnessRowsWhole == Spec => []RowsAreWhole
<1>1. HarnessInv => RowsAreWhole
  BY DEF HarnessInv, RowsOK, TimerOK, RowsAreWhole
<1> QED
  BY <1>1, HarnessInvariant, PTL

\* Where there is an llvm-nm, no row is of a kernel that leaks.
THEOREM HarnessLeaksNeverTimed == Spec => []LeaksNeverTimed
<1>1. HarnessInv => LeaksNeverTimed
  BY DEF HarnessInv, RowsOK, LeaksNeverTimed
<1> QED
  BY <1>1, HarnessInvariant, PTL

-----------------------------------------------------------------------------
(* No benchmark vanishes. *)

\* What the report needs of a benchmark.
Covered(b) ==
  \/ Failed(b)
  \/ RowOf(b, "c", "-") # {} /\ \A i \in DOMAIN Modes : RowOf(b, "dcdart", Modes[i]) # {}

HasBin(side, mode) == \E i \in DOMAIN bins : bins[i].side = side /\ bins[i].mode = mode

\* It is still to be timed, or it was, and has left a row.
Accounted(side, mode) ==
  \/ \E i \in DOMAIN jobs : jobs[i].what = side /\ jobs[i].bin.mode = mode
  \/ Failed(bench) \/ RowOf(bench, side, mode) # {}

BuildingOK ==
  phase \in {"ctrap", "dcdart", "identity", "aot"} =>
    /\ HasBin("c", "-")
    /\ \A i \in DOMAIN Modes :
         HasBin("dcdart", Modes[i]) \/ (phase \in {"ctrap", "dcdart"} /\ Modes[i] \in Range(left))

SuiteInv ==
  /\ todo \in Seq(DOMAIN SuiteOf)
  /\ Reported => todo = <<>>
  /\ \A b \in Range(Benches) : Covered(b) \/ b \in Range(todo)
  /\ phase = "c" => left = Modes
  /\ BuildingOK
  /\ phase = "time" => Accounted("c", "-") /\ \A i \in DOMAIN Modes : Accounted("dcdart", Modes[i])

\* An element of a sequence is its head or is in its tail.
LEMMA HeadOrTail ==
  ASSUME NEW S, NEW s \in Seq(S), s # <<>>, NEW x \in Range(s)
  PROVE  x = Head(s) \/ x \in Range(Tail(s))
<1>1. PICK i \in DOMAIN s : x = s[i]
  BY DEF Range
<1>2. CASE i = 1
  BY <1>1, <1>2
<1>3. CASE i # 1
  <2>1. i - 1 \in DOMAIN Tail(s) /\ Tail(s)[i - 1] = s[i]
    BY <1>1, <1>3
  <2> QED
    BY <1>1, <2>1 DEF Range
<1> QED
  BY <1>2, <1>3

\* With another head a sequence has the same elements behind it.
LEMMA OtherHead ==
  ASSUME NEW S, NEW s \in Seq(S), s # <<>>, NEW x \in S
  PROVE  \A i \in DOMAIN s : i # 1 => i \in DOMAIN (<<x>> \o Tail(s)) /\ (<<x>> \o Tail(s))[i] = s[i]
<1>1. <<x>> \in Seq(S) /\ Len(<<x>>) = 1 /\ Tail(s) \in Seq(S)
  OBVIOUS
<1>2. ASSUME NEW one \in Seq(S), Len(one) = 1, NEW i \in DOMAIN s, i # 1
      PROVE  i \in DOMAIN (one \o Tail(s)) /\ (one \o Tail(s))[i] = s[i]
  <2>1. i - 1 \in DOMAIN Tail(s) /\ Tail(s)[i - 1] = s[i] /\ i \in Nat
    BY <1>2
  <2>2. ASSUME NEW rest \in Seq(S), i - 1 \in DOMAIN rest
        PROVE  i \in DOMAIN (one \o rest) /\ (one \o rest)[i] = rest[i - 1]
    <3>1. /\ DOMAIN rest = 1 .. Len(rest) /\ Len(rest) \in Nat
          /\ DOMAIN (one \o rest) = 1 .. Len(one \o rest)
      BY <1>2, <2>2, ConcatProperties
    <3>2. Len(one \o rest) = 1 + Len(rest)
      BY ZenonT(40), <1>2, <2>2, ConcatProperties
    <3>3. i \in 1 .. 1 + Len(rest) /\ ~(i <= 1)
      <4>1. i - 1 \in 1 .. Len(rest) /\ i \in Nat /\ Len(rest) \in Nat
        BY <2>1, <2>2, <3>1
      <4> QED
        BY <4>1
    <3>4. (one \o rest)[i] = rest[i - 1]
      <4>1. \A k \in 1 .. Len(one) + Len(rest) :
              (one \o rest)[k] = IF k <= Len(one) THEN one[k] ELSE rest[k - Len(one)]
        BY <1>2, <2>2, ConcatProperties, Zenon
      <4>2. Len(one) = 1
        BY <1>2
      <4> QED
        BY <3>3, <4>1, <4>2, Zenon
    <3> QED
      BY <3>1, <3>2, <3>3, <3>4
  <2> QED
    BY <1>1, <2>1, <2>2
<1> QED
  BY <1>1, <1>2

\* What was appended is in the sequence, and what was in it still is.
LEMMA Appended ==
  ASSUME NEW S, NEW s \in Seq(S), NEW x \in S
  PROVE  /\ \A i \in DOMAIN s : i \in DOMAIN Append(s, x) /\ Append(s, x)[i] = s[i]
         /\ \E i \in DOMAIN Append(s, x) : Append(s, x)[i] = x
<1>1. /\ Len(s) \in Nat /\ DOMAIN Append(s, x) = 1 .. Len(s) + 1
      /\ \A i \in DOMAIN s : i \in DOMAIN Append(s, x) /\ Append(s, x)[i] = s[i]
      /\ Append(s, x)[Len(s) + 1] = x
  OBVIOUS
<1> QED
  BY <1>1

\* What the rows say of a benchmark they go on to say.
LEMMA RowsGrow ==
  ASSUME args' = args, rows \subseteq rows', NEW b
  PROVE  /\ Covered(b) => Covered(b)'
         /\ Failed(b) => Failed(b)'
         /\ \A side, mode : RowOf(b, side, mode) # {} => RowOf(b, side, mode)' # {}
BY DEF Covered, Failed, RowOf, Modes

\* A benchmark is left when the rows cover it.
LEMMA NextBenchCovers ==
  ASSUME HarnessInv, SuiteInv, NextBench, todo # <<>>, args' = args, rows \subseteq rows',
         NEW done, done = bench, Covered(done)'
  PROVE  SuiteInv'
<1>1. todo \in Seq(DOMAIN SuiteOf) /\ todo' = Tail(todo) /\ phase' = "c" /\ left' = Modes /\ Modes' = Modes
  BY DEF SuiteInv, NextBench, Modes
<1>2. ASSUME NEW b \in Range(Benches) PROVE Covered(b)' \/ b \in Range(todo')
  <2>1. Covered(b) => Covered(b)'
    BY RowsGrow
  <2>2. b \in Range(todo) => b = Head(todo) \/ b \in Range(Tail(todo))
    BY <1>1, HeadOrTail
  <2> QED
    BY <1>1, <1>2, <2>1, <2>2 DEF SuiteInv, bench
<1>3. todo' \in Seq(DOMAIN SuiteOf)
  BY <1>1
<1> QED
  BY <1>1, <1>2, <1>3 DEF SuiteInv, Benches, Reported, BuildingOK, Range

\* It is covered when it is given up.
LEMMA GiveUpCovers ==
  ASSUME HarnessInv, SuiteInv, NEW said, GiveUp(said), todo # <<>>, args' = args
  PROVE  SuiteInv'
<1>1. NextBench /\ rows \subseteq rows' /\ [bench |-> bench, side |-> "FAILED", mode |-> "-"] \in rows'
  BY DEF GiveUp, RecordFailed
<1>2. PICK done : done = bench
  OBVIOUS
<1>3. \E r \in rows' : r.bench = done /\ r.side = "FAILED"
  BY <1>1, <1>2
<1>4. Covered(done)'
  BY <1>3 DEF Covered, Failed
<1> QED
  BY <1>1, <1>2, <1>4, NextBenchCovers

\* While it is built: the binaries built so far and the modes left.
LEMMA BuildingCovers ==
  ASSUME HarnessInv, SuiteInv, UNCHANGED <<args, todo, rows>>, todo # <<>>,
         phase' \in {"ctrap", "dcdart", "identity", "aot"}, phase # "reported", BuildingOK'
  PROVE  SuiteInv'
BY DEF SuiteInv, Benches, Modes, Reported, Covered, Failed, RowOf

\* A binary more is a mode less to build.
LEMMA BinaryMore ==
  ASSUME HarnessInv, NEW k \in Kernels, bins' = Append(bins, k)
  PROVE  /\ \A side, mode : HasBin(side, mode) => HasBin(side, mode)'
         /\ HasBin(k.side, k.mode)'
<1>1. bins \in Seq(Kernels)
  BY DEF HarnessInv, BinsOK
<1>2. /\ \A i \in DOMAIN bins : i \in DOMAIN bins' /\ bins'[i] = bins[i]
      /\ \E i \in DOMAIN bins' : bins'[i] = k
  BY <1>1, Appended
<1> QED
  BY <1>2 DEF HasBin

\* The actions that build before stock Dart is built.
LEMMA BuildsCover ==
  ASSUME HarnessInv, SuiteInv, BuildC \/ BuildTrap \/ BuildDcDart \/ CheckIdentity
  PROVE  SuiteInv'
<1>1. CASE BuildC
  <2>1. CASE GiveUp({"c"})
    BY <1>1, <2>1, GiveUpCovers DEF BuildC, Phase
  <2>2. CASE /\ \E steady \in BOOLEAN : bins' = <<Binary("c", "-", CSum, steady, 0, FALSE)>>
             /\ phase' = "ctrap" /\ UNCHANGED <<todo, left, rows>>
    <3>1. phase = "c" /\ todo # <<>> /\ args' = args /\ left' = Modes /\ Modes' = Modes
      BY <1>1, <2>2 DEF BuildC, Phase, SuiteInv, Modes
    <3>2. HasBin("c", "-")'
      BY <2>2 DEF HasBin, Binary
    <3>3. \A i \in DOMAIN Modes : Modes[i] \in Range(Modes)
      BY DEF Range
    <3>4. BuildingOK'
      BY <2>2, <3>1, <3>2, <3>3 DEF BuildingOK
    <3> QED
      BY <2>2, <3>1, <3>4, BuildingCovers
  <2> QED
    BY <1>1, <2>1, <2>2 DEF BuildC
<1>2. CASE BuildTrap
  <2>1. phase = "ctrap" /\ phase' = "dcdart" /\ todo # <<>> /\ UNCHANGED <<args, todo, left, rows>> /\ Modes' = Modes
    BY <1>2 DEF BuildTrap, Phase, Modes
  <2>2. bins' = bins \/ \E k \in Kernels : bins' = Append(bins, k)
    BY <1>2 DEF BuildTrap, Binary, Kernels, Sides
  <2>3. \A side, mode : HasBin(side, mode) => HasBin(side, mode)'
    BY <2>2, BinaryMore DEF HasBin
  <2>4. BuildingOK'
    BY <2>1, <2>3 DEF SuiteInv, BuildingOK
  <2> QED
    BY <2>1, <2>4, BuildingCovers
<1>3. CASE BuildDcDart
  <2>1. phase = "dcdart" /\ todo # <<>> /\ UNCHANGED <<args, nm>> /\ Modes' = Modes
    BY <1>3 DEF BuildDcDart, Phase, Modes
  <2>2. left \in Seq(ModeNames) /\ left # <<>>
    BY <2>1 DEF HarnessInv, ArgsOK
  <2>3. CASE \E said \in {{"dcdart build"}, {}} : GiveUp(said)
    BY <2>1, <2>3, GiveUpCovers
  <2>4. CASE /\ \E sum \in Sums, heap \in BOOLEAN : \E leak \in IF heap THEN {0, 1} ELSE {0} :
                  bins' = Append(bins, Binary("dcdart", Head(left), sum, TRUE, leak, nm /\ heap))
             /\ left' = Tail(left)
             /\ phase' = IF Tail(left) = <<>> THEN "identity" ELSE phase
             /\ UNCHANGED <<todo, jobs, rows, notes, fatal>>
    <3>1. Head(left) \in ModeNames
      BY <2>2
    <3>2. PICK sum \in Sums, heap \in BOOLEAN : \E leak \in IF heap THEN {0, 1} ELSE {0} :
                  bins' = Append(bins, Binary("dcdart", Head(left), sum, TRUE, leak, nm /\ heap))
      BY <2>4
    <3>3. PICK leak \in IF heap THEN {0, 1} ELSE {0} :
                  bins' = Append(bins, Binary("dcdart", Head(left), sum, TRUE, leak, nm /\ heap))
      BY <3>2
    <3>4. PICK k \in Kernels : bins' = Append(bins, k) /\ k.side = "dcdart" /\ k.mode = Head(left)
      <4>1. Binary("dcdart", Head(left), sum, TRUE, leak, nm /\ heap) \in Kernels
        BY <3>1, <3>3 DEF Binary, Kernels, Sides
      <4> QED
        BY <3>3, <4>1 DEF Binary
    <3>5. /\ \A side, mode : HasBin(side, mode) => HasBin(side, mode)'
          /\ HasBin("dcdart", k.mode)'
      BY <3>4, BinaryMore DEF HasBin
    <3>6. \A mode \in Range(left) : mode = Head(left) \/ mode \in Range(Tail(left))
      BY <2>2, HeadOrTail
    <3>7. Tail(left) = <<>> => Range(Tail(left)) = {}
      BY DEF Range
    <3>8. /\ HasBin("c", "-")
          /\ \A i \in DOMAIN Modes : HasBin("dcdart", Modes[i]) \/ Modes[i] \in Range(left)
      BY <2>1 DEF SuiteInv, BuildingOK
    <3>9. ASSUME NEW i \in DOMAIN Modes
          PROVE  HasBin("dcdart", Modes[i])' \/ (Tail(left) # <<>> /\ Modes[i] \in Range(Tail(left)))
      <4>1. CASE Modes[i] = Head(left)
        BY <2>1, <3>4, <3>5, <4>1 DEF HasBin
      <4>2. CASE Modes[i] # Head(left)
        BY <2>1, <3>5, <3>6, <3>7, <3>8, <4>2
      <4> QED
        BY <4>1, <4>2
    <3>10. BuildingOK'
      BY <2>1, <2>4, <3>5, <3>8, <3>9 DEF BuildingOK
    <3> QED
      BY <2>1, <2>4, <3>10, BuildingCovers
  <2> QED
    BY <1>3, <2>3, <2>4 DEF BuildDcDart
<1>4. CASE CheckIdentity
  <2>1. phase = "identity" /\ phase' = "aot" /\ todo # <<>> /\ UNCHANGED <<args, todo, left, bins, rows>> /\ Modes' = Modes
    BY <1>4 DEF CheckIdentity, Phase, Modes
  <2>2. BuildingOK'
    BY <2>1 DEF SuiteInv, BuildingOK, HasBin
  <2> QED
    BY <2>1, <2>2, BuildingCovers
<1> QED
  BY <1>1, <1>2, <1>3, <1>4

\* Every binary becomes a job.
LEMMA BuildAotCovers ==
  ASSUME HarnessInv, SuiteInv, BuildAot
  PROVE  SuiteInv'
<1> DEFINE stable == IF prechecked THEN <<>> ELSE << [what |-> "batch a", bin |-> bins'[1]] >>
           timed  == [i \in DOMAIN bins' |-> [what |-> bins'[i].side, bin |-> bins'[i]]]
<1>1. /\ phase = "aot" /\ phase' = "time" /\ todo # <<>> /\ UNCHANGED <<args, todo, rows>> /\ Modes' = Modes
      /\ jobs' = stable \o timed
  BY DEF BuildAot, Phase, Modes
<1>2. bins' = bins \/ \E k \in Kernels : bins' = Append(bins, k)
  BY DEF BuildAot, Binary, Kernels, Sides
<1>3. \A side, mode : HasBin(side, mode) => HasBin(side, mode)'
  BY <1>2, BinaryMore DEF HasBin
<1>4. DOMAIN bins' = 1 .. Len(bins') /\ Len(bins') \in Nat
  <2>1. bins \in Seq(Kernels)
    BY DEF HarnessInv, BinsOK
  <2> QED
    BY <1>2, <2>1
<1>5. stable = <<>> \/ \E x : stable = <<x>>
  OBVIOUS
<1>6. \A i \in DOMAIN bins' : \E n \in DOMAIN jobs' : jobs'[n] = timed[i]
  <2>1. Len(timed) = Len(bins') /\ DOMAIN timed = DOMAIN bins' /\ timed \in Seq(Range(timed))
    BY <1>4 DEF Range
  <2>2. \E S : stable \in Seq(S) /\ timed \in Seq(S)
    <3>1. \A x : <<x>> \in Seq(Range(timed) \cup {x}) /\ timed \in Seq(Range(timed) \cup {x})
      BY <2>1
    <3>2. <<>> \in Seq(Range(timed))
      OBVIOUS
    <3> QED
      BY <1>5, <2>1, <3>1, <3>2
  <2> HIDE DEF stable, timed
  <2>3. ASSUME NEW i \in DOMAIN bins' PROVE \E n \in DOMAIN jobs' : jobs'[n] = timed[i]
    <3>1. i + Len(stable) \in DOMAIN jobs' /\ jobs'[i + Len(stable)] = timed[i]
      BY <1>1, <1>4, <2>1, <2>2, <2>3
    <3> QED
      BY <3>1
  <2> QED
    BY <2>3
<1>7. \A side, mode : HasBin(side, mode)' => \E n \in DOMAIN jobs' : jobs'[n].what = side /\ jobs'[n].bin.mode = mode
  BY <1>6 DEF HasBin
<1>8. HasBin("c", "-")' /\ \A i \in DOMAIN Modes : HasBin("dcdart", Modes[i])'
  BY <1>1, <1>3 DEF SuiteInv, BuildingOK
<1>9. Accounted("c", "-")' /\ \A i \in DOMAIN Modes' : Accounted("dcdart", Modes[i])'
  <2> HIDE DEF stable, timed
  <2>1. Accounted("c", "-")'
    BY <1>7, <1>8 DEF Accounted
  <2>2. ASSUME NEW i \in DOMAIN Modes' PROVE Accounted("dcdart", Modes[i])'
    BY <1>1, <1>7, <1>8, <2>2 DEF Accounted
  <2> QED
    BY <2>1, <2>2
<1> QED
  <2>1. \A b \in Range(Benches)' : Covered(b)' \/ b \in Range(todo)'
    BY <1>1, RowsGrow DEF SuiteInv, Benches
  <2> QED
    BY <1>1, <1>9, <2>1 DEF SuiteInv, Reported, BuildingOK

\* While it is timed: what is done has left a row, or the list still has it.
LEMMA TimingCovers ==
  ASSUME HarnessInv, SuiteInv, phase = "time", UNCHANGED <<args, todo, phase>>, rows \subseteq rows',
         \A side \in {"c", "dcdart"} : \A mode : Accounted(side, mode) => Accounted(side, mode)'
  PROVE  SuiteInv'
<1>1. Modes' = Modes /\ Benches' = Benches
  BY DEF Modes, Benches
<1>2. \A b \in Range(Benches) : Covered(b) => Covered(b)'
  BY RowsGrow
<1> QED
  BY <1>1, <1>2 DEF SuiteInv, Reported, BuildingOK

\* A job that is done is accounted for when it left a row.
LEMMA JobDone ==
  ASSUME HarnessInv, SuiteInv, jobs # <<>>, jobs' = Tail(jobs), UNCHANGED <<args, todo>>, rows \subseteq rows',
         NEW side \in Sides, NEW mode, Accounted(side, mode),
         Job.what = side /\ Kernel.mode = mode => Failed(bench)' \/ RowOf(bench, side, mode)' # {}
  PROVE  Accounted(side, mode)'
<1>1. bench' = bench
  BY DEF bench
<1>2. CASE Failed(bench) \/ RowOf(bench, side, mode) # {}
  BY <1>1, <1>2, RowsGrow DEF Accounted, Failed, RowOf
<1>3. CASE \E i \in DOMAIN jobs : jobs[i].what = side /\ jobs[i].bin.mode = mode
  <2>1. PICK i \in DOMAIN jobs : jobs[i].what = side /\ jobs[i].bin.mode = mode
    BY <1>3
  <2>2. CASE i = 1
    BY <1>1, <2>1, <2>2 DEF Job, Kernel, Accounted, Failed, RowOf
  <2>3. CASE i # 1
    <3>1. i - 1 \in DOMAIN Tail(jobs) /\ Tail(jobs)[i - 1] = jobs[i]
      BY <2>1, <2>3 DEF HarnessInv, JobsOK
    <3> QED
      BY <2>1, <3>1 DEF Accounted
  <2> QED
    BY <2>2, <2>3
<1> QED
  BY <1>2, <1>3 DEF Accounted

\* What becomes of a timed binary: it leaves a row, or it is not needed.
LEMMA TimedCover ==
  ASSUME HarnessInv, SuiteInv, TimedC \/ TimedTrap \/ TimedDcDart \/ TimedAot
  PROVE  SuiteInv'
<1>1. phase = "time" /\ todo # <<>> /\ jobs # <<>> /\ args' = args /\ rows \subseteq rows'
  BY DEF TimedC, TimedTrap, TimedDcDart, TimedAot, Returned, Phase, GiveUp, RecordFailed, Record
<1>2. CASE GiveUp({"c run"})
  BY <1>1, <1>2, GiveUpCovers
<1>3. CASE Done(Tail(jobs)) /\ UNCHANGED <<todo, phase>> /\ (Job.what \in {"c", "dcdart"} => Record \/ RecordFailed)
  <2>1. jobs' = Tail(jobs) /\ UNCHANGED <<args, todo, phase>> /\ bench' = bench
    BY <1>1, <1>3 DEF Done, bench
  <2>2. Job.what \in {"c", "dcdart"} => Job.what = Kernel.side
    BY <1>1, CurrentJob DEF HarnessInv, Sides
  <2>3. RecordFailed => Failed(bench)'
    <3> DEFINE row == [bench |-> bench, side |-> "FAILED", mode |-> "-"]
    <3>1. RecordFailed => row \in rows'
      BY DEF RecordFailed
    <3>2. row.bench = bench /\ row.side = "FAILED"
      OBVIOUS
    <3> HIDE DEF row
    <3> QED
      BY <2>1, <3>1, <3>2 DEF Failed
  <2>4. ASSUME NEW side \in {"c", "dcdart"}, NEW mode, Accounted(side, mode)
        PROVE  Accounted(side, mode)'
    <3>1. ASSUME Record, side = Kernel.side, mode = Kernel.mode
          PROVE  RowOf(bench, side, mode)' # {}
      <4>1. PICK quality \in Qualities[bench] :
              rows' = rows \cup {[bench |-> bench, side |-> Kernel.side, mode |-> Kernel.mode, sum |-> tb.seen,
                                  n |-> tb.n, ok |-> quality.ok, sem |-> quality.sem, leak |-> Leaks]}
        BY <3>1 DEF Record
      <4> DEFINE row == [bench |-> bench, side |-> Kernel.side, mode |-> Kernel.mode, sum |-> tb.seen,
                         n |-> tb.n, ok |-> quality.ok, sem |-> quality.sem, leak |-> Leaks]
      <4>2. row \in rows'
        BY <4>1
      <4>3. row.bench = bench /\ row.side = side /\ row.mode = mode
        BY <3>1
      <4> HIDE DEF row
      <4> QED
        BY <4>2, <4>3, <2>1 DEF RowOf
    <3>2. Job.what = side /\ Kernel.mode = mode => Failed(bench)' \/ RowOf(bench, side, mode)' # {}
      BY <1>3, <2>2, <2>3, <3>1
    <3> QED
      BY <1>1, <2>1, <2>4, <3>2, JobDone DEF Sides
  <2> QED
    BY <1>1, <2>1, <2>4, TimingCovers
<1>4. TimedC \/ TimedDcDart => GiveUp({"c run"}) \/ Record \/ RecordFailed
  BY DEF TimedC, TimedDcDart
<1>5. TimedTrap \/ TimedAot => Job.what \notin {"c", "dcdart"}
  BY DEF TimedTrap, TimedAot, Returned
<1>6. GiveUp({"c run"}) \/ (Done(Tail(jobs)) /\ UNCHANGED <<todo, phase>>)
  BY DEF TimedC, TimedTrap, TimedDcDart, TimedAot
<1> QED
  BY <1>2, <1>3, <1>4, <1>5, <1>6

\* A batch of the precheck leaves the other jobs as they are.
LEMMA PrecheckCovers ==
  ASSUME HarnessInv, SuiteInv, Precheck
  PROVE  SuiteInv'
<1>1. /\ phase = "time" /\ jobs # <<>> /\ Job.what \notin {"c", "dcdart"}
      /\ UNCHANGED <<args, todo, phase, rows>> /\ bench' = bench
  BY DEF Precheck, Returned, Phase, bench
<1>2. Job \in JobList /\ jobs \in Seq(JobList)
  BY <1>1, CurrentJob DEF HarnessInv, JobsOK
<1>3. ASSUME NEW side \in {"c", "dcdart"}, NEW mode, Accounted(side, mode)
      PROVE  Accounted(side, mode)'
  <2>1. CASE Done(Tail(jobs))
    BY <1>1, <1>3, <2>1, JobDone DEF Done, Sides
  <2>2. CASE Done(<<[Job EXCEPT !.what = "batch b"]>> \o Tail(jobs))
    <3>1. PICK x : x = [Job EXCEPT !.what = "batch b"]
      OBVIOUS
    <3>2. x \in JobList
      BY <1>2, <3>1 DEF JobList, Batches, Sides
    <3>3. jobs' = <<x>> \o Tail(jobs)
      BY <2>2, <3>1 DEF Done
    <3>4. \A i \in DOMAIN jobs : i # 1 => i \in DOMAIN jobs' /\ jobs'[i] = jobs[i]
      BY <1>1, <1>2, <3>2, <3>3, OtherHead
    <3>5. jobs[1].what # side
      BY <1>1, <1>2, <1>3 DEF Job
    <3> QED
      BY <1>1, <1>3, <3>4, <3>5 DEF Accounted, Failed, RowOf
  <2> QED
    BY <2>1, <2>2 DEF Precheck, BatchReturns
<1> QED
  BY <1>1, <1>3, TimingCovers

\* Every action of the harness keeps the benchmarks covered.
LEMMA StepCovers == HarnessInv /\ SuiteInv /\ [Next]_benchVars => SuiteInv'
<1> SUFFICES ASSUME HarnessInv, SuiteInv, [Next]_benchVars PROVE SuiteInv'
  OBVIOUS
<1>1. CASE BuildC \/ BuildTrap \/ BuildDcDart \/ CheckIdentity
  BY <1>1, BuildsCover
<1>2. CASE BuildAot
  BY <1>2, BuildAotCovers
<1>3. CASE Warmup \/ TimedCall \/ EndOfMain \/ Crash
  <2>1. phase = "time" /\ UNCHANGED <<args, todo, phase, jobs, rows>>
    BY <1>3 DEF Warmup, TimedCall, EndOfMain, Crash, InProcess, Phase
  <2>2. \A side, mode : Accounted(side, mode) => Accounted(side, mode)'
    BY <2>1 DEF Accounted, Failed, RowOf, bench
  <2> QED
    BY <2>1, <2>2, TimingCovers
<1>4. CASE Precheck
  BY <1>4, PrecheckCovers
<1>5. CASE TimedC \/ TimedTrap \/ TimedDcDart \/ TimedAot
  BY <1>5, TimedCover
<1>6. CASE EndOfBench
  <2>1. phase = "time" /\ todo # <<>> /\ jobs = <<>> /\ NextBench /\ UNCHANGED <<args, rows>>
    BY <1>6 DEF EndOfBench, Phase
  <2>2. Covered(bench)
    BY <2>1 DEF SuiteInv, Accounted, Covered
  <2>3. PICK done : done = bench
    OBVIOUS
  <2>4. Covered(done)'
    BY <2>1, <2>2, <2>3, RowsGrow
  <2> QED
    BY <2>1, <2>3, <2>4, NextBenchCovers
<1>7. CASE Report
  <2>1. todo = <<>> /\ phase' = "reported" /\ UNCHANGED <<args, todo, rows>>
    BY <1>7 DEF Report
  <2>2. \A b \in Range(Benches)' : Covered(b)' \/ b \in Range(todo)'
    BY <2>1, RowsGrow DEF SuiteInv, Benches
  <2> QED
    BY <2>1, <2>2 DEF SuiteInv, BuildingOK, Reported
<1>8. CASE UNCHANGED benchVars
  <2>1. UNCHANGED <<args, todo, phase, left, bins, jobs, rows>>
    BY <1>8 DEF benchVars
  <2>2. \A b \in Range(Benches)' : Covered(b)' \/ b \in Range(todo)'
    BY <2>1, RowsGrow DEF SuiteInv, Benches
  <2>3. \A side, mode : Accounted(side, mode) => Accounted(side, mode)'
    BY <2>1 DEF Accounted, Failed, RowOf, bench
  <2>4. BuildingOK' /\ Modes' = Modes
    BY <2>1 DEF SuiteInv, BuildingOK, HasBin, Modes
  <2> QED
    BY <2>1, <2>2, <2>3, <2>4 DEF SuiteInv, Reported
<1> QED
  BY <1>1, <1>2, <1>3, <1>4, <1>5, <1>6, <1>7, <1>8 DEF Next

\* When the script starts, every benchmark is still to do.
LEMMA InitCovers == Init => SuiteInv
<1> SUFFICES ASSUME Init PROVE SuiteInv
  OBVIOUS
<1>1. todo \in Seq(DOMAIN SuiteOf)
  BY HarnessAssumption DEF Init, Benches
<1> QED
  BY <1>1 DEF Init, SuiteInv, Reported, BuildingOK

\* When the report is made, every benchmark of the command line has a row that
\* says it failed, or its row of C and one of DCDart for every mode.
THEOREM HarnessNothingVanishes == Spec => []NothingVanishes
<1>1. SuiteInv => NothingVanishes
  <2> SUFFICES ASSUME SuiteInv PROVE NothingVanishes
    OBVIOUS
  <2>1. Reported => Range(todo) = {}
    BY DEF SuiteInv, Range
  <2> QED
    BY <2>1 DEF SuiteInv, NothingVanishes, Covered
<1>2. Spec => []SuiteInv
  BY HarnessInvariant, InitCovers, StepCovers, PTL DEF Spec
<1> QED
  BY <1>1, <1>2, PTL

-----------------------------------------------------------------------------
(* Types. *)

Remainders == {SubSeq(Benches, i, Len(Benches)) : i \in 1 .. Len(Benches) + 1}

\* No benchmark is found twice.
LEMMA BenchesOnce ==
  ASSUME args \in CommandLines
  PROVE  /\ Benches \in Seq(DOMAIN SuiteOf) /\ Len(Benches) \in Nat
         /\ \A i, j \in 1 .. Len(Benches) : Benches[i] = Benches[j] => i = j
<1>1. Benches \in Seq(DOMAIN SuiteOf)
  BY HarnessAssumption DEF Benches
<1>2. \A i, j \in DOMAIN Benches : Benches[i] = Benches[j] => i = j
  BY HarnessAssumption DEF Benches, IsInjective
<1>3. DOMAIN Benches = 1 .. Len(Benches) /\ Len(Benches) \in Nat
  BY <1>1
<1> QED
  BY <1>1, <1>2, <1>3

\* What occurs once in a sequence does not occur after its place.
LEMMA NotLater ==
  ASSUME NEW S, NEW s \in Seq(S), NEW i \in 1 .. Len(s), \A j, k \in 1 .. Len(s) : s[j] = s[k] => j = k
  PROVE  s[i] \notin Range(SubSeq(s, i + 1, Len(s)))
<1> DEFINE later == SubSeq(s, i + 1, Len(s))
<1>1. Len(s) \in Nat /\ i + 1 \in Int /\ Len(s) \in Int /\ \A k \in i + 1 .. Len(s) : s[k] \in S
  OBVIOUS
<1>2. /\ later \in Seq(S)
      /\ Len(later) = IF i + 1 <= Len(s) THEN Len(s) - (i + 1) + 1 ELSE 0
      /\ \A k \in 1 .. Len(s) - (i + 1) + 1 : later[k] = s[i + 1 + k - 1]
  BY <1>1, SubSeqProperties
<1> HIDE DEF later
<1>3. SUFFICES ASSUME NEW k \in DOMAIN later, later[k] = s[i] PROVE FALSE
  BY DEF Range, later
<1>4. k \in 1 .. Len(s) - (i + 1) + 1
  BY <1>1, <1>2
<1>5. k \in Int /\ i \in Int /\ k > 0 /\ i > 0 /\ i + k <= Len(s) /\ i + 1 + k - 1 = i + k
  BY <1>1, <1>4
<1>6. later[k] = s[i + k]
  BY <1>2, <1>4, <1>5
<1>7. i + k \in 1 .. Len(s) /\ i + k # i
  BY <1>1, <1>5
<1>8. i + k = i
  BY <1>3, <1>6, <1>7
<1> QED
  BY <1>7, <1>8

\* What is left to do is an end of the list of benchmarks, and stays one; the
\* benchmark being done is not in what comes after it.
LEMMA Remaining ==
  ASSUME args \in CommandLines, todo \in Remainders, todo # <<>>
  PROVE  Tail(todo) \in Remainders /\ bench \notin Range(Tail(todo))
<1>1. PICK i \in 1 .. Len(Benches) + 1 : todo = SubSeq(Benches, i, Len(Benches))
  BY DEF Remainders
<1>2. Benches \in Seq(DOMAIN SuiteOf) /\ Len(Benches) \in Nat
  BY BenchesOnce
<1>3. i \in 1 .. Len(Benches) /\ Len(Benches) \in i .. Len(Benches) /\ i + 1 \in 1 .. Len(Benches) + 1
  <2>1. i # Len(Benches) + 1
    BY <1>1, <1>2, SubSeqEmpty
  <2> QED
    BY <1>2, <2>1
<1>4. bench = Benches[i] /\ Tail(todo) = SubSeq(Benches, i + 1, Len(Benches))
  BY <1>1, <1>2, <1>3, HeadTailOfSubSeq DEF bench
<1>5. Benches[i] \notin Range(SubSeq(Benches, i + 1, Len(Benches)))
  BY <1>2, <1>3, BenchesOnce, NotLater
<1> QED
  BY <1>3, <1>4, <1>5 DEF Remainders

\* The parts of the type invariant.
TimerBounded == tb.run \in 0 .. Runs + 1 /\ tb.n \in 0 .. Runs /\ tb.seen \in Sums \cup {None}
ProcBounded  == proc.at \in {"warm", "timed", "end"} /\ proc.live \in 0 .. 2
FlagsOK == nm \in BOOLEAN /\ prechecked \in BOOLEAN /\ fatal \in BOOLEAN
EndsOK  == stability \in {{}, {0}, {1}} /\ exit \in {0, 3}

\* The type invariant is its parts.
LEMMA TypeParts ==
  BenchTypeOK <=> FlagsOK /\ todo \in Remainders /\ TimerBounded /\ ProcBounded /\ EndsOK
BY DEF BenchTypeOK, FlagsOK, Remainders, TimerBounded, ProcBounded, EndsOK

\* The types hold when the script starts.
LEMMA InitTypes == Init => BenchTypeOK
<1> SUFFICES ASSUME Init PROVE BenchTypeOK
  OBVIOUS
<1>1. Benches \in Seq(DOMAIN SuiteOf) /\ Len(Benches) \in Nat /\ Runs \in Nat
  BY BenchesOnce, CommandLine DEF Init
<1>2. todo \in Remainders
  <2>1. SubSeq(Benches, 1, Len(Benches)) = Benches /\ 1 \in 1 .. Len(Benches) + 1
    BY <1>1, SubSeqFull
  <2> QED
    BY <2>1 DEF Init, Remainders
<1>3. TimerBounded /\ ProcBounded
  BY <1>1 DEF Init, NewTimer, Idle, TimerBounded, ProcBounded
<1>4. FlagsOK /\ EndsOK
  BY DEF Init, FlagsOK, EndsOK
<1> QED
  BY <1>2, <1>3, <1>4, TypeParts

\* A process counts at most two calls that leak, and the timer at most the
\* runs it is to make.
LEMMA ProcessTypes ==
  ASSUME HarnessInv, TimerBounded, ProcBounded, Warmup \/ TimedCall \/ EndOfMain \/ Crash
  PROVE  TimerBounded' /\ ProcBounded'
<1>1. /\ jobs # <<>> /\ tb.out = "running" /\ args' = args
      /\ Runs \in Nat /\ Runs' = Runs
  BY CommandLine DEF Warmup, TimedCall, EndOfMain, Crash, InProcess, HarnessInv, ArgsOK, Runs
<1>2. Leaks \in {0, 1}
  BY <1>1, CurrentJob DEF HarnessInv
<1>3. /\ tb \in [run : Nat, seen : Sums \cup {None}, n : Nat, out : {"running", "returned", "failed"}]
      /\ tb.run <= Runs /\ tb.n = (IF tb.run = 0 THEN 0 ELSE tb.run - 1)
  BY <1>1 DEF HarnessInv, TimerOK
<1>4. proc \in [at : {"warm", "timed", "end"}, warm : Sums \cup {None}, live : Nat]
  BY DEF HarnessInv, ProcOK
<1>5. CASE ProcessFails
  BY <1>1, <1>3, <1>5 DEF ProcessFails, Idle, TimerBounded, ProcBounded
<1>6. CASE Warmup
  <2>1. PICK r \in Results : proc' = [at |-> "timed", warm |-> r, live |-> Leaks]
    BY <1>6 DEF Warmup
  <2>2. tb' = tb
    BY <1>6 DEF Warmup
  <2> QED
    BY <1>1, <1>2, <2>1, <2>2 DEF TimerBounded, ProcBounded
<1>7. CASE TimedCall /\ ~ProcessFails
  <2>1. proc' = [proc EXCEPT !.at = "end", !.live = @ + Leaks] /\ tb' = tb
    BY <1>7 DEF TimedCall
  <2>2. proc.live = Leaks
    BY <1>7 DEF TimedCall, InProcess, HarnessInv, ProcOK
  <2>3. proc'.at = "end" /\ proc'.live = Leaks + Leaks
    BY <1>4, <2>1, <2>2
  <2> QED
    BY <1>1, <1>2, <2>1, <2>3 DEF TimerBounded, ProcBounded
<1>8. CASE EndOfMain /\ RunSucceeds(proc.warm) /\ proc' = Idle
  <2>1. proc.warm \in Sums
    BY <1>8 DEF EndOfMain, InProcess, HarnessInv, ProcOK
  <2>2. TimerBounded'
    <3>1. CASE tb.run = 0
      BY <1>1, <1>3, <1>8, <3>1 DEF RunSucceeds, TimerBounded
    <3>2. CASE tb.run # 0 /\ tb.seen \notin {None, proc.warm}
      <4>1. tb' = [tb EXCEPT !.n = @ + 1, !.out = "failed"]
        BY <1>8, <3>2 DEF RunSucceeds
      <4>2. tb'.run = tb.run /\ tb'.seen = tb.seen /\ tb'.n = tb.n + 1
        BY <1>3, <4>1
      <4> QED
        BY <1>1, <1>3, <3>2, <4>2 DEF TimerBounded
    <3>3. CASE tb.run # 0 /\ tb.seen \in {None, proc.warm}
      <4>1. tb' = [run |-> tb.run + 1, seen |-> proc.warm, n |-> tb.n + 1,
                   out |-> IF tb.run = Runs THEN "returned" ELSE "running"]
        BY <1>8, <3>3 DEF RunSucceeds
      <4>2. tb'.run = tb.run + 1 /\ tb'.seen = proc.warm /\ tb'.n = tb.n + 1
        BY <4>1
      <4> QED
        BY <1>1, <1>3, <2>1, <3>3, <4>2 DEF TimerBounded
    <3> QED
      BY <3>1, <3>2, <3>3
  <2> QED
    BY <1>8, <2>2 DEF Idle, ProcBounded
<1> QED
  BY <1>5, <1>6, <1>7, <1>8 DEF TimedCall, EndOfMain, Crash

\* The other actions leave the process alone, and the timer but for a new one.
LEMMA OtherTypes ==
  ASSUME HarnessInv, TimerBounded, ProcBounded, args' = args, proc' = proc, tb' = tb \/ tb' = NewTimer
  PROVE  TimerBounded' /\ ProcBounded'
<1>1. Runs \in Nat /\ Runs' = Runs
  BY CommandLine DEF HarnessInv, ArgsOK, Runs
<1> QED
  BY <1>1 DEF TimerBounded, ProcBounded, NewTimer

\* Every action keeps the types.
LEMMA StepTypes == HarnessInv /\ BenchTypeOK /\ [Next]_benchVars => BenchTypeOK'
<1> SUFFICES ASSUME HarnessInv, BenchTypeOK, [Next]_benchVars PROVE BenchTypeOK'
  OBVIOUS
<1> DEFINE building == BuildC \/ BuildTrap \/ BuildDcDart \/ CheckIdentity \/ BuildAot
           timed    == Precheck \/ TimedC \/ TimedTrap \/ TimedDcDart \/ TimedAot \/ EndOfBench \/ Report
           running  == Warmup \/ TimedCall \/ EndOfMain \/ Crash
<1> USE TypeParts
<1>1. building \/ timed \/ running \/ UNCHANGED benchVars
  BY DEF Next
<1>2. args' = args /\ nm' = nm /\ args \in CommandLines
  BY <1>1 DEF HarnessInv, ArgsOK, benchVars, BuildC, BuildTrap, BuildDcDart, CheckIdentity, BuildAot,
     Precheck, TimedC, TimedTrap, TimedDcDart, TimedAot, EndOfBench, Report,
     Warmup, TimedCall, EndOfMain, Crash
<1>3. todo' \in Remainders'
  <2>1. todo' = todo \/ (todo # <<>> /\ todo' = Tail(todo))
    BY <1>1 DEF benchVars, BuildC, BuildTrap, BuildDcDart, CheckIdentity, BuildAot,
       Precheck, TimedC, TimedTrap, TimedDcDart, TimedAot, EndOfBench, Report,
       Warmup, TimedCall, EndOfMain, Crash, GiveUp, NextBench, Phase, Returned
  <2>2. Remainders' = Remainders
    BY <1>2 DEF Remainders, Benches
  <2> QED
    BY <1>2, <2>1, <2>2, Remaining
<1>4. TimerBounded' /\ ProcBounded'
  <2>1. CASE running
    BY <2>1, ProcessTypes
  <2>2. CASE ~running
    <3>1. proc' = proc /\ (tb' = tb \/ tb' = NewTimer)
      BY <1>1, <2>2 DEF benchVars, BuildC, BuildTrap, BuildDcDart, CheckIdentity, BuildAot,
         Precheck, BatchReturns, TimedC, TimedTrap, TimedDcDart, TimedAot, EndOfBench, Report, Done
    <3> QED
      BY <1>2, <3>1, OtherTypes
  <2> QED
    BY <2>1, <2>2
<1>5. FlagsOK'
  <2>1. fatal' = fatal \/ fatal' = TRUE
    BY <1>1 DEF benchVars, BuildC, BuildTrap, BuildDcDart, CheckIdentity, BuildAot,
       Precheck, TimedC, TimedTrap, TimedDcDart, TimedAot, EndOfBench, Report,
       Warmup, TimedCall, EndOfMain, Crash, GiveUp, RecordFailed
  <2>2. prechecked' = prechecked \/ prechecked' = TRUE
    BY <1>1 DEF benchVars, BuildC, BuildTrap, BuildDcDart, CheckIdentity, BuildAot,
       Precheck, BatchReturns, TimedC, TimedTrap, TimedDcDart, TimedAot, EndOfBench, Report,
       Warmup, TimedCall, EndOfMain, Crash
  <2> QED
    BY <1>2, <2>1, <2>2 DEF FlagsOK
<1>6. EndsOK'
  <2>1. stability' = stability \/ stability' \in {{0}, {1}}
    BY <1>1 DEF benchVars, BuildC, BuildTrap, BuildDcDart, CheckIdentity, BuildAot,
       Precheck, BatchReturns, TimedC, TimedTrap, TimedDcDart, TimedAot, EndOfBench, Report,
       Warmup, TimedCall, EndOfMain, Crash
  <2>2. exit' = exit \/ exit' \in {0, 3}
    BY <1>1 DEF benchVars, BuildC, BuildTrap, BuildDcDart, CheckIdentity, BuildAot,
       Precheck, TimedC, TimedTrap, TimedDcDart, TimedAot, EndOfBench, Report,
       Warmup, TimedCall, EndOfMain, Crash
  <2> QED
    BY <2>1, <2>2 DEF EndsOK
<1> QED
  BY <1>3, <1>4, <1>5, <1>6 DEF BenchTypeOK, FlagsOK, Remainders, TimerBounded, ProcBounded, EndsOK

\* The script's variables keep their types: what is left to do is always an end
\* of the list of benchmarks, and no more samples are counted than runs made.
THEOREM HarnessTypeCorrect == Spec => []BenchTypeOK
BY HarnessInvariant, InitTypes, StepTypes, PTL DEF Spec

-----------------------------------------------------------------------------
(* What is compared with the C baseline. *)

\* Of the binaries the first is the baseline, and no other.
BaselineBuilt ==
  phase \in {"ctrap", "dcdart", "identity", "aot"} =>
    bins # <<>> /\ \A i \in DOMAIN bins : bins[i].side = "c" <=> i = 1

\* The baseline is timed after the precheck and before the others.
BaselineNext(js) ==
  \E i \in DOMAIN js : \A j \in DOMAIN js :
    js[j].what \in (IF j < i THEN Batches ELSE IF j = i THEN {"c"} ELSE Sides \ {"c"})

\* Only other binaries are still to be timed.
OthersOnly(js) == \A j \in DOMAIN js : js[j].what \in Sides \ {"c"}

\* Nothing of the benchmark is recorded before its baseline is.
BaselineFirst ==
  phase = "time" =>
    \/ BaselineNext(jobs) /\ \A r \in rows : r.bench # bench
    \/ OthersOnly(jobs) /\ \E c \in rows : c.bench = bench /\ c.side = "c"

\* Rows are of what has been done, or is being timed.
RowsOfDone == \A r \in rows : r.bench \in Range(todo) => r.bench = bench /\ phase = "time"

\* A benchmark has one row of its baseline.
OneBaseline ==
  \A r \in rows, s \in rows : r.side = "c" /\ s.side = "c" /\ r.bench = s.bench => r = s

TrapAgrees ==
  \A t \in rows, c \in rows : t.side = "ctrap" /\ c.side = "c" /\ t.bench = c.bench => t.sum = c.sum

RowsAgree == OneBaseline /\ TrapAgrees /\ DisagreementNoted

BaselineInv == BaselineBuilt /\ BaselineFirst /\ RowsOfDone /\ RowsAgree

\* A sum of a row of the baseline is the sum others are compared with.
LEMMA TheBaseline ==
  ASSUME OneBaseline, NEW c \in rows, c.bench = bench, c.side = "c"
  PROVE  SumOfC = c.sum
<1> DEFINE row == CHOOSE r \in rows : r.bench = bench /\ r.side = "c"
<1>1. row \in rows /\ row.bench = bench /\ row.side = "c"
  OBVIOUS
<1>2. row = c
  BY <1>1 DEF OneBaseline
<1> QED
  BY <1>2 DEF SumOfC

FailedRow == [bench |-> bench, side |-> "FAILED", mode |-> "-"]

\* Rows that say a benchmark failed are compared with nothing.
LEMMA AgreeAsBefore ==
  ASSUME RowsAgree, rows' = rows \/ rows' = rows \cup {FailedRow},
         notes \subseteq notes', fatal => fatal'
  PROVE  RowsAgree'
<1>1. \A r \in rows' : r.side # "FAILED" => r \in rows
  BY DEF FailedRow
<1>2. OneBaseline'
  BY <1>1 DEF RowsAgree, OneBaseline
<1>3. TrapAgrees'
  BY <1>1 DEF RowsAgree, TrapAgrees
<1>4. DisagreementNoted'
  <2> SUFFICES ASSUME NEW r \in rows', NEW c \in rows', r.side = "dcdart", c.side = "c", r.bench = c.bench,
                      r.sum # c.sum
               PROVE  fatal' /\ [bench |-> r.bench, about |-> "checksum"] \in notes'
    BY DEF DisagreementNoted
  <2>1. r \in rows /\ c \in rows
    BY <1>1
  <2>2. fatal /\ [bench |-> r.bench, about |-> "checksum"] \in notes
    BY <2>1 DEF RowsAgree, DisagreementNoted
  <2> QED
    BY <2>2
<1> QED
  BY <1>2, <1>3, <1>4 DEF RowsAgree

\* What is left to do is a list of benchmarks, and the one being done is in it.
LEMMA TodoOK ==
  ASSUME HarnessInv, BenchTypeOK
  PROVE  todo \in Seq(DOMAIN SuiteOf) /\ (todo # <<>> => bench \in Range(todo))
<1>1. PICK i \in 1 .. Len(Benches) + 1 : todo = SubSeq(Benches, i, Len(Benches))
  BY TypeParts DEF Remainders
<1>2. Benches \in Seq(DOMAIN SuiteOf) /\ Len(Benches) \in Nat
  BY BenchesOnce DEF HarnessInv, ArgsOK
<1>3. i \in Int /\ Len(Benches) \in Int /\ \A k \in i .. Len(Benches) : Benches[k] \in DOMAIN SuiteOf
  BY <1>2
<1>4. todo \in Seq(DOMAIN SuiteOf)
  BY <1>1, <1>3, SubSeqProperties
<1>5. todo # <<>> => 1 \in DOMAIN todo /\ bench = todo[1]
  BY <1>4 DEF bench
<1> QED
  BY <1>4, <1>5 DEF Range

\* The next benchmark, after a failure or after the last job.
LEMMA NextBaseline ==
  ASSUME HarnessInv, BenchTypeOK, BaselineInv, NextBench, todo # <<>>, args' = args,
         rows' = rows \/ rows' = rows \cup {FailedRow}, notes \subseteq notes', fatal => fatal'
  PROVE  BaselineInv'
<1>1. phase' = "c" /\ todo' = Tail(todo)
  BY DEF NextBench
<1>2. bench \notin Range(Tail(todo)) /\ Range(Tail(todo)) \subseteq Range(todo)
  <2>1. todo \in Seq(DOMAIN SuiteOf)
    BY TodoOK
  <2>2. \A k \in DOMAIN Tail(todo) : k + 1 \in DOMAIN todo /\ Tail(todo)[k] = todo[k + 1]
    BY <2>1
  <2> QED
    BY <2>2, Remaining, TypeParts DEF HarnessInv, ArgsOK, Range
<1>3. RowsOfDone'
  <2> SUFFICES ASSUME NEW r \in rows', r.bench \in Range(Tail(todo)) PROVE FALSE
    BY <1>1 DEF RowsOfDone
  <2>1. CASE r \in rows
    BY <1>2, <2>1 DEF BaselineInv, RowsOfDone
  <2>2. CASE r = FailedRow
    BY <1>2, <2>2 DEF FailedRow
  <2> QED
    BY <2>1, <2>2
<1> QED
  BY <1>1, <1>3, AgreeAsBefore DEF BaselineInv, BaselineBuilt, BaselineFirst

\* While it is built nothing is recorded.
LEMMA BuildingBaseline ==
  ASSUME BaselineInv, UNCHANGED <<todo, rows>>, notes \subseteq notes', fatal => fatal',
         phase # "time", phase' # "time", BaselineBuilt'
  PROVE  BaselineInv'
<1>1. RowsOfDone'
  BY DEF BaselineInv, RowsOfDone
<1> QED
  BY <1>1, AgreeAsBefore DEF BaselineInv, BaselineFirst

\* The other binaries come after it.
LEMMA BuiltMore ==
  ASSUME HarnessInv, BaselineInv, phase \in {"ctrap", "dcdart", "identity", "aot"},
         bins' = bins \/ \E k \in Kernels : k.side # "c" /\ bins' = Append(bins, k)
  PROVE  bins' # <<>> /\ \A i \in DOMAIN bins' : bins'[i].side = "c" <=> i = 1
<1>1. bins \in Seq(Kernels) /\ bins # <<>> /\ \A i \in DOMAIN bins : bins[i].side = "c" <=> i = 1
  BY DEF HarnessInv, BinsOK, BaselineInv, BaselineBuilt
<1>2. CASE \E k \in Kernels : k.side # "c" /\ bins' = Append(bins, k)
  <2>1. PICK k \in Kernels : k.side # "c" /\ bins' = Append(bins, k)
    BY <1>2
  <2>2. /\ Len(bins) \in Nat /\ Len(bins) > 0 /\ DOMAIN bins = 1 .. Len(bins)
        /\ DOMAIN bins' = 1 .. Len(bins) + 1 /\ bins'[Len(bins) + 1] = k
        /\ \A i \in 1 .. Len(bins) : bins'[i] = bins[i]
    BY <1>1, <2>1
  <2>3. ASSUME NEW i \in DOMAIN bins' PROVE bins'[i].side = "c" <=> i = 1
    <3>1. i \in 1 .. Len(bins) \/ (i = Len(bins) + 1 /\ i # 1)
      BY <2>2
    <3> QED
      BY <1>1, <2>1, <2>2, <3>1
  <2> QED
    BY <2>2, <2>3
<1> QED
  BY <1>1, <1>2

\* The actions that build.
LEMMA BuildsBaseline ==
  ASSUME HarnessInv, BenchTypeOK, BaselineInv, BuildC \/ BuildTrap \/ BuildDcDart \/ CheckIdentity
  PROVE  BaselineInv'
<1>1. \A said : GiveUp(said) /\ todo # <<>> /\ args' = args => BaselineInv'
  BY NextBaseline DEF GiveUp, RecordFailed, FailedRow
<1>2. CASE BuildC
  <2>1. CASE GiveUp({"c"})
    BY <1>1, <1>2, <2>1 DEF BuildC, Phase
  <2>2. CASE /\ \E steady \in BOOLEAN : bins' = <<Binary("c", "-", CSum, steady, 0, FALSE)>>
             /\ phase' = "ctrap" /\ UNCHANGED <<todo, rows, notes, fatal>>
    <3>1. BaselineBuilt'
      BY <2>2 DEF BaselineBuilt, Binary
    <3> QED
      BY <1>2, <2>2, <3>1, BuildingBaseline DEF BuildC, Phase
  <2> QED
    BY <1>2, <2>1, <2>2 DEF BuildC
<1>3. ASSUME phase \in {"ctrap", "dcdart", "identity"}, phase' # "time", UNCHANGED <<todo, rows>>,
             notes \subseteq notes', fatal => fatal',
             bins' = bins \/ \E k \in Kernels : k.side # "c" /\ bins' = Append(bins, k)
      PROVE  BaselineInv'
  <2>1. BaselineBuilt'
    BY <1>3, BuiltMore DEF BaselineBuilt
  <2> QED
    BY <1>3, <2>1, BuildingBaseline
<1>4. CASE BuildTrap
  <2>1. \A sum \in Sums : LET k == Binary("ctrap", "-", sum, TRUE, 0, FALSE) IN k \in Kernels /\ k.side # "c"
    BY DEF Binary, Kernels, Sides
  <2>2. bins' = bins \/ \E k \in Kernels : k.side # "c" /\ bins' = Append(bins, k)
    BY <1>4, <2>1 DEF BuildTrap
  <2> QED
    BY <1>3, <1>4, <2>2 DEF BuildTrap, Phase
<1>5. CASE BuildDcDart
  <2>1. left \in Seq(ModeNames) /\ left # <<>>
    BY <1>5 DEF HarnessInv, ArgsOK, BuildDcDart, Phase
  <2>2. Head(left) \in ModeNames
    BY <2>1
  <2>3. CASE \E said \in {{"dcdart build"}, {}} : GiveUp(said)
    BY <1>1, <1>5, <2>3 DEF BuildDcDart, Phase
  <2>4. CASE /\ \E sum \in Sums, heap \in BOOLEAN : \E leak \in IF heap THEN {0, 1} ELSE {0} :
                  bins' = Append(bins, Binary("dcdart", Head(left), sum, TRUE, leak, nm /\ heap))
             /\ left' = Tail(left)
             /\ phase' = IF Tail(left) = <<>> THEN "identity" ELSE phase
             /\ UNCHANGED <<todo, jobs, rows, notes, fatal>>
    <3>1. PICK sum \in Sums, heap \in BOOLEAN : \E leak \in IF heap THEN {0, 1} ELSE {0} :
                  bins' = Append(bins, Binary("dcdart", Head(left), sum, TRUE, leak, nm /\ heap))
      BY <2>4
    <3>2. PICK leak \in IF heap THEN {0, 1} ELSE {0} :
                  bins' = Append(bins, Binary("dcdart", Head(left), sum, TRUE, leak, nm /\ heap))
      BY <3>1
    <3>3. LET k == Binary("dcdart", Head(left), sum, TRUE, leak, nm /\ heap) IN k \in Kernels /\ k.side # "c"
      BY <2>2, <3>2 DEF Binary, Kernels, Sides
    <3>4. \E k \in Kernels : k.side # "c" /\ bins' = Append(bins, k)
      BY <3>2, <3>3
    <3> QED
      BY <1>3, <1>5, <2>4, <3>4 DEF BuildDcDart, Phase
  <2> QED
    BY <1>5, <2>3, <2>4 DEF BuildDcDart
<1>6. CASE CheckIdentity
  <2>1. fatal => fatal'
    BY <1>6 DEF CheckIdentity
  <2> QED
    BY <1>3, <1>6, <2>1 DEF CheckIdentity, Phase
<1> QED
  BY <1>2, <1>4, <1>5, <1>6

\* The list of what to time begins with the baseline, behind the precheck.
LEMMA BaselineJobs ==
  ASSUME NEW built \in Seq(Kernels), built # <<>>, \A i \in DOMAIN built : built[i].side = "c" <=> i = 1,
         NEW stable \in Seq(JobList), Len(stable) \in {0, 1}, \A i \in DOMAIN stable : stable[i].what \in Batches,
         NEW timed \in Seq(JobList), DOMAIN timed = DOMAIN built,
         \A i \in DOMAIN built : timed[i].what = built[i].side
  PROVE  BaselineNext(stable \o timed)
<1>1. /\ DOMAIN stable = 1 .. Len(stable) /\ DOMAIN timed = 1 .. Len(timed) /\ Len(timed) \in Nat /\ Len(stable) \in Nat
      /\ 1 \in DOMAIN timed
  BY Len(built) > 0
<1>2. /\ stable \o timed \in Seq(JobList) /\ Len(stable \o timed) = Len(stable) + Len(timed)
      /\ \A k \in 1 .. Len(stable) + Len(timed) :
           (stable \o timed)[k] = IF k <= Len(stable) THEN stable[k] ELSE timed[k - Len(stable)]
  BY ConcatProperties
<1>3. PICK all : all = stable \o timed
  OBVIOUS
<1>4. DOMAIN all = 1 .. Len(stable) + Len(timed)
  BY <1>1, <1>2, <1>3
<1>5. PICK first : first = Len(stable) + 1
  OBVIOUS
<1>6. ASSUME NEW j \in DOMAIN all
      PROVE  all[j].what \in (IF j < first THEN Batches ELSE IF j = first THEN {"c"} ELSE Sides \ {"c"})
  <2>1. CASE j < first
    BY <1>1, <1>2, <1>3, <1>4, <1>5, <2>1
  <2>2. CASE ~(j < first)
    <3>1. /\ j - Len(stable) \in DOMAIN timed /\ all[j] = timed[j - Len(stable)]
          /\ j - Len(stable) = 1 <=> j = first
      BY <1>1, <1>2, <1>3, <1>4, <1>5, <2>2
    <3>2. all[j].what = built[j - Len(stable)].side /\ built[j - Len(stable)].side \in Sides
      BY <3>1 DEF Kernels
    <3>3. all[j].what = "c" <=> j = first
      BY <3>1, <3>2
    <3> QED
      BY <2>2, <3>2, <3>3
  <2> QED
    BY <2>1, <2>2
<1>7. first \in DOMAIN all
  BY <1>1, <1>4, <1>5
<1>8. BaselineNext(all)
  BY <1>6, <1>7 DEF BaselineNext
<1> QED
  BY <1>3, <1>8

\* Stock Dart and the list of what to time.
LEMMA AotBaseline ==
  ASSUME HarnessInv, BenchTypeOK, BaselineInv, BuildAot
  PROVE  BaselineInv'
<1> DEFINE stable == IF prechecked THEN <<>> ELSE << [what |-> "batch a", bin |-> bins'[1]] >>
           timed  == [i \in DOMAIN bins' |-> [what |-> bins'[i].side, bin |-> bins'[i]]]
<1>1. /\ phase = "aot" /\ phase' = "time" /\ todo # <<>>
      /\ nm' = nm /\ todo' = todo /\ rows' = rows /\ notes' = notes /\ fatal' = fatal
      /\ jobs' = stable \o timed
  BY DEF BuildAot, Phase
<1>2. bins' = bins \/ \E k \in Kernels : k.side # "c" /\ bins' = Append(bins, k)
  <2>1. \A sum \in Sums : LET k == Binary("dartaot", "-", sum, TRUE, 0, FALSE) IN k \in Kernels /\ k.side # "c"
    BY DEF Binary, Kernels, Sides
  <2>2. bins' = bins \/ \E sum \in Sums : bins' = Append(bins, Binary("dartaot", "-", sum, TRUE, 0, FALSE))
    BY DEF BuildAot
  <2>3. ASSUME NEW sum \in Sums, bins' = Append(bins, Binary("dartaot", "-", sum, TRUE, 0, FALSE))
        PROVE  \E k \in Kernels : k.side # "c" /\ bins' = Append(bins, k)
    <3>1. PICK k : k = Binary("dartaot", "-", sum, TRUE, 0, FALSE)
      OBVIOUS
    <3>2. k \in Kernels /\ k.side # "c"
      BY <2>1, <3>1
    <3> QED
      BY <2>3, <3>1, <3>2
  <2> QED
    BY <2>2, <2>3
<1>3. bins' \in Seq(Kernels) /\ bins' # <<>> /\ \A i \in DOMAIN bins' : bins'[i].side = "c" <=> i = 1
  <2>1. bins \in Seq(Kernels)
    BY DEF HarnessInv, BinsOK
  <2>2. bins' \in Seq(Kernels)
    BY <1>2, <2>1
  <2>3. phase \in {"ctrap", "dcdart", "identity", "aot"}
    BY <1>1
  <2> QED
    BY <1>2, <2>2, <2>3, BuiltMore
<1>4. DOMAIN bins' = 1 .. Len(bins') /\ Len(bins') \in Nat /\ bins'[1] \in Kernels
  BY <1>3
<1>5. timed \in Seq(JobList) /\ DOMAIN timed = DOMAIN bins' /\ \A i \in DOMAIN bins' : timed[i].what = bins'[i].side
  <2>1. \A k \in Kernels : [what |-> k.side, bin |-> k] \in JobList
    BY DEF JobList, Kernels
  <2>2. \A i \in DOMAIN bins' : [what |-> bins'[i].side, bin |-> bins'[i]] \in JobList
    BY <1>3, <2>1
  <2> QED
    BY <1>4, <2>2
<1>6. stable \in Seq(JobList) /\ Len(stable) \in {0, 1} /\ \A i \in DOMAIN stable : stable[i].what \in Batches
  <2>1. PICK first : first = [what |-> "batch a", bin |-> bins'[1]]
    OBVIOUS
  <2>2. first \in JobList /\ first.what \in Batches
    BY <1>4, <2>1 DEF JobList, Batches, Sides
  <2>3. stable = <<>> \/ stable = <<first>>
    BY <2>1
  <2>4. \A x \in JobList : <<x>> \in Seq(JobList) /\ Len(<<x>>) = 1 /\ DOMAIN <<x>> = {1} /\ <<x>>[1] = x
    OBVIOUS
  <2>5. <<>> \in Seq(JobList) /\ Len(<<>>) = 0 /\ DOMAIN <<>> = {}
    OBVIOUS
  <2> HIDE DEF stable
  <2> QED
    BY <2>2, <2>3, <2>4, <2>5
<1>7. BaselineNext(jobs')
  <2> HIDE DEF stable, timed
  <2>1. BaselineNext(stable \o timed)
    BY <1>3, <1>5, <1>6, BaselineJobs
  <2> QED
    BY <1>1, <2>1
<1>8. \A r \in rows : r.bench # bench
  BY <1>1, TodoOK DEF BaselineInv, RowsOfDone
<1>9. bench' = bench
  BY <1>1 DEF bench
<1>10. BaselineFirst'
  <2>1. \A r \in rows' : r.bench # bench'
    BY <1>1, <1>8, <1>9
  <2> QED
    BY <1>7, <2>1 DEF BaselineFirst
<1>11. RowsOfDone' /\ BaselineBuilt'
  BY <1>1, <1>9 DEF BaselineInv, RowsOfDone, BaselineBuilt
<1> QED
  BY <1>1, <1>10, <1>11, AgreeAsBefore DEF BaselineInv

\* A batch or another binary is done: the baseline is as far as it was.
LEMMA JobsBehind ==
  ASSUME JobsOK, jobs # <<>>
  PROVE  /\ BaselineNext(jobs) => Job.what \in Batches \cup {"c"}
         /\ BaselineNext(jobs) /\ Job.what = "c" => OthersOnly(Tail(jobs))
         /\ BaselineNext(jobs) /\ Job.what \in Batches => BaselineNext(Tail(jobs))
         /\ OthersOnly(jobs) => OthersOnly(Tail(jobs)) /\ Job.what \in Sides \ {"c"}
<1> DEFINE rest == Tail(jobs)
<1>1. /\ jobs \in Seq(JobList) /\ DOMAIN jobs = 1 .. Len(jobs) /\ Len(jobs) \in Nat /\ 1 \in DOMAIN jobs /\ Job = jobs[1]
      /\ DOMAIN rest = 1 .. Len(jobs) - 1 /\ \A j \in DOMAIN rest : j + 1 \in DOMAIN jobs /\ rest[j] = jobs[j + 1]
  BY DEF JobsOK, Job
<1> HIDE DEF rest
<1>2. ASSUME NEW i \in DOMAIN jobs, \A j \in DOMAIN jobs :
               jobs[j].what \in (IF j < i THEN Batches ELSE IF j = i THEN {"c"} ELSE Sides \ {"c"})
      PROVE  /\ Job.what \in Batches \cup {"c"}
             /\ Job.what = "c" => OthersOnly(rest)
             /\ Job.what \in Batches => BaselineNext(rest)
  <2>1. i = 1 => Job.what = "c"
    BY <1>1, <1>2
  <2>2. i # 1 => Job.what \in Batches
    BY <1>1, <1>2
  <2>3. "c" \notin Batches
    BY DEF Batches
  <2>4. ASSUME i = 1 PROVE OthersOnly(rest)
    <3>1. ASSUME NEW j \in DOMAIN rest PROVE rest[j].what \in Sides \ {"c"}
      <4>1. j + 1 \in DOMAIN jobs /\ ~(j + 1 < i) /\ j + 1 # i /\ rest[j] = jobs[j + 1]
        BY <1>1, <2>4, <3>1
      <4> QED
        BY <1>2, <4>1
    <3> QED
      BY <3>1 DEF OthersOnly
  <2>5. ASSUME i # 1 PROVE BaselineNext(rest)
    <3>1. PICK k : k = i - 1
      OBVIOUS
    <3>2. k \in DOMAIN rest
      BY <1>1, <2>5, <3>1
    <3>3. ASSUME NEW j \in DOMAIN rest
          PROVE  rest[j].what \in (IF j < k THEN Batches ELSE IF j = k THEN {"c"} ELSE Sides \ {"c"})
      <4>1. /\ j + 1 \in DOMAIN jobs /\ rest[j] = jobs[j + 1]
            /\ (j + 1 < i <=> j < k) /\ (j + 1 = i <=> j = k)
        BY <1>1, <3>1, <3>3
      <4>2. jobs[j + 1].what \in (IF j + 1 < i THEN Batches ELSE IF j + 1 = i THEN {"c"} ELSE Sides \ {"c"})
        BY <1>2, <4>1
      <4> QED
        BY <4>1, <4>2
    <3> QED
      BY <3>2, <3>3 DEF BaselineNext
  <2> QED
    BY <2>1, <2>2, <2>3, <2>4, <2>5
<1>3. BaselineNext(jobs) => /\ Job.what \in Batches \cup {"c"}
                            /\ Job.what = "c" => OthersOnly(rest)
                            /\ Job.what \in Batches => BaselineNext(rest)
  BY <1>2 DEF BaselineNext
<1>4. OthersOnly(jobs) => OthersOnly(rest) /\ Job.what \in Sides \ {"c"}
  BY <1>1 DEF OthersOnly
<1> QED
  BY <1>3, <1>4 DEF rest

\* With another batch at its head the list still has the baseline next.
LEMMA BatchAgain ==
  ASSUME JobsOK, jobs # <<>>, BaselineNext(jobs), Job.what \in Batches, NEW again \in JobList, again.what \in Batches
  PROVE  BaselineNext(<<again>> \o Tail(jobs))
<1> DEFINE more == <<again>> \o Tail(jobs)
<1>1. /\ jobs \in Seq(JobList) /\ 1 \in DOMAIN jobs /\ Job = jobs[1]
      /\ DOMAIN jobs = 1 .. Len(jobs) /\ Len(jobs) \in Nat
  BY DEF JobsOK, Job
<1>2. more \in Seq(JobList) /\ DOMAIN more = DOMAIN jobs /\ more[1] = again
  <2>1. <<again>> \in Seq(JobList) /\ Tail(jobs) \in Seq(JobList) /\ Len(<<again>>) = 1 /\ Len(Tail(jobs)) = Len(jobs) - 1
    BY <1>1
  <2>2. PICK one \in Seq(JobList) : one = <<again>> /\ Len(one) = 1 /\ one[1] = again
    BY <2>1
  <2>3. PICK rest \in Seq(JobList) : rest = Tail(jobs) /\ Len(rest) = Len(jobs) - 1
    BY <2>1
  <2>4. one \o rest \in Seq(JobList) /\ Len(one \o rest) = Len(jobs) /\ (one \o rest)[1] = again
    BY <1>1, <2>2, <2>3
  <2>5. more \in Seq(JobList) /\ Len(more) = Len(jobs) /\ more[1] = again
    BY <2>2, <2>3, <2>4
  <2> HIDE DEF more
  <2> QED
    BY <1>1, <2>5
<1>3. \A j \in DOMAIN jobs : j # 1 => more[j] = jobs[j]
  BY <1>1, OtherHead
<1> HIDE DEF more
<1>4. PICK i \in DOMAIN jobs : \A j \in DOMAIN jobs :
        jobs[j].what \in (IF j < i THEN Batches ELSE IF j = i THEN {"c"} ELSE Sides \ {"c"})
  BY DEF BaselineNext
<1>5. i # 1 /\ 1 < i
  <2>1. i = 1 => Job.what = "c"
    BY <1>1, <1>4
  <2>2. "c" \notin Batches
    BY DEF Batches
  <2> QED
    BY <1>1, <2>1, <2>2
<1>6. BaselineNext(more)
  <2>1. ASSUME NEW j \in DOMAIN more
        PROVE  more[j].what \in (IF j < i THEN Batches ELSE IF j = i THEN {"c"} ELSE Sides \ {"c"})
    BY <1>2, <1>3, <1>4, <1>5, <2>1
  <2> QED
    BY <1>2, <2>1 DEF BaselineNext
<1> QED
  BY <1>6 DEF more

\* A process at work changes nothing of it.
LEMMA ProcessBaseline ==
  ASSUME BaselineInv, UNCHANGED <<phase, todo, bins, jobs, rows, notes, fatal>>
  PROVE  BaselineInv'
BY DEF BaselineInv, BaselineBuilt, BaselineFirst, BaselineNext, OthersOnly, RowsOfDone, bench,
       RowsAgree, OneBaseline, TrapAgrees, DisagreementNoted

\* The stability precheck.
LEMMA PrecheckBaseline ==
  ASSUME HarnessInv, BaselineInv, Precheck
  PROVE  BaselineInv'
<1>1. /\ phase = "time" /\ jobs # <<>> /\ Job.what \in Batches /\ JobsOK
      /\ UNCHANGED <<phase, todo, bins, rows, fatal>> /\ bench' = bench /\ notes \subseteq notes'
  BY DEF Precheck, Returned, Phase, Batches, HarnessInv, bench, Note
<1>2. Job \in JobList
  BY <1>1, CurrentJob
<1>3. BaselineNext(jobs) /\ \A r \in rows : r.bench # bench
  <2>1. Job.what \notin Sides \ {"c"}
    BY <1>1 DEF Batches, Sides
  <2> QED
    BY <1>1, <2>1, JobsBehind DEF BaselineInv, BaselineFirst
<1>4. BaselineNext(jobs')
  <2>1. CASE jobs' = Tail(jobs)
    BY <1>1, <1>3, <2>1, JobsBehind
  <2>2. CASE jobs' = <<[Job EXCEPT !.what = "batch b"]>> \o Tail(jobs)
    <3>1. PICK again : again = [Job EXCEPT !.what = "batch b"]
      OBVIOUS
    <3>2. again \in JobList /\ again.what \in Batches
      BY <1>2, <3>1 DEF JobList, Batches, Sides
    <3>3. BaselineNext(<<again>> \o Tail(jobs))
      BY <1>1, <1>3, <3>2, BatchAgain
    <3> QED
      BY <2>2, <3>1, <3>3
  <2> QED
    BY <2>1, <2>2 DEF Precheck, BatchReturns, Done
<1>5. BaselineFirst'
  BY <1>1, <1>3, <1>4 DEF BaselineFirst
<1>6. BaselineBuilt' /\ RowsOfDone'
  BY <1>1 DEF BaselineInv, BaselineBuilt, RowsOfDone
<1> QED
  BY <1>1, <1>5, <1>6, AgreeAsBefore DEF BaselineInv

\* The row of a binary that was timed.
TimedRow(row) ==
  /\ row.bench = bench /\ row.side = Kernel.side /\ row.sum = tb.seen
  /\ rows' = rows \cup {row}

\* A binary that was timed leaves such a row.
LEMMA RecordLeaves ==
  ASSUME Record
  PROVE  \E row : TimedRow(row)
<1>1. PICK quality \in Qualities[bench] :
        rows' = rows \cup {[bench |-> bench, side |-> Kernel.side, mode |-> Kernel.mode, sum |-> tb.seen,
                            n |-> tb.n, ok |-> quality.ok, sem |-> quality.sem, leak |-> Leaks]}
  BY DEF Record
<1>2. PICK row : row = [bench |-> bench, side |-> Kernel.side, mode |-> Kernel.mode, sum |-> tb.seen,
                        n |-> tb.n, ok |-> quality.ok, sem |-> quality.sem, leak |-> Leaks]
  OBVIOUS
<1>3. row.bench = bench /\ row.side = Kernel.side /\ row.sum = tb.seen
  BY <1>2
<1>4. rows' = rows \cup {row}
  BY <1>1, <1>2
<1> QED
  BY <1>3, <1>4 DEF TimedRow

\* The baseline: the first row of the benchmark.
LEMMA CBaseline ==
  ASSUME HarnessInv, BenchTypeOK, BaselineInv, TimedC
  PROVE  BaselineInv'
<1>1. phase = "time" /\ todo # <<>> /\ jobs # <<>> /\ Job.what = "c" /\ JobsOK /\ args' = args
  BY DEF TimedC, Returned, Phase, HarnessInv
<1>2. CASE GiveUp({"c run"})
  BY <1>1, <1>2, NextBaseline DEF GiveUp, RecordFailed, FailedRow
<1>3. CASE Record /\ Done(Tail(jobs)) /\ UNCHANGED <<todo, phase, left, bins, notes, fatal>>
  <2>1. Kernel.side = "c"
    BY <1>1, CurrentJob DEF Sides
  <2>2. (\A r \in rows : r.bench # bench) /\ OthersOnly(Tail(jobs))
    BY <1>1, JobsBehind DEF BaselineInv, BaselineFirst
  <2>3. PICK row : TimedRow(row)
    BY <1>3, RecordLeaves
  <2>4. row.bench = bench /\ row.side = "c" /\ rows' = rows \cup {row} /\ bench' = bench /\ jobs' = Tail(jobs)
    BY <1>3, <2>1, <2>3 DEF TimedRow, bench, Done
  <2>5. BaselineFirst'
    BY <2>2, <2>4 DEF BaselineFirst
  <2>6. BaselineBuilt' /\ RowsOfDone'
    BY <1>1, <1>3, <2>4 DEF BaselineInv, BaselineBuilt, RowsOfDone
  <2>7. OneBaseline' /\ TrapAgrees'
    BY <2>2, <2>4 DEF BaselineInv, RowsAgree, OneBaseline, TrapAgrees
  <2>8. DisagreementNoted'
    BY <1>3, <2>2, <2>4 DEF BaselineInv, RowsAgree, DisagreementNoted
  <2> QED
    BY <2>5, <2>6, <2>7, <2>8 DEF BaselineInv, RowsAgree
<1> QED
  BY <1>2, <1>3 DEF TimedC

\* Another binary: it left a row that agrees with the baseline, or of DCDart
\* with a note, or one that it failed, or none.
LEMMA OtherBaseline ==
  ASSUME HarnessInv, BenchTypeOK, BaselineInv, TimedTrap \/ TimedDcDart \/ TimedAot
  PROVE  BaselineInv'
<1>1. /\ phase = "time" /\ todo # <<>> /\ jobs # <<>> /\ Job.what \in {"ctrap", "dcdart", "dartaot"} /\ JobsOK
      /\ UNCHANGED <<args, todo, phase, left, bins>> /\ jobs' = Tail(jobs) /\ bench' = bench
      /\ notes \subseteq notes'
  BY DEF TimedTrap, TimedDcDart, TimedAot, Returned, Phase, HarnessInv, Done, bench, Note
<1>2. fatal => fatal'
  <2>1. fatal' = fatal \/ fatal' = TRUE
    BY DEF TimedTrap, TimedDcDart, TimedAot, RecordFailed
  <2> QED
    BY <2>1
<1>3. Kernel.side = Job.what
  BY <1>1, CurrentJob DEF Sides
<1>4. OthersOnly(Tail(jobs)) /\ \E c \in rows : c.bench = bench /\ c.side = "c"
  <2>1. Job.what \notin Batches \cup {"c"}
    BY <1>1 DEF Batches
  <2> QED
    BY <1>1, <2>1, JobsBehind DEF BaselineInv, BaselineFirst
<1>5. PICK base \in rows : base.bench = bench /\ base.side = "c"
  BY <1>4
<1>6. SumOfC = base.sum
  BY <1>5, TheBaseline DEF BaselineInv, RowsAgree
<1>7. ASSUME rows \subseteq rows', \A r \in rows' : r \in rows \/ r.bench = bench, RowsAgree'
      PROVE  BaselineInv'
  <2>1. BaselineFirst'
    BY <1>1, <1>5, <1>4, <1>7 DEF BaselineFirst
  <2>2. BaselineBuilt' /\ RowsOfDone'
    BY <1>1, <1>7 DEF BaselineInv, BaselineBuilt, RowsOfDone
  <2> QED
    BY <1>7, <2>1, <2>2 DEF BaselineInv
<1>8. CASE rows' = rows \/ rows' = rows \cup {FailedRow}
  <2>1. RowsAgree'
    BY <1>1, <1>2, <1>8, AgreeAsBefore DEF BaselineInv
  <2> QED
    BY <1>7, <1>8, <2>1 DEF FailedRow
<1>9. CASE Record /\ (\/ Job.what = "dcdart" /\ tb.seen # SumOfC /\ Note("checksum") /\ fatal'
                      \/ tb.seen = SumOfC
                      \/ Job.what = "dartaot")
  <2>1. PICK row : TimedRow(row)
    BY <1>9, RecordLeaves
  <2>2. /\ row.bench = bench /\ row.side = Job.what /\ row.side # "c" /\ rows' = rows \cup {row}
        /\ row.sum = tb.seen
    BY <1>1, <1>3, <2>1 DEF TimedRow
  <2>3. \A c \in rows : c.bench = bench /\ c.side = "c" => c = base
    BY <1>5 DEF BaselineInv, RowsAgree, OneBaseline
  <2>4. OneBaseline'
    BY <2>2 DEF BaselineInv, RowsAgree, OneBaseline
  <2>5. TrapAgrees'
    <3> SUFFICES ASSUME NEW t \in rows', NEW c \in rows', t.side = "ctrap", c.side = "c", t.bench = c.bench
                 PROVE  t.sum = c.sum
      BY DEF TrapAgrees
    <3>1. c \in rows
      BY <2>2
    <3>2. CASE t \in rows
      BY <3>1, <3>2 DEF BaselineInv, RowsAgree, TrapAgrees
    <3>3. CASE t = row
      <4>1. c = base /\ Job.what = "ctrap"
        BY <2>2, <2>3, <3>1, <3>3
      <4> QED
        BY <1>6, <1>9, <2>2, <3>3, <4>1
    <3> QED
      BY <2>2, <3>2, <3>3
  <2>6. DisagreementNoted'
    <3> SUFFICES ASSUME NEW r \in rows', NEW c \in rows', r.side = "dcdart", c.side = "c", r.bench = c.bench,
                        r.sum # c.sum
                 PROVE  fatal' /\ [bench |-> r.bench, about |-> "checksum"] \in notes'
      BY DEF DisagreementNoted
    <3>1. c \in rows
      BY <2>2
    <3>2. CASE r \in rows
      <4>1. fatal /\ [bench |-> r.bench, about |-> "checksum"] \in notes
        BY <3>1, <3>2 DEF BaselineInv, RowsAgree, DisagreementNoted
      <4> QED
        BY <1>1, <1>2, <4>1
    <3>3. CASE r = row
      <4>1. c = base /\ Job.what = "dcdart"
        BY <2>2, <2>3, <3>1, <3>3
      <4>2. Note("checksum") /\ fatal'
        BY <1>6, <1>9, <2>2, <3>3, <4>1
      <4> QED
        BY <2>2, <3>3, <4>2 DEF Note
    <3> QED
      BY <2>2, <3>2, <3>3
  <2>7. RowsAgree'
    BY <2>4, <2>5, <2>6 DEF RowsAgree
  <2> QED
    BY <1>7, <2>2, <2>7
<1>10. CASE TimedTrap
  BY <1>8, <1>9, <1>10 DEF TimedTrap
<1>11. CASE TimedDcDart
  BY <1>8, <1>9, <1>11 DEF TimedDcDart, Returned, RecordFailed, FailedRow
<1>12. CASE TimedAot
  BY <1>8, <1>9, <1>12 DEF TimedAot, Returned
<1> QED
  BY <1>10, <1>11, <1>12

\* Every action keeps the rows in agreement.
LEMMA StepBaseline == HarnessInv /\ BenchTypeOK /\ BaselineInv /\ [Next]_benchVars => BaselineInv'
<1> SUFFICES ASSUME HarnessInv, BenchTypeOK, BaselineInv, [Next]_benchVars PROVE BaselineInv'
  OBVIOUS
<1>1. CASE BuildC \/ BuildTrap \/ BuildDcDart \/ CheckIdentity
  BY <1>1, BuildsBaseline
<1>2. CASE BuildAot
  BY <1>2, AotBaseline
<1>3. CASE Warmup \/ TimedCall \/ EndOfMain \/ Crash \/ UNCHANGED benchVars
  BY <1>3, ProcessBaseline DEF Warmup, TimedCall, EndOfMain, Crash, benchVars
<1>4. CASE Precheck
  BY <1>4, PrecheckBaseline
<1>5. CASE TimedC
  BY <1>5, CBaseline
<1>6. CASE TimedTrap \/ TimedDcDart \/ TimedAot
  BY <1>6, OtherBaseline
<1>7. CASE EndOfBench
  <2>1. todo # <<>> /\ NextBench /\ rows' = rows /\ args' = args
    BY <1>7 DEF EndOfBench, Phase
  <2>2. notes \subseteq notes' /\ (fatal => fatal')
    BY <1>7 DEF EndOfBench, Note
  <2> QED
    BY <2>1, <2>2, NextBaseline
<1>8. CASE Report
  <2>1. phase # "time" /\ phase' = "reported" /\ UNCHANGED <<todo, rows, notes, fatal>>
    BY <1>8 DEF Report, HarnessInv, ArgsOK
  <2> QED
    BY <2>1, BuildingBaseline DEF BaselineBuilt
<1> QED
  BY <1>1, <1>2, <1>3, <1>4, <1>5, <1>6, <1>7, <1>8 DEF Next

\* There are no rows when the script starts.
LEMMA InitBaseline == Init => BaselineInv
BY DEF Init, BaselineInv, BaselineBuilt, BaselineFirst, RowsOfDone, RowsAgree, OneBaseline, TrapAgrees,
       DisagreementNoted

\* The rows agree with each other in every state of the harness.
THEOREM HarnessBaseline == Spec => []BaselineInv
<1>1. HarnessInv /\ HarnessInv' /\ BenchTypeOK /\ BaselineInv /\ [Next]_benchVars => BaselineInv'
  BY StepBaseline
<1> QED
  BY <1>1, HarnessInvariant, HarnessTypeCorrect, InitBaseline, PTL DEF Spec

\* A row of DCDart that computed something else than the C baseline comes with
\* a note and a fatal run.
THEOREM HarnessNotesDisagreement == Spec => []DisagreementNoted
<1>1. BaselineInv => DisagreementNoted
  BY DEF BaselineInv, RowsAgree
<1> QED
  BY <1>1, HarnessBaseline, PTL

\* A gate number stands for every benchmark of the suite.
THEOREM HarnessGateStands == Spec => []GateStandsForSuite
<1>1. NothingVanishes /\ BaselineInv => GateStandsForSuite
  <2> SUFFICES ASSUME NothingVanishes, BaselineInv, NEW i \in DOMAIN Modes, Reported, GateShown(Modes[i]),
                      NEW b \in Range(Benches), SuiteOf[b] = "m3"
               PROVE  /\ RowOf(b, "c", "-") # {} /\ RowOf(b, "ctrap", "-") # {}
                      /\ RowOf(b, "dcdart", Modes[i]) # {}
                      /\ \A c \in RowOf(b, "c", "-"), t \in RowOf(b, "ctrap", "-") : t.sum = c.sum
    BY DEF GateStandsForSuite
  <2>1. Failed(b) \/ RowOf(b, "c", "-") # {}
    BY DEF NothingVanishes
  <2>2. b \in Visited
    BY <2>1 DEF RowOf, Failed, Visited
  <2>3. ~Failed(b) /\ Comparable(b, RowOf(b, "ctrap", "-"), RowOf(b, "dcdart", Modes[i]))
    BY <2>2 DEF GateShown, GateMean
  <2>4. RowOf(b, "ctrap", "-") # {} /\ RowOf(b, "dcdart", Modes[i]) # {}
    BY <2>3 DEF Comparable
  <2>5. \A c \in RowOf(b, "c", "-"), t \in RowOf(b, "ctrap", "-") : t.sum = c.sum
    BY DEF RowOf, BaselineInv, RowsAgree, TrapAgrees
  <2> QED
    BY <2>1, <2>3, <2>4, <2>5
<1> QED
  BY <1>1, HarnessNothingVanishes, HarnessBaseline, PTL

=============================================================================
