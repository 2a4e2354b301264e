------------------------------ MODULE ReplayProofs ------------------------------
(***************************************************************************)
(* What is replayed, for every set of contracts, reports, browser runs,     *)
(* requests and bounds: the trials of a benchmark suite and the cases of a  *)
(* regression suite.                                                        *)
(*                                                                         *)
(* Benchmark suites.  Every trial that counts stands on evidence of its own,*)
(* the repetitions of a trial have no gap, a sealed suite stays as it is,   *)
(* though the replaying requests take no lock, and the matrix adds up.  The *)
(* first three rest on BenchInv, which says what a request that is half way *)
(* may still rely on; the matrix needs ReadInv too, that every row, and     *)
(* every row an import still holds in hand, can be read back.               *)
(*                                                                         *)
(* Regression evals.  A green replay was earned.  EvalInv says what a replay*)
(* that is half way has recorded: one event for every call of its case made *)
(* so far, which shows a call that moved the target wherever the states on  *)
(* both sides of it were observed.                                          *)
(***************************************************************************)
EXTENDS Benchmarks, RegressionEval, SetTheorems, SequenceTheorems

----------------------------------------------------------------------------
\* Benchmark suites

Table == [Trials -> Row \cup {None}]

Replaying == {"starting", "repeating", "trial", "executing", "excluding"}

AtTrial == {"trial", "executing", "excluding"}

\* A table of rows, the suite's or one that was copied from it, each trial of which
\* that counts is backed, by a browser run that has ended and that is its own.
TableInv(table) ==
    /\ table \in Table
    /\ \A t \in Stored(table) : classify(table[t]) = None => Backed(t, table[t])
    /\ \A t \in Stored(table) : table[t].outcome_run # None =>
          runs[table[t].outcome_run].status # "armed"
    /\ \A t, u \in Stored(table) :
          (table[t].outcome_run # None /\ table[t].outcome_run = table[u].outcome_run) => t = u

SuiteInv ==
    /\ suite = [status |-> suite.status, mode |-> suite.mode,
                frozen |-> suite.frozen, report |-> suite.report]
    /\ suite.status \in BenchmarkStatus \cup {None}
    /\ suite.mode \in CorrelationMode \cup {None}
    /\ suite.status = None => suite = NoSuite /\ Present = {}
    /\ suite.status # None => suite.mode \in CorrelationMode

RunsInv ==
    /\ runs \in [Runs -> [status : _BINDABLE_RUN_STATES \cup {"armed", "cancelled"},
                          overall : OUTCOME_PASS_RESULTS \cup {"failed", None}]]
    /\ evalruns \in Seq(EvaluationRun)

RowsInv ==
    /\ TableInv(rows)
    /\ suite.mode = "imported_trajectory_replay" => \A t \in Present : rows[t].outcome_run = None
    /\ suite.report # None => TableInv(suite.report.trials)

\* The trials an import will insert: none repeats another, and none counts.
FoundInv(taken) ==
    /\ DOMAIN taken \subseteq Trials
    /\ \A t \in DOMAIN taken :
          /\ t.rep = 0 /\ taken[t] \in Row
          /\ ~ taken[t].eligible /\ taken[t].reason # None
          /\ taken[t].outcome_run = None /\ taken[t].variant = None

\* A request's plan: repetitions without a gap from those that are there.
PlanInv(r) ==
    LET source == r.plan.source IN
    /\ r.plan \in Plan
    /\ source.rep = 0 /\ rows[source] # None /\ rows[source].steps
    /\ r.plan.variant # None => suite.frozen # None /\ r.plan.variant < Len(suite.frozen)
    /\ \E first \in 1..(MaxReps + 1), last \in 0..MaxReps :
          /\ r.todo = {[of |-> source.of, rep |-> i] : i \in first..last}
          /\ \A i \in 1..(first - 1) : rows[[of |-> source.of, rep |-> i]] # None
          /\ r.pc = "repeating" => first <= last

ReqInv(r) ==
    /\ DOMAIN r = DOMAIN NoRequest
    /\ r.pc \in RequestPoint
    /\ r.pc = "importing" => FoundInv(r.found)
    /\ r.pc \in {"finalizing", "refused"} => suite.status # None
    /\ r.pc = "finalizing" => TableInv(r.report.trials)
    /\ r.pc \in Replaying => suite.mode = "imported_trajectory_replay"
    /\ r.pc \in {"repeating", "excluding"} => r.plan # None
    /\ r.pc = "starting" => r.plan = None
    /\ r.pc = "excluding" => r.reason \in ExclusionReason
    /\ r.pc \in AtTrial => r.trial \in Present
    /\ r.pc \in Replaying /\ r.plan = None => r.todo \subseteq Present
    /\ r.pc \in Replaying /\ r.plan # None => PlanInv(r)
    /\ r.pc = "executing" =>
          /\ r.run \in 1..Len(evalruns)
          /\ evalruns[r.run].trial = r.trial /\ evalruns[r.run].status = "error"

RequestsInv ==
    /\ req = [w \in Requests |-> req[w]]
    /\ \A w \in Requests : ReqInv(req[w])
    /\ \A v, w \in Requests :
          (req[v].pc = "executing" /\ req[w].pc = "executing" /\ req[v].run = req[w].run) => v = w

\* What RepetitionsSound says, with the frozen set there to name a variant of.
RepeatedInv ==
    \A t \in Present : t.rep > 0 =>
        /\ \A i \in 1..t.rep : rows[[of |-> t.of, rep |-> i]] # None
        /\ rows[Imported(t.of)] # None
        /\ rows[t].call = rows[Imported(t.of)].call
        /\ rows[t].steps
        /\ rows[t].variant # None => suite.frozen # None /\ rows[t].variant < Len(suite.frozen)

BenchInv == SuiteInv /\ RunsInv /\ RowsInv /\ RequestsInv /\ RepeatedInv

-----------------------------------------------------------------------------
\* What a step may do to what others rely on

\* Rows stay and keep what the evaluator said, the suite keeps its mode and its frozen
\* set, and no evidence that is final is touched.
Grows ==
    /\ suite'.mode = suite.mode
    /\ suite.status # None => suite'.status # None
    /\ suite.frozen # None => suite'.frozen = suite.frozen
    /\ \A t \in Present : /\ rows'[t] # None /\ rows'[t].steps = rows[t].steps
                          /\ rows'[t].call = rows[t].call
                          /\ rows'[t].variant = rows[t].variant
    /\ \A r \in Runs : runs[r].status # "armed" => runs'[r] = runs[r]
    /\ Len(evalruns) <= Len(evalruns')
    /\ \A e \in 1..Len(evalruns) : evalruns[e].status = "completed" => evalruns'[e] = evalruns[e]

\* A trial is its address and its repetition.
LEMMA TrialForm ==
    /\ \A t \in Trials : /\ t = [of |-> t.of, rep |-> t.rep] /\ t.of \in Addresses
                         /\ t.rep \in 0..MaxReps
    /\ \A a \in Addresses, i \in 0..MaxReps : [of |-> a, rep |-> i] \in Trials
BY DEF Trials

\* What a table rests on stays.
LEMMA TableKept ==
    ASSUME RunsInv, RunsInv', Grows, NEW table, TableInv(table)
    PROVE  TableInv(table)'
<1>1. \A t \in Stored(table) : table[t] \in Row /\ table[t].outcome_run \in Runs \cup {None}
  BY DEF TableInv, Table, Stored, Row
<1>2. \A t \in Stored(table) : table[t].outcome_run # None =>
         runs[table[t].outcome_run].status # "armed"
         /\ runs'[table[t].outcome_run] = runs[table[t].outcome_run]
  BY <1>1 DEF TableInv, Grows
<1>3. ASSUME NEW t \in Stored(table), classify(table[t]) = None
      PROVE  Backed(t, table[t])'
  <2>1. Backed(t, table[t])
    BY <1>3 DEF TableInv
  <2>2. CASE suite.mode = "executed_browser"
    BY <1>2, <1>3, <2>1, <2>2 DEF Backed, Grows
  <2>3. CASE suite.mode # "executed_browser"
    <3>1. PICK e : e = table[t].evaluation_run
      OBVIOUS
    <3>2. e \in 1..Len(evalruns) /\ evalruns[e].status = "completed" /\ Len(evalruns) \in Nat
      BY <2>1, <2>3, <3>1 DEF Backed, RunsInv
    <3>3. evalruns'[e] = evalruns[e] /\ e \in 1..Len(evalruns')
      BY <3>2 DEF Grows, RunsInv
    <3> QED
      BY <2>1, <2>3, <3>1, <3>3 DEF Backed, Grows, RunsInv
  <2> QED
    BY <2>2, <2>3
<1> QED
  BY <1>1, <1>2, <1>3 DEF TableInv, Stored, classify, exclusion_for

\* What a request holds half way stays true under the steps of others.
LEMMA ReqKept ==
    ASSUME RunsInv, RunsInv', Grows, NEW r, ReqInv(r),
           r.pc = "executing" => evalruns'[r.run] = evalruns[r.run],
           rows' \in Table
    PROVE  ReqInv(r)'
<1>1. /\ r.pc \in {"finalizing", "refused"} => suite'.status # None
      /\ r.pc = "finalizing" => TableInv(r.report.trials)'
  BY TableKept DEF ReqInv, Grows
<1>2. \A t \in Present : t \in Present'
  BY DEF Grows, Present, Stored
<1>3. ASSUME r.pc \in Replaying, r.plan # None
      PROVE  PlanInv(r)'
  <2>1. PlanInv(r) /\ r.plan.source \in Present
    <3>1. PlanInv(r)
      BY <1>3 DEF ReqInv
    <3> QED
      BY <3>1 DEF PlanInv, Plan, Present, Stored
  <2>2. rows'[r.plan.source] # None /\ rows'[r.plan.source].steps
    BY <2>1 DEF PlanInv, Grows
  <2>3. r.plan.variant # None => suite'.frozen # None /\ r.plan.variant < Len(suite'.frozen)
    BY <2>1 DEF PlanInv, Grows
  <2>4. PICK first \in 1..(MaxReps + 1), last \in 0..MaxReps :
          /\ r.todo = {[of |-> r.plan.source.of, rep |-> i] : i \in first..last}
          /\ \A i \in 1..(first - 1) : rows[[of |-> r.plan.source.of, rep |-> i]] # None
          /\ r.pc = "repeating" => first <= last
    BY <2>1 DEF PlanInv
  <2>5. ASSUME NEW i \in 1..(first - 1)
        PROVE  rows'[[of |-> r.plan.source.of, rep |-> i]] # None
    <3>1. r.plan.source.of \in Addresses /\ i \in 0..MaxReps
      BY <2>1, TrialForm, BenchmarksAssumption DEF Present, Stored
    <3>2. [of |-> r.plan.source.of, rep |-> i] \in Present
      BY <2>4, <3>1, TrialForm DEF Present, Stored
    <3> QED
      BY <3>2 DEF Grows
  <2> QED
    BY <2>1, <2>2, <2>3, <2>4, <2>5 DEF PlanInv
<1>4. r.pc = "executing" =>
        /\ r.run \in 1..Len(evalruns')
        /\ evalruns'[r.run].trial = r.trial /\ evalruns'[r.run].status = "error"
  BY DEF ReqInv, Grows, RunsInv
<1> QED
  BY <1>1, <1>2, <1>3, <1>4 DEF ReqInv, Grows, FoundInv

\* A step of one request is right if it leaves that request right and grows the rest.
LEMMA OneMoves ==
    ASSUME BenchInv, Grows, SuiteInv', RunsInv', RowsInv', RepeatedInv',
           NEW w \in Requests, NEW q, req' = [req EXCEPT ![w] = q], ReqInv(q)',
           \A v \in Requests \ {w} : req[v].pc = "executing" =>
               /\ evalruns'[req[v].run] = evalruns[req[v].run]
               /\ q.pc = "executing" => q.run # req[v].run
    PROVE  BenchInv'
<1> USE DEF BenchInv
<1>1. /\ req' = [v \in Requests |-> IF v = w THEN q ELSE req[v]]
      /\ req'[w] = q /\ \A v \in Requests \ {w} : req'[v] = req[v]
  BY DEF RequestsInv
<1>2. ASSUME NEW v \in Requests PROVE ReqInv(req[v])'
  <2>1. CASE v = w
    BY <1>1, <2>1
  <2>2. CASE v # w
    <3>1. PICK r : r = req[v] /\ r = req'[v]
      BY <1>1, <2>2
    <3>2. ReqInv(r) /\ rows' \in Table
      BY <3>1 DEF RequestsInv, RowsInv, TableInv
    <3>3. ReqInv(r)'
      BY <2>2, <3>1, <3>2, ReqKept
    <3> QED
      BY <3>1, <3>3
  <2> QED
    BY <2>1, <2>2
<1>3. RequestsInv'
  BY <1>1, <1>2 DEF RequestsInv
<1> QED
  BY <1>3

\* So is a step that moves no request.
LEMMA NoneMoves ==
    ASSUME BenchInv, Grows, SuiteInv', RunsInv', RowsInv', RepeatedInv',
           UNCHANGED <<req, evalruns>>
    PROVE  BenchInv'
<1> USE DEF BenchInv
<1>1. ASSUME NEW v \in Requests PROVE ReqInv(req[v])'
  <2>1. PICK r : r = req[v] /\ r = req'[v]
    OBVIOUS
  <2>2. ReqInv(r) /\ rows' \in Table
    BY <2>1 DEF RequestsInv, RowsInv, TableInv
  <2>3. ReqInv(r)'
    BY <2>2, ReqKept
  <2> QED
    BY <2>1, <2>3
<1>2. RequestsInv'
  BY <1>1 DEF RequestsInv
<1> QED
  BY <1>2

\* A repetition that was sound stays so.
LEMMA RepetitionKept ==
    ASSUME RepeatedInv, Grows, NEW t \in Present, t.rep > 0
    PROVE  /\ \A i \in 1..t.rep : rows'[[of |-> t.of, rep |-> i]] # None
           /\ rows'[Imported(t.of)] # None
           /\ rows'[t].call = rows'[Imported(t.of)].call
           /\ rows'[t].steps
           /\ rows'[t].variant # None =>
                suite'.frozen # None /\ rows'[t].variant < Len(suite'.frozen)
<1>1. t.of \in Addresses /\ t.rep \in 0..MaxReps /\ MaxReps \in Nat
  BY TrialForm, BenchmarksAssumption DEF Present, Stored
<1>2. \A i \in 1..t.rep : [of |-> t.of, rep |-> i] \in Present
  BY <1>1, TrialForm DEF RepeatedInv, Present, Stored
<1>3. Imported(t.of) \in Present
  BY <1>1, TrialForm DEF RepeatedInv, Present, Stored, Imported
<1> QED
  BY <1>2, <1>3 DEF RepeatedInv, Grows

\* So they all do where no repetition is added.
LEMMA RepeatedKept ==
    ASSUME RepeatedInv, Grows,
           \A t \in Trials : rows'[t] # None /\ t.rep > 0 => rows[t] # None
    PROVE  RepeatedInv'
<1> SUFFICES ASSUME NEW t \in Trials, rows'[t] # None, t.rep > 0
             PROVE  /\ \A i \in 1..t.rep : rows'[[of |-> t.of, rep |-> i]] # None
                    /\ rows'[Imported(t.of)] # None
                    /\ rows'[t].call = rows'[Imported(t.of)].call
                    /\ rows'[t].steps
                    /\ rows'[t].variant # None =>
                         suite'.frozen # None /\ rows'[t].variant < Len(suite'.frozen)
  BY DEF RepeatedInv, Present, Stored
<1>1. t \in Present
  BY DEF Present, Stored
<1> QED
  BY <1>1, RepetitionKept

\* And the suite's tables where rows only change as they may.
LEMMA ReportKept ==
    ASSUME BenchInv, Grows, RunsInv', suite'.report = suite.report, suite.report # None
    PROVE  TableInv(suite.report.trials)'
<1>1. PICK table : table = suite.report.trials
  OBVIOUS
<1>2. TableInv(table)'
  BY <1>1, TableKept DEF BenchInv, RowsInv
<1> QED
  BY <1>1, <1>2

\* A step that leaves the tables alone.
LEMMA QuietStep ==
    ASSUME BenchInv, UNCHANGED <<rows, evalruns, runs>>,
           suite'.mode = suite.mode, suite.status # None => suite'.status # None,
           suite.frozen # None => suite'.frozen = suite.frozen,
           \/ suite'.report = suite.report
           \/ \E table : TableInv(table) /\ suite'.report.trials = table
    PROVE  Grows /\ RunsInv' /\ RowsInv' /\ RepeatedInv'
<1> USE DEF BenchInv
<1>1. RunsInv'
  BY DEF RunsInv
<1>2. Len(evalruns) \in Nat
  BY DEF RunsInv
<1>3. Grows
  BY <1>2 DEF Grows, Present, Stored
<1>4. TableInv(rows)'
  <2>1. PICK table : table = rows
    OBVIOUS
  <2>2. TableInv(table)'
    BY <1>1, <1>3, <2>1, TableKept DEF RowsInv
  <2> QED
    BY <2>1, <2>2
<1>5. ASSUME suite'.report # None PROVE TableInv(suite.report.trials)'
  <2>1. CASE suite'.report = suite.report
    BY <1>1, <1>3, <1>5, <2>1, ReportKept
  <2>2. ASSUME NEW table, TableInv(table), suite'.report.trials = table
        PROVE  TableInv(suite.report.trials)'
    <3>1. TableInv(table)'
      BY <1>1, <1>3, <2>2, TableKept
    <3> QED
      BY <2>2, <3>1
  <2> QED
    BY <2>1, <2>2
<1>6. RowsInv'
  BY <1>4, <1>5 DEF RowsInv, Present, Stored
<1>7. RepeatedInv'
  BY <1>3, RepeatedKept
<1> QED
  BY <1>1, <1>3, <1>6, <1>7

\* An idle request is right.
LEMMA NoRequestRight ==
    ReqInv(NoRequest) /\ ReqInv(NoRequest)'
BY DEF ReqInv, NoRequest, RequestPoint, Replaying, AtTrial

\* As is one that was refused.
LEMMA RefusedRight == suite'.status # None => ReqInv([NoRequest EXCEPT !.pc = "refused"])'
BY DEF ReqInv, NoRequest, RequestPoint, Replaying, AtTrial

\* A request that ends, or that the others never see again.
LEMMA EndedStep ==
    ASSUME BenchInv, NEW w \in Requests, NEW q \in {NoRequest, [NoRequest EXCEPT !.pc = "refused"]},
           req' = [req EXCEPT ![w] = q], UNCHANGED <<rows, evalruns, runs>>, SuiteInv',
           q # NoRequest => suite.status # None,
           suite'.mode = suite.mode, suite.status # None => suite'.status # None,
           suite.frozen # None => suite'.frozen = suite.frozen,
           \/ suite'.report = suite.report
           \/ \E table : TableInv(table) /\ suite'.report.trials = table
    PROVE  BenchInv'
<1>1. Grows /\ RunsInv' /\ RowsInv' /\ RepeatedInv'
  BY QuietStep
<1>2. ReqInv(q)' /\ q.pc # "executing"
  BY NoRequestRight, RefusedRight DEF NoRequest
<1> QED
  BY <1>1, <1>2, OneMoves

\* The suite is untouched.
LEMMA SameSuite ==
    ASSUME BenchInv, UNCHANGED <<suite, rows>>
    PROVE  SuiteInv'
BY DEF BenchInv, SuiteInv, Present, Stored

-----------------------------------------------------------------------------
\* The browser runs, the suite's creation and its variants

\* A run that ends was armed, and an armed run is bound to no trial.
LEMMA RunEndsStep ==
    ASSUME BenchInv, NEW r \in Runs,
           NEW result \in {"passed", "passed_with_warnings", "failed", "error", "cancelled"},
           RunEnds(r, result)
    PROVE  BenchInv'
<1> USE DEF BenchInv
<1>1. UNCHANGED <<suite, rows, evalruns, req>> /\ runs[r].status = "armed"
  BY DEF RunEnds
<1>2. RunsInv'
  BY DEF RunEnds, RunsInv, _BINDABLE_RUN_STATES, OUTCOME_PASS_RESULTS
<1>3. Grows
  <2>1. \A s \in Runs : s # r => runs'[s] = runs[s]
    BY DEF RunEnds, RunsInv
  <2>2. Len(evalruns) \in Nat
    BY DEF RunsInv
  <2> QED
    BY <1>1, <2>1, <2>2 DEF Grows, Present, Stored
<1>4. TableInv(rows)'
  <2>1. PICK table : table = rows
    OBVIOUS
  <2>2. TableInv(table)'
    BY <1>2, <1>3, <2>1, TableKept DEF RowsInv
  <2> QED
    BY <1>1, <2>1, <2>2
<1>5. suite'.report # None => TableInv(suite.report.trials)'
  BY <1>1, <1>2, <1>3, ReportKept
<1>6. RowsInv'
  BY <1>1, <1>4, <1>5 DEF RowsInv, Present, Stored
<1>7. RepeatedInv'
  BY <1>1, <1>3, RepeatedKept
<1>8. SuiteInv'
  BY <1>1, SameSuite
<1> QED
  BY <1>1, <1>2, <1>3, <1>6, <1>7, <1>8, NoneMoves

\* Before it is created a suite has no rows and nobody is at work on it.
LEMMA CreateStep ==
    ASSUME BenchInv, NEW mode \in CorrelationMode, create_benchmark(mode)
    PROVE  BenchInv'
<1> USE DEF BenchInv
<1>1. /\ suite.status = None /\ suite = NoSuite /\ Present = {}
      /\ UNCHANGED <<rows, evalruns, runs, req>>
      /\ suite' = [status |-> "draft", mode |-> mode, frozen |-> None, report |-> None]
  BY DEF create_benchmark, create, SuiteInv, NoSuite
<1>2. SuiteInv'
  BY <1>1, EnumAssumption DEF SuiteInv, BenchmarkStatus, CorrelationMode
<1>3. RunsInv'
  BY <1>1 DEF RunsInv
<1>4. Stored(rows) = {} /\ Stored(rows)' = {} /\ Present' = {}
  BY <1>1 DEF Present, Stored
<1>5. RowsInv'
  BY <1>1, <1>4 DEF RowsInv, TableInv
<1>6. RepeatedInv'
  BY <1>4 DEF RepeatedInv
<1>7. ASSUME NEW v \in Requests PROVE ReqInv(req[v])'
  <2>1. ReqInv(req[v]) /\ req'[v] = req[v]
    BY <1>1 DEF RequestsInv
  <2>2. suite.mode = None /\ None # "imported_trajectory_replay"
    BY <1>1, EnumAssumption DEF NoSuite, CorrelationMode
  <2>3. req[v].pc \notin Replaying /\ req[v].pc \notin {"finalizing", "refused"}
    BY <1>1, <2>1, <2>2 DEF ReqInv
  <2> QED
    BY <2>1, <2>3 DEF ReqInv, Replaying, AtTrial, FoundInv
<1>8. RequestsInv'
  BY <1>1, <1>7 DEF RequestsInv
<1> QED
  BY <1>2, <1>3, <1>5, <1>6, <1>8

\* Variants are frozen once.
LEMMA FreezeStep ==
    ASSUME BenchInv, NEW frozen, freeze_variants(frozen), UNCHANGED <<rows, evalruns, runs, req>>
    PROVE  BenchInv'
<1> USE DEF BenchInv
<1>1. /\ suite.status = "draft" /\ suite.frozen = None
      /\ suite' = [status |-> suite.status, mode |-> suite.mode,
                   frozen |-> frozen, report |-> suite.report]
  BY DEF freeze_variants, _draft, SuiteInv
<1>2. SuiteInv'
  BY <1>1, EnumAssumption DEF SuiteInv, BenchmarkStatus, Present, Stored
<1>3. Grows /\ RunsInv' /\ RowsInv' /\ RepeatedInv'
  BY <1>1, QuietStep
<1> QED
  BY <1>2, <1>3, NoneMoves

-----------------------------------------------------------------------------
\* Imports

\* What a report is read as: trials that repeat nothing and do not count yet.
LEMMA Normalized ==
    ASSUME NEW report \in Reports, read_report(report), NEW mode
    PROVE  FoundInv(normalize(report, mode))
<1> DEFINE taken == normalize(report, mode)
           address(i) == _addresses(report, i)
<1>1. DOMAIN taken = {Imported(address(i).of) : i \in DOMAIN report}
  BY DEF normalize
<1>2. \A i \in DOMAIN report : Imported(address(i).of) \in Trials /\ Imported(address(i).of).rep = 0
  <2>1. \A i \in DOMAIN report : address(i).of \in Addresses
    BY DEF Addresses
  <2> QED
    BY <2>1, TrialForm, BenchmarksAssumption DEF Imported
<1>3. ASSUME NEW t \in DOMAIN taken
      PROVE  /\ t \in Trials /\ t.rep = 0 /\ taken[t] \in Row
             /\ ~ taken[t].eligible /\ taken[t].reason # None
             /\ taken[t].outcome_run = None /\ taken[t].variant = None
  <2>1. PICK i \in DOMAIN report :
            /\ i = CHOOSE j \in DOMAIN report : Imported(address(j).of) = t
            /\ Imported(address(i).of) = t
    BY <1>1
  <2>2. taken[t] = _trial(report[i], i, address(i), mode)
    BY <2>1 DEF normalize
  <2>3. address(i).addressable \in BOOLEAN
    BY DEF _addresses
  <2>4. report[i].call \in CallLevelResult /\ report[i].steps \in BOOLEAN
    BY RowAssumption DEF read_report
  <2>5. taken[t].scenario \in Scenarios
    <3>1. taken[t].scenario = _trial(report[i], i, address(i), "executed_browser").scenario
      BY <2>2 DEF _trial
    <3> QED
      BY <3>1 DEF Scenarios
  <2> HIDE DEF address
  <2>6. taken[t] \in Row
    BY <2>2, <2>3, <2>4, <2>5 DEF _trial, Row, OutcomeTrialResult, ExclusionReason
  <2>7. ~ taken[t].eligible /\ taken[t].outcome_run = None /\ taken[t].variant = None
        /\ taken[t].reason \in ExclusionReason
    BY <2>2 DEF _trial, ExclusionReason
  <2> QED
    BY <1>2, <2>1, <2>6, <2>7, EnumAssumption DEF address
<1> QED
  BY <1>1, <1>2, <1>3 DEF FoundInv

\* The report is read and kept for the insert.
LEMMA ImportStep ==
    ASSUME BenchInv, NEW w \in Requests, NEW report \in Reports, import_evaluator_report(w, report)
    PROVE  BenchInv'
<1>1. PICK taken : taken = normalize(report, suite.mode)
  OBVIOUS
<1>2. FoundInv(taken)
  <2>1. PICK mode : mode = suite.mode
    OBVIOUS
  <2> QED
    BY <1>1, <2>1, Normalized DEF import_evaluator_report
<1> DEFINE q == [NoRequest EXCEPT !.pc = "importing", !.found = taken]
<1>3. /\ UNCHANGED <<suite, rows, evalruns, runs>> /\ req' = [req EXCEPT ![w] = q]
  BY <1>1 DEF import_evaluator_report, prepare_import
<1>4. DOMAIN q = DOMAIN NoRequest /\ q.pc = "importing" /\ q.found = taken
  BY DEF NoRequest
<1> HIDE DEF q
<1>7. FoundInv(q.found)'
  BY <1>2, <1>4 DEF FoundInv
<1>8. ReqInv(q)'
  BY <1>4, <1>7 DEF ReqInv, RequestPoint, Replaying, AtTrial
<1>5. Grows /\ RunsInv' /\ RowsInv' /\ RepeatedInv'
  BY <1>3, QuietStep
<1>6. SuiteInv'
  BY <1>3, SameSuite
<1> QED
  BY <1>3, <1>4, <1>5, <1>6, <1>8, OneMoves

\* An import inserts rows where there were none, or none at all.
LEMMA RecordImportStep ==
    ASSUME BenchInv, NEW w \in Requests, record_import(w)
    PROVE  BenchInv'
<1> USE DEF BenchInv
<1>1. UNCHANGED <<suite, evalruns, runs>> /\ req' = [req EXCEPT ![w] = NoRequest]
  BY DEF record_import
<1>2. CASE rows' = rows
  BY <1>1, <1>2, EndedStep, SameSuite
<1>3. CASE rows' # rows
  <2>1. PICK taken : taken = req[w].found
    OBVIOUS
  <2>2. /\ FoundInv(taken) /\ suite.status = "draft"
        /\ \A t \in DOMAIN taken : rows[t] = None
        /\ rows' = [t \in Trials |-> IF t \in DOMAIN taken THEN taken[t] ELSE rows[t]]
    BY <1>3, <2>1 DEF record_import, RequestsInv, ReqInv, _draft
  <2>3. rows \in Table
    BY DEF RowsInv, TableInv
  <2>4. rows' \in Table
    BY <2>2, <2>3 DEF FoundInv, Table
  <2>5. /\ \A t \in Trials : t \notin DOMAIN taken => rows'[t] = rows[t]
        /\ \A t \in Trials : t \in DOMAIN taken =>
              rows'[t] = taken[t] /\ rows[t] = None /\ t.rep = 0
    BY <2>2 DEF FoundInv
  <2>6. RunsInv' /\ Len(evalruns) \in Nat
    BY <1>1 DEF RunsInv
  <2>7. Grows
    BY <1>1, <2>5, <2>6 DEF Grows, Present, Stored
  <2>8. \A t \in Present' :
          \/ t \in Present /\ rows'[t] = rows[t]
          \/ classify(rows'[t]) # None /\ rows'[t].outcome_run = None
    BY <2>2, <2>5 DEF Present, Stored, FoundInv, classify
  <2>9. TableInv(rows)'
    <3>1. PICK table : table = rows
      OBVIOUS
    <3>2. TableInv(table)'
      BY <2>6, <2>7, <3>1, TableKept DEF RowsInv
    <3> QED
      BY <2>4, <2>8, <3>1, <3>2 DEF TableInv, Present, Stored, classify, Backed, exclusion_for
  <2>10. RowsInv'
    BY <1>1, <2>6, <2>7, <2>8, <2>9, ReportKept DEF RowsInv
  <2>11. RepeatedInv'
    BY <2>5, <2>7, RepeatedKept
  <2>12. SuiteInv'
    BY <1>1, <2>2, EnumAssumption DEF SuiteInv, BenchmarkStatus
  <2>13. ReqInv(NoRequest)' /\ NoRequest.pc # "executing"
    BY NoRequestRight DEF NoRequest
  <2> QED
    BY <1>1, <2>6, <2>7, <2>10, <2>11, <2>12, <2>13, OneMoves
<1> QED
  BY <1>2, <1>3

-----------------------------------------------------------------------------
\* Bindings and their seal

\* A binding takes a trial that has no evidence yet, so one that does not count, and a
\* run that no other trial has.
LEMMA BoundTable ==
    ASSUME BenchInv, suite.status = "draft", NEW bound \in SUBSET Present,
           NEW bindings \in [bound -> TrialBinding], NEW acknowledged, bind(bindings, acknowledged)
    PROVE  /\ TableInv(_save_binding(bindings))
           /\ suite.mode = "imported_trajectory_replay" =>
                \A t \in Stored(_save_binding(bindings)) :
                    _save_binding(bindings)[t].outcome_run = None
           /\ \A t \in Trials :
                /\ _save_binding(bindings)[t] # None <=> rows[t] # None
                /\ rows[t] # None =>
                     /\ _save_binding(bindings)[t].steps = rows[t].steps
                     /\ _save_binding(bindings)[t].call = rows[t].call
                     /\ _save_binding(bindings)[t].variant = rows[t].variant
<1> USE DEF BenchInv
<1>1. /\ rows \in Table /\ \A t \in Present : t \in Trials /\ rows[t] \in Row /\ rows[t] # None
      /\ evalruns \in Seq(EvaluationRun) /\ Len(evalruns) \in Nat /\ suite.mode \in CorrelationMode
  BY EnumAssumption DEF RowsInv, TableInv, Table, Present, Stored, RunsInv, SuiteInv, BenchmarkStatus
<1>2. PICK new : new = _save_binding(bindings)
  OBVIOUS
<1>3. new = [t \in Trials |->
               IF t \notin bound THEN rows[t]
               ELSE IF suite.mode = "executed_browser"
                    THEN [rows[t] EXCEPT !.outcome_run = bindings[t]]
                    ELSE [rows[t] EXCEPT !.evaluation_run = bindings[t]]]
  BY <1>2 DEF _save_binding
<1>4. \A t \in bound : /\ t \in Present /\ rows[t].outcome_run = None
                       /\ rows[t].evaluation_run = None /\ bindings[t] \in TrialBinding
  BY DEF bind, Bindable
<1>5. ASSUME NEW t \in Present
      PROVE  /\ new[t] \in Row /\ new[t] # None
             /\ new[t].steps = rows[t].steps /\ new[t].call = rows[t].call
             /\ new[t].variant = rows[t].variant
             /\ classify(new[t]) = classify(rows[t])
             /\ new[t].outcome_run = (IF t \in bound /\ suite.mode = "executed_browser"
                                      THEN bindings[t] ELSE rows[t].outcome_run)
  <2>1. new[t] \in Row
    <3>1. CASE t \notin bound
      BY <1>1, <1>3, <3>1
    <3>2. CASE t \in bound /\ suite.mode = "executed_browser"
      <4>1. bindings[t] \in Runs
        BY <1>4, <3>2 DEF TrialBinding
      <4> QED
        BY <1>1, <1>3, <3>2, <4>1 DEF Row
    <3>3. CASE t \in bound /\ suite.mode # "executed_browser"
      <4>1. bindings[t] \in Nat \cup {None}
        BY <1>1, <1>4, <3>3 DEF TrialBinding
      <4> QED
        BY <1>1, <1>3, <3>3, <4>1 DEF Row
    <3> QED
      BY <3>1, <3>2, <3>3
  <2>2. new[t] # None
    BY <2>1, RowAssumption
  <2>3. rows[t] \in Row /\ t \in Trials
    BY <1>1
  <2>4. /\ new[t].steps = rows[t].steps /\ new[t].call = rows[t].call
        /\ new[t].variant = rows[t].variant /\ new[t].eligible = rows[t].eligible
        /\ new[t].reason = rows[t].reason /\ new[t].outcome = rows[t].outcome
        /\ new[t].outcome_run = (IF t \in bound /\ suite.mode = "executed_browser"
                                 THEN bindings[t] ELSE rows[t].outcome_run)
    BY <1>3, <2>3 DEF Row
  <2> QED
    BY <2>1, <2>2, <2>4 DEF classify
<1>6. Stored(new) = Present /\ \A t \in Trials : new[t] # None <=> rows[t] # None
  <2>1. \A t \in Trials : rows[t] = None => new[t] = None
    BY <1>1, <1>3, <1>4
  <2> QED
    BY <1>5, <2>1 DEF Stored, Present
<1>7. new \in Table
  BY <1>1, <1>3, <1>5, <1>6 DEF Table, Present, Stored
<1>8. ASSUME NEW t \in Present, classify(new[t]) = None
      PROVE  Backed(t, new[t])
  <2>1. Backed(t, rows[t])
    BY <1>5, <1>8 DEF RowsInv, TableInv, Present
  <2>2. t \notin bound
    BY <1>1, <1>4, <2>1, BenchmarksAssumption DEF Backed
  <2>3. new[t] = rows[t]
    BY <1>1, <1>3, <2>2
  <2> QED
    BY <2>1, <2>3
<1>9. ASSUME NEW t \in Present, new[t].outcome_run # None
      PROVE  runs[new[t].outcome_run].status # "armed"
  <2>1. CASE t \in bound /\ suite.mode = "executed_browser"
    BY <1>5, <2>1 DEF bind, _check_outcome_run, _BINDABLE_RUN_STATES
  <2>2. CASE ~ (t \in bound /\ suite.mode = "executed_browser")
    BY <1>5, <1>9, <2>2 DEF RowsInv, TableInv, Present
  <2> QED
    BY <2>1, <2>2
<1>10. ASSUME NEW t \in Present, NEW u \in Present, new[t].outcome_run # None,
              new[t].outcome_run = new[u].outcome_run
       PROVE  t = u
  <2>1. CASE suite.mode # "executed_browser" \/ (t \notin bound /\ u \notin bound)
    BY <1>5, <1>10, <2>1 DEF RowsInv, TableInv, Present
  <2>2. CASE suite.mode = "executed_browser" /\ t \in bound /\ u \in bound
    BY <1>5, <1>10, <2>2 DEF bind
  <2>3. CASE suite.mode = "executed_browser" /\ t \in bound /\ u \notin bound
    BY <1>5, <1>10, <2>3 DEF bind, _check_outcome_run
  <2>4. CASE suite.mode = "executed_browser" /\ t \notin bound /\ u \in bound
    BY <1>5, <1>10, <2>4 DEF bind, _check_outcome_run
  <2> QED
    BY <2>1, <2>2, <2>3, <2>4
<1>11. TableInv(new)
  BY <1>6, <1>7, <1>8, <1>9, <1>10 DEF TableInv
<1>12. suite.mode = "imported_trajectory_replay" =>
          \A t \in Stored(new) : new[t].outcome_run = None
  BY <1>5, <1>6 DEF RowsInv
<1> QED
  BY <1>2, <1>5, <1>6, <1>11, <1>12 DEF Present, Stored

\* What a run's verdict makes of a trial.
LEMMA DerivedRow ==
    ASSUME RunsInv, NEW rec \in Row, rec.outcome_run # None
    PROVE  LET new == _derive_bound_outcomes(rec) IN
           /\ new \in Row /\ new.outcome_run = rec.outcome_run
           /\ new.steps = rec.steps /\ new.call = rec.call /\ new.variant = rec.variant
           /\ classify(new) = None => runs[rec.outcome_run].overall = new.outcome
<1>1. PICK was : was = runs[rec.outcome_run]
  OBVIOUS
<1>2. /\ rec.outcome_run \in Runs
      /\ was.overall \in OUTCOME_PASS_RESULTS \cup {"failed", None}
  BY <1>1 DEF RunsInv, Row
<1>3. PICK outcome : outcome = _outcome_of_run(was)
  OBVIOUS
<1>4. /\ outcome \in OutcomeTrialResult
      /\ outcome \notin EXCLUDED_OUTCOME_RESULTS => was.overall = outcome
  <2>1. CASE was.overall = None
    BY <1>3, <2>1 DEF _outcome_of_run, OutcomeTrialResult, EXCLUDED_OUTCOME_RESULTS
  <2>2. CASE was.overall # None
    BY <1>2, <1>3, <2>2
    DEF _outcome_of_run, outcome_from_layer_result, OutcomeTrialResult, OUTCOME_PASS_RESULTS
  <2> QED
    BY <2>1, <2>2
<1>5. PICK reason : reason = exclusion_for(rec.call, outcome)
  OBVIOUS
<1>6. /\ reason \in ExclusionReason \cup {None}
      /\ reason = None => outcome \notin EXCLUDED_OUTCOME_RESULTS
  BY <1>5, EnumAssumption DEF exclusion_for, ExclusionReason
<1>7. PICK new : new = [rec EXCEPT !.outcome = outcome, !.eligible = reason = None,
                                   !.reason = reason]
  OBVIOUS
<1>8. new = _derive_bound_outcomes(rec)
  BY <1>1, <1>3, <1>5, <1>7 DEF _derive_bound_outcomes
<1>9. /\ new \in Row /\ new.outcome_run = rec.outcome_run
      /\ new.steps = rec.steps /\ new.call = rec.call /\ new.variant = rec.variant
      /\ new.outcome = outcome /\ new.eligible = (reason = None) /\ new.reason = reason
  BY <1>4, <1>6, <1>7 DEF Row
<1>10. classify(new) = None => reason = None
  BY <1>9 DEF classify
<1> QED
  BY <1>1, <1>4, <1>6, <1>8, <1>9, <1>10

\* What the seal leaves of a trial that was bound to no run.
LEMMA UnboundRow ==
    ASSUME NEW rec \in Row
    PROVE  LET new == _mark_unbound_excluded(rec) IN
           /\ new \in Row /\ new.outcome_run = rec.outcome_run
           /\ new.steps = rec.steps /\ new.call = rec.call /\ new.variant = rec.variant
           /\ new = rec \/ classify(new) # None
<1>1. CASE _mark_unbound_excluded(rec) = rec
  BY <1>1
<1>2. CASE _mark_unbound_excluded(rec) # rec
  <2>1. PICK new : new = [rec EXCEPT !.eligible = FALSE, !.reason = "unbound"]
    OBVIOUS
  <2>2. new = _mark_unbound_excluded(rec)
    BY <1>2, <2>1 DEF _mark_unbound_excluded
  <2>3. /\ new \in Row /\ new.outcome_run = rec.outcome_run
        /\ new.steps = rec.steps /\ new.call = rec.call /\ new.variant = rec.variant
        /\ new.eligible = FALSE /\ new.reason = "unbound"
    BY <2>1 DEF Row, ExclusionReason
  <2>4. classify(new) # None
    BY <2>3, EnumAssumption DEF classify, ExclusionReason
  <2> QED
    BY <2>2, <2>3, <2>4
<1> QED
  BY <1>1, <1>2

\* The seal gives every bound trial its run's verdict and leaves the rest out.
LEMMA SealedTable ==
    ASSUME RunsInv, NEW table, TableInv(table), suite.mode \in CorrelationMode,
           suite.mode = "imported_trajectory_replay" =>
               \A t \in Stored(table) : table[t].outcome_run = None
    PROVE  /\ TableInv(seal(table))
           /\ suite.mode = "imported_trajectory_replay" =>
                \A t \in Stored(seal(table)) : seal(table)[t].outcome_run = None
           /\ \A t \in Trials :
                /\ seal(table)[t] # None <=> table[t] # None
                /\ table[t] # None =>
                     /\ seal(table)[t].steps = table[t].steps
                     /\ seal(table)[t].call = table[t].call
                     /\ seal(table)[t].variant = table[t].variant
<1>1. PICK new : new = seal(table)
  OBVIOUS
<1>2. table \in Table /\ \A t \in Stored(table) : t \in Trials /\ table[t] \in Row /\ table[t] # None
  BY DEF TableInv, Table, Stored
<1>3. ASSUME NEW t \in Stored(table)
      PROVE  /\ new[t] \in Row /\ new[t] # None /\ new[t].outcome_run = table[t].outcome_run
             /\ new[t].steps = table[t].steps /\ new[t].call = table[t].call
             /\ new[t].variant = table[t].variant
             /\ classify(new[t]) = None => Backed(t, new[t])
  <2>1. CASE table[t].outcome_run # None
    <3>1. new[t] = _derive_bound_outcomes(table[t])
      BY <1>1, <1>2, <2>1 DEF seal
    <3>2. suite.mode = "executed_browser"
      BY <2>1 DEF CorrelationMode
    <3>3. /\ new[t] \in Row /\ new[t].outcome_run = table[t].outcome_run
          /\ new[t].steps = table[t].steps /\ new[t].call = table[t].call
          /\ new[t].variant = table[t].variant
          /\ classify(new[t]) = None => runs[table[t].outcome_run].overall = new[t].outcome
      BY <1>2, <2>1, <3>1, DerivedRow
    <3> QED
      BY <2>1, <3>2, <3>3, RowAssumption DEF Backed
  <2>2. CASE table[t].outcome_run = None
    <3>1. new[t] = _mark_unbound_excluded(table[t])
      BY <1>1, <1>2, <2>2 DEF seal
    <3>2. /\ new[t] \in Row /\ new[t].outcome_run = table[t].outcome_run
          /\ new[t].steps = table[t].steps /\ new[t].call = table[t].call
          /\ new[t].variant = table[t].variant
          /\ new[t] = table[t] \/ classify(new[t]) # None
      BY <1>2, <3>1, UnboundRow
    <3> QED
      BY <3>2, RowAssumption DEF TableInv
  <2> QED
    BY <2>1, <2>2
<1>4. \A t \in Trials : table[t] = None => new[t] = None
  BY <1>1 DEF seal
<1>5. Stored(new) = Stored(table)
  BY <1>3, <1>4 DEF Stored
<1>6. new \in Table
  <2>1. \A t \in Trials : new[t] \in Row \cup {None}
    BY <1>3, <1>4 DEF Stored
  <2>2. new = [t \in Trials |-> new[t]]
    BY <1>1 DEF seal
  <2> QED
    BY <2>1, <2>2 DEF Table
<1>7. TableInv(new)
  BY <1>3, <1>5, <1>6 DEF TableInv
<1> QED
  BY <1>1, <1>3, <1>4, <1>5, <1>7 DEF Stored

\* The bindings of a request, sealed or not, leave every trial that counts backed.
LEMMA SaveStep ==
    ASSUME BenchInv, NEW bound \in SUBSET Present, NEW bindings \in [bound -> TrialBinding],
           NEW acknowledged, NEW seals \in BOOLEAN, save_bindings(bindings, acknowledged, seals)
    PROVE  BenchInv'
<1> USE DEF BenchInv
<1>1. /\ suite.status = "draft" /\ suite.mode \in CorrelationMode
      /\ UNCHANGED <<evalruns, runs, req>>
      /\ suite' = [status |-> IF seals THEN "ready" ELSE suite.status, mode |-> suite.mode,
                   frozen |-> suite.frozen, report |-> suite.report]
  BY EnumAssumption DEF save_bindings, _draft, SuiteInv, BenchmarkStatus
<1>2. PICK half : half = _save_binding(bindings)
  OBVIOUS
<1>3. /\ TableInv(half)
      /\ suite.mode = "imported_trajectory_replay" =>
            \A t \in Stored(half) : half[t].outcome_run = None
      /\ \A t \in Trials :
            /\ half[t] # None <=> rows[t] # None
            /\ rows[t] # None => /\ half[t].steps = rows[t].steps /\ half[t].call = rows[t].call
                                 /\ half[t].variant = rows[t].variant
  BY <1>1, <1>2, BoundTable DEF save_bindings
<1>4. PICK new : new = IF seals THEN seal(half) ELSE half
  OBVIOUS
<1>5. /\ TableInv(new)
      /\ suite.mode = "imported_trajectory_replay" =>
            \A t \in Stored(new) : new[t].outcome_run = None
      /\ \A t \in Trials :
            /\ new[t] # None <=> rows[t] # None
            /\ rows[t] # None => /\ new[t].steps = rows[t].steps /\ new[t].call = rows[t].call
                                 /\ new[t].variant = rows[t].variant
  <2>1. CASE seals
    BY <1>1, <1>3, <1>4, <2>1, SealedTable
  <2>2. CASE ~ seals
    BY <1>3, <1>4, <2>2
  <2> QED
    BY <2>1, <2>2
<1>6. rows' = new
  BY <1>2, <1>4 DEF save_bindings
<1>7. RunsInv' /\ Len(evalruns) \in Nat
  BY <1>1 DEF RunsInv
<1>8. Grows
  BY <1>1, <1>5, <1>6, <1>7, EnumAssumption DEF Grows, Present, Stored, BenchmarkStatus
<1>9. TableInv(rows)'
  <2>1. TableInv(new)'
    BY <1>5, <1>7, <1>8, TableKept
  <2> QED
    BY <1>6, <2>1
<1>10. RowsInv'
  BY <1>1, <1>5, <1>6, <1>7, <1>8, <1>9, ReportKept DEF RowsInv, Present
<1>11. RepeatedInv'
  BY <1>5, <1>6, <1>8, RepeatedKept
<1>12. SuiteInv'
  BY <1>1, EnumAssumption DEF SuiteInv, BenchmarkStatus
<1> QED
  BY <1>1, <1>7, <1>8, <1>10, <1>11, <1>12, NoneMoves

-----------------------------------------------------------------------------
\* Finalizing

\* A suite that has a status goes on having one of the enumeration's.
LEMMA StatusStep ==
    ASSUME BenchInv, suite.status # None, UNCHANGED rows, NEW status \in BenchmarkStatus, NEW report,
           suite' = [status |-> status, mode |-> suite.mode,
                     frozen |-> suite.frozen, report |-> report]
    PROVE  SuiteInv' /\ suite'.status # None
BY EnumAssumption DEF BenchInv, SuiteInv

\* The report is counted from the suite's own rows.
LEMMA FinalizeStep ==
    ASSUME BenchInv, NEW w \in Requests, finalize_benchmark(w)
    PROVE  BenchInv'
<1> USE DEF BenchInv
<1>1. UNCHANGED <<suite, rows, evalruns, runs>> /\ suite.status # None /\ SuiteInv'
  BY SameSuite DEF finalize_benchmark
<1>2. CASE prepare_finalize
  <2>1. PICK report : report = summarize(rows)
    OBVIOUS
  <2>2. report.trials = rows
    BY <2>1 DEF summarize
  <2> DEFINE q == [NoRequest EXCEPT !.pc = "finalizing", !.report = report]
  <2>3. req' = [req EXCEPT ![w] = q]
    BY <1>2, <2>1 DEF finalize_benchmark
  <2>4. DOMAIN q = DOMAIN NoRequest /\ q.pc = "finalizing" /\ q.report = report
    BY DEF NoRequest
  <2> HIDE DEF q
  <2>5. Grows /\ RunsInv' /\ RowsInv' /\ RepeatedInv'
    BY <1>1, QuietStep
  <2>6. TableInv(q.report.trials)'
    BY <1>1, <2>2, <2>4, <2>5 DEF RowsInv
  <2>7. ReqInv(q)'
    BY <1>1, <2>4, <2>6 DEF ReqInv, RequestPoint, Replaying, AtTrial
  <2> QED
    BY <1>1, <2>3, <2>4, <2>5, <2>7, OneMoves
<1>3. CASE ~ prepare_finalize
  <2>1. req' = [req EXCEPT ![w] = [NoRequest EXCEPT !.pc = "refused"]]
    BY <1>3 DEF finalize_benchmark
  <2> QED
    BY <1>1, <2>1, EndedStep
<1> QED
  BY <1>2, <1>3

\* The seal keeps the report that was counted.
LEMMA SealFinalizeStep ==
    ASSUME BenchInv, NEW w \in Requests, seal_finalize(w)
    PROVE  BenchInv'
<1> USE DEF BenchInv
<1>1. /\ UNCHANGED <<rows, evalruns, runs>> /\ req[w].pc = "finalizing"
      /\ suite.status # None /\ TableInv(req[w].report.trials)
  BY DEF seal_finalize, RequestsInv, ReqInv
<1>2. CASE require_transition(suite.status, "completed", suite.mode)
  <2>1. PICK report : report = req[w].report
    OBVIOUS
  <2>2. /\ suite' = [status |-> "completed", mode |-> suite.mode,
                     frozen |-> suite.frozen, report |-> report]
        /\ req' = [req EXCEPT ![w] = NoRequest]
    BY <1>2, <2>1 DEF seal_finalize, SuiteInv
  <2>3. "completed" \in BenchmarkStatus
    BY DEF BenchmarkStatus
  <2>4. SuiteInv' /\ suite'.status # None
    BY <1>1, <2>2, <2>3, StatusStep
  <2>5. TableInv(report.trials) /\ suite'.report.trials = report.trials
    BY <1>1, <2>1, <2>2
  <2> QED
    BY <1>1, <2>2, <2>4, <2>5, EndedStep
<1>3. CASE ~ require_transition(suite.status, "completed", suite.mode)
  <2>1. UNCHANGED suite /\ req' = [req EXCEPT ![w] = [NoRequest EXCEPT !.pc = "refused"]]
    BY <1>3 DEF seal_finalize
  <2> QED
    BY <1>1, <2>1, EndedStep, SameSuite
<1> QED
  BY <1>2, <1>3

\* A refused request marks the suite at most.
LEMMA MarkErrorStep ==
    ASSUME BenchInv, NEW w \in Requests, mark_error(w)
    PROVE  BenchInv'
<1> USE DEF BenchInv
<1>1. /\ UNCHANGED <<rows, evalruns, runs>> /\ req' = [req EXCEPT ![w] = NoRequest]
      /\ suite.status # None
  BY DEF mark_error, RequestsInv, ReqInv
<1>2. CASE UNCHANGED suite
  BY <1>1, <1>2, EndedStep, SameSuite
<1>3. CASE ~ UNCHANGED suite
  <2>1. suite' = [status |-> "error", mode |-> suite.mode,
                  frozen |-> suite.frozen, report |-> suite.report]
    BY <1>3 DEF mark_error, SuiteInv
  <2>2. "error" \in BenchmarkStatus
    BY DEF BenchmarkStatus
  <2>3. SuiteInv' /\ suite'.status # None
    BY <1>1, <2>1, <2>2, StatusStep
  <2> QED
    BY <1>1, <2>1, <2>3, EndedStep
<1> QED
  BY <1>2, <1>3

\* A request that is dropped leaves what it wrote.
LEMMA DroppedStep ==
    ASSUME BenchInv, NEW w \in Requests, Dropped(w)
    PROVE  BenchInv'
BY EndedStep, SameSuite DEF Dropped

-----------------------------------------------------------------------------
\* The replaying requests

\* What a request that goes on to its next trial relies on.
Onward(r) ==
    /\ DOMAIN r = DOMAIN NoRequest
    /\ suite.mode = "imported_trajectory_replay"
    /\ r.plan = None => r.todo \subseteq Present
    /\ r.plan # None => PlanInv(r)

\* It finds its next trial, its next repetition or its end.
LEMMA AdvanceRight ==
    ASSUME NEW r, Onward(r)
    PROVE  ReqInv(Advance(r)) /\ Advance(r).pc # "executing"
<1>1. PICK q : q = Advance(r)
  OBVIOUS
<1>2. CASE r.todo = {}
  BY <1>2, NoRequestRight DEF Advance, NoRequest
<1>3. CASE r.todo # {} /\ r.plan # None
  <2>1. q = [r EXCEPT !.pc = "repeating", !.trial = None, !.run = None]
    BY <1>1, <1>3 DEF Advance
  <2>2. /\ DOMAIN q = DOMAIN NoRequest /\ q.pc = "repeating"
        /\ q.plan = r.plan /\ q.todo = r.todo
    BY <2>1 DEF Onward, NoRequest
  <2>3. PlanInv(q)
    <3>1. PlanInv(r)
      BY <1>3 DEF Onward
    <3>2. PICK first \in 1..(MaxReps + 1), last \in 0..MaxReps :
            /\ r.todo = {[of |-> r.plan.source.of, rep |-> i] : i \in first..last}
            /\ \A i \in 1..(first - 1) : rows[[of |-> r.plan.source.of, rep |-> i]] # None
      BY <3>1 DEF PlanInv
    <3>3. first <= last
      BY <1>3, <3>2, BenchmarksAssumption
    <3> QED
      BY <2>2, <3>1, <3>2, <3>3 DEF PlanInv
  <2>4. ReqInv(q)
    BY <1>3, <2>2, <2>3 DEF ReqInv, Onward, RequestPoint, Replaying, AtTrial
  <2> QED
    BY <1>1, <2>2, <2>4
<1>4. CASE r.todo # {} /\ r.plan = None
  <2>1. PICK t : t = First(r.todo)
    OBVIOUS
  <2>2. t \in r.todo
    BY <1>4, <2>1 DEF First
  <2>3. q = [r EXCEPT !.pc = "trial", !.trial = t, !.todo = r.todo \ {t}, !.run = None]
    BY <1>1, <1>4, <2>1 DEF Advance
  <2>4. /\ DOMAIN q = DOMAIN NoRequest /\ q.pc = "trial" /\ q.trial = t
        /\ q.plan = None /\ q.todo \subseteq r.todo
    BY <1>4, <2>3 DEF Onward, NoRequest
  <2>5. ReqInv(q)
    BY <1>4, <2>2, <2>4 DEF ReqInv, Onward, RequestPoint, Replaying, AtTrial
  <2> QED
    BY <1>1, <2>4, <2>5
<1> QED
  BY <1>2, <1>3, <1>4

\* A step after which one request, that was right before, goes on from there.
LEMMA GoesOn ==
    ASSUME BenchInv, Grows, SuiteInv', RunsInv', RowsInv', RepeatedInv',
           NEW w \in Requests, NEW q, req' = [req EXCEPT ![w] = q], ReqInv(q), q.pc # "executing",
           \A v \in Requests \ {w} : req[v].pc = "executing" =>
               evalruns'[req[v].run] = evalruns[req[v].run]
    PROVE  BenchInv'
<1>1. rows' \in Table
  BY DEF RowsInv, TableInv
<1>2. ReqInv(q)'
  BY <1>1, ReqKept DEF BenchInv
<1> QED
  BY <1>2, OneMoves

\* The trials to replay are those of the suite.
LEMMA TrialReplayStep ==
    ASSUME BenchInv, NEW w \in Requests, replay_benchmark(w)
    PROVE  BenchInv'
<1> DEFINE q == [NoRequest EXCEPT !.pc = "starting", !.todo = Present]
<1>1. UNCHANGED <<suite, rows, evalruns, runs>> /\ req' = [req EXCEPT ![w] = q]
  BY DEF replay_benchmark
<1>2. DOMAIN q = DOMAIN NoRequest /\ q.pc = "starting" /\ q.todo = Present /\ q.plan = None
  BY DEF NoRequest
<1> HIDE DEF q
<1>3. ReqInv(q)
  BY <1>2 DEF replay_benchmark, ReqInv, RequestPoint, Replaying, AtTrial
<1>4. Grows /\ RunsInv' /\ RowsInv' /\ RepeatedInv'
  BY <1>1, QuietStep
<1> QED
  BY <1>1, <1>2, <1>3, <1>4, SameSuite, GoesOn

\* The suite starts running, if it may, and the first trial is up.
LEMMA StartStep ==
    ASSUME BenchInv, NEW w \in Requests, start(w)
    PROVE  BenchInv'
<1> USE DEF BenchInv
<1>1. /\ UNCHANGED <<rows, evalruns, runs>> /\ req[w].pc = "starting"
      /\ suite.mode = "imported_trajectory_replay" /\ Onward(req[w])
  BY DEF start, RequestsInv, ReqInv, Onward, Replaying
<1>2. CASE require_transition(suite.status, "running", None)
  <2>1. PICK r : r = req[w]
    OBVIOUS
  <2>2. PICK q : q = Advance(r)
    OBVIOUS
  <2>3. ReqInv(q) /\ q.pc # "executing"
    BY <1>1, <2>1, <2>2, AdvanceRight
  <2>4. /\ suite' = [status |-> "running", mode |-> suite.mode,
                     frozen |-> suite.frozen, report |-> suite.report]
        /\ req' = [req EXCEPT ![w] = q]
    BY <1>2, <2>1, <2>2 DEF start, SuiteInv, RequestsInv
  <2>5. suite.status # None /\ "running" \in BenchmarkStatus
    BY <1>1, EnumAssumption DEF SuiteInv, NoSuite, CorrelationMode, BenchmarkStatus
  <2>6. SuiteInv' /\ suite'.status # None
    BY <1>1, <2>4, <2>5, StatusStep
  <2>7. Grows /\ RunsInv' /\ RowsInv' /\ RepeatedInv'
    BY <1>1, <2>4, <2>6, QuietStep
  <2> QED
    BY <1>1, <2>3, <2>4, <2>6, <2>7, GoesOn
<1>3. CASE ~ require_transition(suite.status, "running", None)
  <2>1. UNCHANGED suite /\ req' = [req EXCEPT ![w] = NoRequest]
    BY <1>3 DEF start
  <2> QED
    BY <1>1, <2>1, EndedStep, SameSuite
<1> QED
  BY <1>2, <1>3

\* A bounded set of numbers that has a member has a highest one.
LEMMA HighestNumber ==
    ASSUME NEW n \in Nat, NEW S, S \subseteq 1..n, S # {}
    PROVE  \E x \in S : \A y \in S : y <= x
<1>1. PICK R : R = {ss \in Nat \X Nat : ss[1] < ss[2]}
  OBVIOUS
<1>2. IsWellFoundedOn(R, Nat)
  BY <1>1, NatLessThanWellFounded DEF OpToRel
<1>3. PICK T : T = {n - x : x \in S}
  OBVIOUS
<1>4. T \subseteq Nat /\ T # {}
  <2>1. \A x \in S : n - x \in Nat
    OBVIOUS
  <2>2. PICK z \in S : TRUE
    OBVIOUS
  <2>3. n - z \in T
    BY <1>3, <2>2
  <2> QED
    BY <1>3, <2>1, <2>3
<1>5. PICK d \in T : \A e \in T : ~ (<<e, d>> \in R)
  BY <1>2, <1>4, WFMin
<1>6. PICK x \in S : d = n - x
  BY <1>3, <1>5
<1>7. ASSUME NEW y \in S PROVE y <= x
  <2>1. n - y \in T /\ n - y \in Nat /\ d \in Nat
    BY <1>3, <1>4, <1>5
  <2>2. ~ (n - y < d)
    BY <1>1, <1>5, <2>1
  <2> QED
    BY <1>6, <2>2
<1> QED
  BY <1>7

\* The next index of a trial follows on indices that are all there.
LEMMA NextIndex ==
    ASSUME RepeatedInv, NEW a \in Addresses
    PROVE  LET next == _next_repetition_index(a) IN
           /\ next \in 1..(MaxReps + 1)
           /\ \A i \in 1..(next - 1) : rows[[of |-> a, rep |-> i]] # None
<1>1. PICK S : S = Repetitions(a)
  OBVIOUS
<1>2. MaxReps \in Nat
  BY BenchmarksAssumption
<1>3. \A n \in S : n \in 1..MaxReps /\ \A i \in 1..n : rows[[of |-> a, rep |-> i]] # None
  <2>1. ASSUME NEW u \in Present, u.of = a, u.rep > 0
        PROVE  u.rep \in 1..MaxReps /\ \A i \in 1..u.rep : rows[[of |-> a, rep |-> i]] # None
    BY <1>2, <2>1, TrialForm DEF RepeatedInv, Present, Stored
  <2> QED
    BY <1>1, <2>1 DEF Repetitions
<1>4. CASE S = {}
  BY <1>1, <1>2, <1>4 DEF _next_repetition_index
<1>5. CASE S # {}
  <2>1. PICK x : x = CHOOSE n \in S : \A m \in S : m <= n
    OBVIOUS
  <2>2. x \in S
    BY <1>2, <1>3, <1>5, <2>1, HighestNumber
  <2>3. _next_repetition_index(a) = 1 + x
    BY <1>1, <1>5, <2>1 DEF _next_repetition_index
  <2> QED
    BY <1>2, <1>3, <2>2, <2>3
<1> QED
  BY <1>4, <1>5

\* A batch is planned from the highest index the suite has at that moment.
LEMMA PlanStep ==
    ASSUME BenchInv, NEW w \in Requests, NEW t \in Present, NEW count \in 1..MaxBatch,
           NEW variant \in {None} \cup 0..MaxVariants, run_repeated_trials(w, t, count, variant)
    PROVE  BenchInv'
<1> USE DEF BenchInv
<1>1. PICK first : first = _next_repetition_index(t.of)
  OBVIOUS
<1>2. PICK last : last = first + count - 1
  OBVIOUS
<1>3. t \in Trials /\ t.of \in Addresses /\ MaxReps \in Nat /\ MaxBatch \in Nat
  BY TrialForm, BenchmarksAssumption DEF Present, Stored
<1>4. /\ first \in 1..(MaxReps + 1)
      /\ \A i \in 1..(first - 1) : rows[[of |-> t.of, rep |-> i]] # None
  BY <1>1, <1>3, NextIndex
<1>5. PICK todo : todo = RepetitionPlan(t.of, first, count)
  OBVIOUS
<1>6. todo = {[of |-> t.of, rep |-> i] : i \in first..last}
  BY <1>2, <1>5 DEF RepetitionPlan
<1>7. PICK plan : plan = [source |-> t, variant |-> variant]
  OBVIOUS
<1>8. plan \in Plan /\ plan.source = t /\ plan.variant = variant /\ plan # None
  BY <1>3, <1>7, BenchmarksAssumption, RowAssumption DEF Plan
<1> DEFINE q == [NoRequest EXCEPT !.pc = "repeating", !.plan = plan, !.todo = todo]
<1>9. UNCHANGED <<suite, rows, evalruns, runs>> /\ req' = [req EXCEPT ![w] = q]
  BY <1>1, <1>5, <1>7 DEF run_repeated_trials
<1>10. DOMAIN q = DOMAIN NoRequest /\ q.pc = "repeating" /\ q.todo = todo /\ q.plan = plan
  BY DEF NoRequest
<1> HIDE DEF q
<1>11. last \in 0..MaxReps /\ first <= last
  BY <1>1, <1>2, <1>3, <1>4 DEF run_repeated_trials
<1>12. PlanInv(q)
  <2>1. /\ t.rep = 0 /\ rows[t] # None /\ rows[t].steps
        /\ variant # None => suite.frozen # None /\ variant < Len(suite.frozen)
    BY DEF run_repeated_trials, plan_repetitions, _has_trajectory, _check_variant
  <2> QED
    BY <1>4, <1>6, <1>8, <1>10, <1>11, <2>1 DEF PlanInv
<1>13. ReqInv(q)
  BY <1>8, <1>10, <1>12
  DEF run_repeated_trials, plan_repetitions, ReqInv, RequestPoint, Replaying, AtTrial
<1>14. Grows /\ RunsInv' /\ RowsInv' /\ RepeatedInv'
  BY <1>9, QuietStep
<1> QED
  BY <1>9, <1>10, <1>13, <1>14, SameSuite, GoesOn

\* One row is written, which counts only if it is backed.
LEMMA RowStep ==
    ASSUME BenchInv, RunsInv', Grows, suite.mode = "imported_trajectory_replay",
           UNCHANGED suite, NEW t \in Trials, NEW new \in Row, rows' = [rows EXCEPT ![t] = new],
           new.outcome_run = None, classify(new) = None => Backed(t, new)'
    PROVE  RowsInv' /\ rows' \in Table
<1> USE DEF BenchInv
<1>1. PICK table : table = rows
  OBVIOUS
<1>2. TableInv(table)'
  BY <1>1, TableKept DEF RowsInv
<1>3. /\ rows \in Table /\ rows' \in Table /\ rows'[t] = new
      /\ \A u \in Trials : u # t => rows'[u] = table[u]
  BY <1>1 DEF RowsInv, TableInv, Table
<1>4. \A u \in Present' : rows'[u].outcome_run = None
  BY <1>1, <1>3 DEF RowsInv, Present, Stored
<1>5. ASSUME NEW u \in Present', classify(rows'[u]) = None PROVE Backed(u, rows[u])'
  <2>1. CASE u = t
    BY <1>3, <1>5, <2>1
  <2>2. CASE u # t
    <3>1. u \in Stored(table) /\ rows'[u] = table[u]
      BY <1>3, <2>2 DEF Present, Stored
    <3>2. Backed(u, table[u])'
      BY <1>2, <1>5, <3>1 DEF TableInv, Stored, classify, exclusion_for
    <3> QED
      BY <3>1, <3>2
  <2> QED
    BY <2>1, <2>2
<1>6. TableInv(rows)'
  BY <1>3, <1>4, <1>5 DEF TableInv, Present, Stored, classify, exclusion_for
<1>7. suite'.report # None => TableInv(suite.report.trials)'
  BY ReportKept
<1> QED
  BY <1>3, <1>4, <1>6, <1>7 DEF RowsInv

\* A repetition is recorded at the lowest index of its batch that is left, and only
\* where no other batch has written.
LEMMA RecordRepetitionStep ==
    ASSUME BenchInv, NEW w \in Requests, record_repetition(w)
    PROVE  BenchInv'
<1> USE DEF BenchInv
<1>1. PICK r : r = req[w]
  OBVIOUS
<1>2. /\ r.pc = "repeating" /\ ReqInv(r) /\ PlanInv(r) /\ r.plan # None
      /\ suite.mode = "imported_trajectory_replay" /\ UNCHANGED <<suite, evalruns, runs>>
  BY <1>1 DEF record_repetition, RequestsInv, ReqInv, Replaying
<1>3. PICK t : t = NextRepetition(r.todo)
  OBVIOUS
<1>4. CASE ~ (_draft /\ rows[t] = None)
  <2>1. UNCHANGED rows /\ req' = [req EXCEPT ![w] = NoRequest]
    BY <1>1, <1>3, <1>4 DEF record_repetition
  <2> QED
    BY <1>2, <2>1, EndedStep, SameSuite
<1>5. CASE _draft /\ rows[t] = None
  <2>1. PICK of : of = r.plan.source.of
    OBVIOUS
  <2>2. PICK first \in 1..(MaxReps + 1), last \in 0..MaxReps :
          /\ r.todo = {[of |-> of, rep |-> i] : i \in first..last}
          /\ \A i \in 1..(first - 1) : rows[[of |-> of, rep |-> i]] # None
          /\ first <= last
    BY <1>2, <2>1 DEF PlanInv
  <2>3. MaxReps \in Nat /\ first \in 1..MaxReps
    BY <2>2, BenchmarksAssumption
  <2>4. t = [of |-> of, rep |-> first]
    <3>1. /\ [of |-> of, rep |-> first] \in r.todo
          /\ \A u \in r.todo : first <= u.rep
      BY <2>2, <2>3
    <3>2. t \in r.todo /\ \A u \in r.todo : t.rep <= u.rep
      BY <1>3, <3>1 DEF NextRepetition
    <3>3. PICK i \in first..last : t = [of |-> of, rep |-> i]
      BY <2>2, <3>2
    <3>4. i <= first
      BY <3>1, <3>2, <3>3
    <3> QED
      BY <2>3, <3>3, <3>4
  <2>5. PICK source : source = r.plan.source
    OBVIOUS
  <2>6. /\ source \in Trials /\ source.rep = 0 /\ source = Imported(of) /\ rows[source] # None
        /\ rows[source] \in Row /\ rows[source].steps /\ source \in Present
    BY <1>2, <2>1, <2>5, TrialForm DEF PlanInv, Plan, Imported, RowsInv, TableInv, Table, Present, Stored
  <2>7. t \in Trials /\ of \in Addresses /\ t # source
    BY <2>1, <2>3, <2>4, <2>5, <2>6, TrialForm
  <2>8. PICK new : new = [rows[source] EXCEPT !.outcome = "not_reached", !.eligible = FALSE,
                           !.reason = "outcome_not_reached", !.outcome_run = None,
                           !.evaluation_run = None, !.variant = r.plan.variant]
    OBVIOUS
  <2>9. r.plan.variant \in Nat \cup {None}
    BY <1>2 DEF PlanInv, Plan
  <2>10. /\ new \in Row /\ new.eligible = FALSE /\ new.reason = "outcome_not_reached"
         /\ new.outcome_run = None /\ new.variant = r.plan.variant
         /\ new.call = rows[source].call /\ new.steps = rows[source].steps
    BY <2>6, <2>8, <2>9 DEF Row, OutcomeTrialResult, ExclusionReason
  <2>11. new # None /\ classify(new) # None
    BY <2>10, RowAssumption, EnumAssumption DEF classify, ExclusionReason
  <2> DEFINE q == [r EXCEPT !.pc = "trial", !.trial = t, !.todo = r.todo \ {t}]
  <2>12. rows' = [rows EXCEPT ![t] = new] /\ req' = [req EXCEPT ![w] = q]
    BY <1>1, <1>3, <1>5, <2>5, <2>8 DEF record_repetition
  <2>13. /\ DOMAIN q = DOMAIN NoRequest /\ q.pc = "trial" /\ q.trial = t
         /\ q.todo = r.todo \ {t} /\ q.plan = r.plan
    BY <1>2 DEF ReqInv, NoRequest
  <2> HIDE DEF q
  <2>14. RunsInv' /\ Len(evalruns) \in Nat
    BY <1>2 DEF RunsInv
  <2>15. /\ rows \in Table /\ rows'[t] = new
         /\ \A u \in Trials : u # t => rows'[u] = rows[u]
    BY <2>7, <2>12 DEF RowsInv, TableInv, Table
  <2>16. Grows
    BY <1>2, <1>5, <2>14, <2>15 DEF Grows, Present, Stored
  <2>17. RowsInv' /\ rows' \in Table
    BY <1>2, <2>7, <2>10, <2>11, <2>12, <2>14, <2>16, RowStep
  <2>18. r.plan.variant # None => suite.frozen # None /\ r.plan.variant < Len(suite.frozen)
    BY <1>2 DEF PlanInv
  <2>19. \A i \in 1..first : rows'[[of |-> of, rep |-> i]] # None
    <3>1. ASSUME NEW i \in 1..(first - 1) PROVE rows'[[of |-> of, rep |-> i]] # None
      <4>1. [of |-> of, rep |-> i] \in Trials /\ [of |-> of, rep |-> i] # t
        BY <2>3, <2>4, <2>7, TrialForm
      <4> QED
        BY <2>2, <2>15, <4>1
    <3>2. rows'[[of |-> of, rep |-> first]] # None
      BY <2>4, <2>11, <2>15
    <3>3. \A i \in 1..first : i \in 1..(first - 1) \/ i = first
      BY <2>3
    <3> QED
      BY <3>1, <3>2, <3>3
  <2>20. RepeatedInv'
    <3> SUFFICES ASSUME NEW u \in Trials, rows'[u] # None, u.rep > 0
                 PROVE  /\ \A i \in 1..u.rep : rows'[[of |-> u.of, rep |-> i]] # None
                        /\ rows'[Imported(u.of)] # None
                        /\ rows'[u].call = rows'[Imported(u.of)].call
                        /\ rows'[u].steps
                        /\ rows'[u].variant # None =>
                             suite'.frozen # None /\ rows'[u].variant < Len(suite'.frozen)
      BY DEF RepeatedInv, Present, Stored
    <3>1. CASE u = t
      <4>1. u.of = of /\ u.rep = first
        BY <2>4, <3>1
      <4>2. rows'[Imported(of)] = rows[source]
        BY <2>6, <2>7, <2>15
      <4> QED
        BY <1>2, <2>6, <2>10, <2>15, <2>18, <2>19, <3>1, <4>1, <4>2
    <3>2. CASE u # t
      <4>1. u \in Present
        BY <2>15, <3>2 DEF Present, Stored
      <4> QED
        BY <2>16, <4>1, RepetitionKept
    <3> QED
      BY <3>1, <3>2
  <2>21. SuiteInv'
    BY <1>2, <1>5, EnumAssumption DEF SuiteInv, _draft, BenchmarkStatus
  <2>22. PlanInv(q)'
    <3>1. rows'[source] = rows[source]
      BY <2>6, <2>7, <2>15
    <3>2. PICK next : next = first + 1
      OBVIOUS
    <3>3. next \in 1..(MaxReps + 1) /\ next - 1 = first
      BY <2>3, <3>2
    <3>4. q.todo = {[of |-> of, rep |-> i] : i \in next..last}
      <4>1. ASSUME NEW u PROVE u \in q.todo <=> \E i \in next..last : u = [of |-> of, rep |-> i]
        <5>1. u \in r.todo <=> \E i \in first..last : u = [of |-> of, rep |-> i]
          BY <2>2
        <5>2. \A i \in first..last : i # first <=> i \in next..last
          BY <2>2, <3>2
        <5>3. \A i \in next..last : i \in first..last
          BY <2>2, <3>2
        <5>4. \A i : [of |-> of, rep |-> i] = t <=> i = first
          BY <2>4
        <5> QED
          BY <2>13, <5>1, <5>2, <5>3, <5>4
      <4> QED
        BY <4>1
    <3>5. /\ q.plan \in Plan /\ q.plan.source = source /\ q.plan.source.of = of
          /\ q.pc # "repeating"
      BY <1>2, <2>1, <2>5, <2>13 DEF PlanInv
    <3> QED
      BY <1>2, <2>2, <2>6, <2>13, <2>18, <2>19, <3>1, <3>3, <3>4, <3>5 DEF PlanInv
  <2>23. t \in Present'
    BY <2>7, <2>11, <2>15 DEF Present, Stored
  <2>24. ReqInv(q)'
    BY <1>2, <2>13, <2>22, <2>23 DEF ReqInv, RequestPoint, Replaying, AtTrial
  <2> QED
    BY <1>2, <2>12, <2>13, <2>14, <2>16, <2>17, <2>20, <2>21, <2>24, OneMoves
<1> QED
  BY <1>4, <1>5

\* What a request at a trial relies on to go on.
LEMMA AtTrialOnward ==
    ASSUME NEW r, ReqInv(r), r.pc \in AtTrial
    PROVE  /\ Onward(r) /\ r.trial \in Present
           /\ suite.mode = "imported_trajectory_replay"
BY DEF ReqInv, Onward, AtTrial, Replaying

\* A new evaluation run is nobody's but the request's that opened it.
LEMMA OpenStep ==
    ASSUME BenchInv, NEW w \in Requests, _open_run(w)
    PROVE  BenchInv'
<1> USE DEF BenchInv
<1>1. PICK r : r = req[w]
  OBVIOUS
<1>2. PICK n : n = Len(evalruns)
  OBVIOUS
<1>3. PICK e : e = [trial |-> r.trial, status |-> "error", result |-> None]
  OBVIOUS
<1>4. /\ r.pc = "trial" /\ ReqInv(r) /\ r.trial \in Present /\ r.trial \in Trials
      /\ UNCHANGED <<suite, rows, runs>> /\ evalruns' = Append(evalruns, e)
  BY <1>1, <1>3 DEF _open_run, RequestsInv, ReqInv, AtTrial, Present, Stored
<1>5. e \in EvaluationRun /\ evalruns \in Seq(EvaluationRun) /\ n \in Nat
  BY <1>2, <1>3, <1>4 DEF EvaluationRun, RunsInv
<1>6. /\ evalruns' \in Seq(EvaluationRun) /\ Len(evalruns') = n + 1 /\ evalruns'[n + 1] = e
      /\ \A i \in 1..n : evalruns'[i] = evalruns[i]
  BY <1>2, <1>4, <1>5
<1> DEFINE q == [r EXCEPT !.pc = "executing", !.run = n + 1]
<1>7. req' = [req EXCEPT ![w] = q]
  BY <1>1, <1>2 DEF _open_run, RequestsInv
<1>8. /\ DOMAIN q = DOMAIN NoRequest /\ q.pc = "executing" /\ q.run = n + 1
      /\ q.trial = r.trial /\ q.todo = r.todo /\ q.plan = r.plan
  BY <1>4 DEF ReqInv, NoRequest
<1> HIDE DEF q
<1>9. RunsInv'
  BY <1>4, <1>6 DEF RunsInv
<1>10. Grows
  BY <1>2, <1>4, <1>5, <1>6 DEF Grows, Present, Stored
<1>11. RowsInv'
  <2>1. PICK table : table = rows
    OBVIOUS
  <2>2. TableInv(table)'
    BY <1>9, <1>10, <2>1, TableKept DEF RowsInv
  <2>3. suite'.report # None => TableInv(suite.report.trials)'
    BY <1>4, <1>9, <1>10, ReportKept
  <2> QED
    BY <1>4, <2>1, <2>2, <2>3 DEF RowsInv, Present, Stored
<1>12. RepeatedInv'
  BY <1>4, <1>10, RepeatedKept
<1>13. ReqInv(q)'
  <2>1. ReqInv(r)' /\ r.trial \in Present'
    BY <1>4, <1>9, <1>10, <1>11, ReqKept DEF Present, Stored, RowsInv, TableInv
  <2>2. q.plan # None => PlanInv(q)'
    <3>1. r.plan # None => PlanInv(r)'
      BY <1>4, <2>1 DEF ReqInv, Replaying
    <3> QED
      BY <1>8, <3>1 DEF PlanInv
  <2>3. /\ q.run \in 1..Len(evalruns')
        /\ evalruns'[q.run].trial = q.trial /\ evalruns'[q.run].status = "error"
    BY <1>3, <1>5, <1>6, <1>8
  <2> QED
    BY <1>4, <1>8, <2>1, <2>2, <2>3 DEF ReqInv, RequestPoint, Replaying, AtTrial
<1>14. \A v \in Requests : req[v].pc = "executing" => req[v].run \in 1..n
  BY <1>2 DEF RequestsInv, ReqInv
<1>15. \A v \in Requests \ {w} : req[v].pc = "executing" =>
          /\ evalruns'[req[v].run] = evalruns[req[v].run]
          /\ q.pc = "executing" => q.run # req[v].run
  BY <1>5, <1>6, <1>8, <1>14
<1>16. SuiteInv'
  BY <1>4, SameSuite
<1> QED
  BY <1>7, <1>9, <1>10, <1>11, <1>12, <1>13, <1>15, <1>16, OneMoves

\* A trial that cannot be replayed is left, to be excluded if it is a repetition.
LEMMA ExcludedStep ==
    ASSUME BenchInv, NEW w \in Requests, NEW reason \in ExclusionReason, _excluded(w, reason)
    PROVE  BenchInv'
<1> USE DEF BenchInv
<1>1. PICK r : r = req[w]
  OBVIOUS
<1>2. /\ r.pc \in {"trial", "executing"} /\ ReqInv(r) /\ r.pc \in AtTrial
      /\ UNCHANGED <<suite, rows, evalruns, runs>>
  BY <1>1 DEF _excluded, RequestsInv, AtTrial
<1>3. Onward(r) /\ r.trial \in Present /\ suite.mode = "imported_trajectory_replay"
  BY <1>2, AtTrialOnward
<1>4. Grows /\ RunsInv' /\ RowsInv' /\ RepeatedInv' /\ SuiteInv'
  BY <1>2, QuietStep, SameSuite
<1>5. CASE r.plan = None
  <2>1. PICK q : q = Advance(r)
    OBVIOUS
  <2>2. req' = [req EXCEPT ![w] = q]
    BY <1>1, <1>5, <2>1 DEF _excluded
  <2>3. ReqInv(q) /\ q.pc # "executing"
    BY <1>3, <2>1, AdvanceRight
  <2> QED
    BY <1>2, <1>4, <2>2, <2>3, GoesOn
<1>6. CASE r.plan # None
  <2> DEFINE q == [r EXCEPT !.pc = "excluding", !.reason = reason]
  <2>1. req' = [req EXCEPT ![w] = q]
    BY <1>1, <1>6 DEF _excluded
  <2>2. /\ DOMAIN q = DOMAIN NoRequest /\ q.pc = "excluding" /\ q.reason = reason
        /\ q.trial = r.trial /\ q.todo = r.todo /\ q.plan = r.plan
    BY <1>2 DEF ReqInv, NoRequest
  <2> HIDE DEF q
  <2>3. PlanInv(q)
    BY <1>2, <1>3, <1>6, <2>2 DEF Onward, PlanInv
  <2>4. ReqInv(q)
    BY <1>3, <1>6, <2>2, <2>3 DEF ReqInv, RequestPoint, Replaying, AtTrial
  <2> QED
    BY <1>2, <1>4, <2>1, <2>2, <2>4, GoesOn
<1> QED
  BY <1>5, <1>6

\* The reason is written to the repetition's row, which then does not count.
LEMMA RecordExclusionStep ==
    ASSUME BenchInv, NEW w \in Requests, _record_exclusion(w)
    PROVE  BenchInv'
<1> USE DEF BenchInv
<1>1. PICK r : r = req[w]
  OBVIOUS
<1>2. PICK t : t = r.trial
  OBVIOUS
<1>3. /\ r.pc = "excluding" /\ ReqInv(r) /\ r.pc \in AtTrial /\ r.reason \in ExclusionReason
      /\ UNCHANGED <<suite, evalruns, runs>>
  BY <1>1 DEF _record_exclusion, RequestsInv, AtTrial, ReqInv
<1>4. /\ Onward(r) /\ t \in Present /\ t \in Trials /\ rows[t] # None
      /\ suite.mode = "imported_trajectory_replay"
  BY <1>2, <1>3, AtTrialOnward DEF Present, Stored
<1>5. rows \in Table /\ rows[t] \in Row /\ rows[t].outcome_run = None
  BY <1>4 DEF RowsInv, TableInv, Table
<1>6. PICK new : new = [rows[t] EXCEPT !.outcome = "not_reached", !.eligible = FALSE,
                                       !.reason = r.reason]
  OBVIOUS
<1>7. /\ new \in Row /\ new.eligible = FALSE /\ new.reason = r.reason /\ new.outcome_run = None
      /\ new.call = rows[t].call /\ new.steps = rows[t].steps /\ new.variant = rows[t].variant
  BY <1>3, <1>5, <1>6 DEF Row, OutcomeTrialResult
<1>8. new # None /\ classify(new) # None
  BY <1>3, <1>7, RowAssumption, EnumAssumption DEF classify
<1> DEFINE s == [r EXCEPT !.reason = None]
<1>9. PICK q : q = Advance(s)
  OBVIOUS
<1>10. rows' = [rows EXCEPT ![t] = new] /\ req' = [req EXCEPT ![w] = q]
  BY <1>1, <1>2, <1>5, <1>6, <1>9 DEF _record_exclusion, Table, RequestsInv
<1>11. DOMAIN s = DOMAIN NoRequest /\ s.pc = r.pc /\ s.todo = r.todo /\ s.plan = r.plan
  BY <1>3 DEF ReqInv, NoRequest
<1> HIDE DEF s
<1>12. Onward(s)
  BY <1>4, <1>11 DEF Onward, PlanInv
<1>13. ReqInv(q) /\ q.pc # "executing"
  BY <1>9, <1>12, AdvanceRight
<1>14. RunsInv' /\ Len(evalruns) \in Nat
  BY <1>3 DEF RunsInv
<1>15. rows'[t] = new /\ \A u \in Trials : u # t => rows'[u] = rows[u]
  BY <1>4, <1>5, <1>10 DEF Table
<1>16. Grows
  BY <1>3, <1>4, <1>7, <1>8, <1>14, <1>15 DEF Grows, Present, Stored
<1>17. RowsInv'
  BY <1>3, <1>4, <1>7, <1>8, <1>10, <1>14, <1>16, RowStep
<1>18. RepeatedInv'
  BY <1>4, <1>15, <1>16, RepeatedKept
<1>19. SuiteInv'
  BY <1>3, <1>4 DEF SuiteInv
<1> QED
  BY <1>3, <1>10, <1>13, <1>14, <1>16, <1>17, <1>18, <1>19, GoesOn

\* A finished replay backs the trial it was opened for and no other, and the evaluation
\* run it completes backed nothing before.
LEMMA FinishStep ==
    ASSUME BenchInv, NEW w \in Requests, NEW result \in {"passed", "passed_with_warnings", "failed"},
           _finish_run(w, result)
    PROVE  BenchInv'
<1> USE DEF BenchInv
<1>1. PICK r : r = req[w]
  OBVIOUS
<1>2. PICK t : t = r.trial
  OBVIOUS
<1>3. PICK e : e = r.run
  OBVIOUS
<1>4. /\ r.pc = "executing" /\ ReqInv(r) /\ r.pc \in AtTrial /\ UNCHANGED <<suite, runs>>
      /\ e \in 1..Len(evalruns) /\ evalruns[e].trial = t /\ evalruns[e].status = "error"
  BY <1>1, <1>2, <1>3 DEF _finish_run, RequestsInv, AtTrial, ReqInv
<1>5. /\ Onward(r) /\ t \in Present /\ t \in Trials /\ rows[t] # None
      /\ suite.mode = "imported_trajectory_replay"
  BY <1>2, <1>4, AtTrialOnward DEF Present, Stored
<1>6. CASE ~ Unclaimed(e, t)
  <2>1. req' = [req EXCEPT ![w] = NoRequest] /\ UNCHANGED <<evalruns, rows>>
    BY <1>1, <1>2, <1>3, <1>6 DEF _finish_run
  <2> QED
    BY <1>4, <2>1, EndedStep, SameSuite
<1>7. CASE Unclaimed(e, t)
  <2>1. PICK q : q = Advance(r)
    OBVIOUS
  <2>2. ReqInv(q) /\ q.pc # "executing"
    BY <1>5, <2>1, AdvanceRight
  <2>3. rows \in Table /\ rows[t] \in Row /\ rows[t].outcome_run = None
    BY <1>5 DEF RowsInv, TableInv, Table
  <2>4. PICK new : new = [rows[t] EXCEPT !.evaluation_run = e, !.outcome = result,
                                         !.eligible = TRUE, !.reason = None]
    OBVIOUS
  <2>5. /\ evalruns \in Seq(EvaluationRun) /\ Len(evalruns) \in Nat
        /\ evalruns[e] \in EvaluationRun /\ e \in Nat /\ result \in OutcomeTrialResult
    BY <1>4 DEF RunsInv, OutcomeTrialResult
  <2>6. /\ new \in Row /\ new.evaluation_run = e /\ new.outcome = result
        /\ new.outcome_run = None /\ new.call = rows[t].call
        /\ new.steps = rows[t].steps /\ new.variant = rows[t].variant
    BY <2>3, <2>4, <2>5 DEF Row
  <2>7. new # None
    BY <2>6, RowAssumption
  <2>8. PICK done : done = [evalruns[e] EXCEPT !.status = "completed", !.result = result]
    OBVIOUS
  <2>9. done = [trial |-> t, status |-> "completed", result |-> result] /\ done \in EvaluationRun
    BY <1>4, <1>5, <2>5, <2>8 DEF EvaluationRun, OUTCOME_PASS_RESULTS
  <2>10. /\ evalruns' = [evalruns EXCEPT ![e] = done]
         /\ rows' = [rows EXCEPT ![t] = new] /\ req' = [req EXCEPT ![w] = q]
    BY <1>1, <1>2, <1>3, <1>7, <2>1, <2>4, <2>8 DEF _finish_run, FinishedRow
  <2>11. /\ evalruns' \in Seq(EvaluationRun) /\ Len(evalruns') = Len(evalruns)
         /\ evalruns'[e] = done /\ \A i \in 1..Len(evalruns) : i # e => evalruns'[i] = evalruns[i]
    BY <1>4, <2>5, <2>9, <2>10
  <2>12. RunsInv'
    BY <1>4, <2>11 DEF RunsInv
  <2>13. rows'[t] = new /\ \A u \in Trials : u # t => rows'[u] = rows[u]
    BY <1>5, <2>3, <2>10 DEF Table
  <2>14. Grows
    BY <1>4, <1>5, <2>5, <2>6, <2>7, <2>11, <2>13 DEF Grows, Present, Stored
  <2>15. Backed(t, new)'
    <3>1. suite'.mode # "executed_browser"
      BY <1>4, <1>5
    <3>2. e \in DOMAIN evalruns' /\ evalruns'[e] = [trial |-> t, status |-> "completed", result |-> result]
      BY <1>4, <2>5, <2>9, <2>11
    <3> QED
      BY <2>6, <3>1, <3>2 DEF Backed
  <2>16. RowsInv'
    BY <1>4, <1>5, <2>6, <2>10, <2>12, <2>14, <2>15, RowStep
  <2>17. RepeatedInv'
    BY <1>5, <2>13, <2>14, RepeatedKept
  <2>18. SuiteInv'
    BY <1>4, <1>5 DEF SuiteInv
  <2>19. \A v \in Requests \ {w} : req[v].pc = "executing" => evalruns'[req[v].run] = evalruns[req[v].run]
    BY <1>1, <1>3, <1>4, <2>11 DEF RequestsInv, ReqInv
  <2> QED
    BY <2>2, <2>10, <2>12, <2>14, <2>16, <2>17, <2>18, <2>19, GoesOn
<1> QED
  BY <1>6, <1>7

-----------------------------------------------------------------------------
\* The theorems

\* BenchInv holds at the start and through every step.
LEMMA BenchInitial == Init => BenchInv
<1> SUFFICES ASSUME Init PROVE BenchInv
  OBVIOUS
<1>1. /\ suite = NoSuite /\ Present = {} /\ Stored(rows) = {} /\ rows \in Table
      /\ evalruns = <<>> /\ \A w \in Requests : req[w] = NoRequest
  BY DEF Init, Present, Stored, Table
<1>2. SuiteInv
  BY <1>1 DEF SuiteInv, NoSuite
<1>3. RunsInv
  BY DEF Init, RunsInv, OUTCOME_PASS_RESULTS
<1>4. RowsInv
  BY <1>1 DEF RowsInv, TableInv, NoSuite
<1>5. RequestsInv
  <2>1. req = [w \in Requests |-> NoRequest] /\ NoRequest.pc = "idle"
    BY DEF Init, NoRequest
  <2> QED
    BY <2>1, NoRequestRight DEF RequestsInv
<1>6. RepeatedInv
  BY <1>1 DEF RepeatedInv
<1> QED
  BY <1>2, <1>3, <1>4, <1>5, <1>6 DEF BenchInv

\* Each action by its lemma; a step of no action leaves everything alone.
LEMMA BenchStep ==
    ASSUME BenchInv, [Next]_vars
    PROVE  BenchInv'
<1>1. CASE UNCHANGED vars
  <2>1. UNCHANGED <<suite, rows, evalruns, runs, req>>
    BY <1>1 DEF vars
  <2>2. Grows /\ RunsInv' /\ RowsInv' /\ RepeatedInv'
    BY <2>1, QuietStep
  <2> QED
    BY <2>1, <2>2, SameSuite, NoneMoves
<1>2. ASSUME NEW texts, NEW indices, freeze_benchmark_variants(texts, indices) PROVE BenchInv'
  BY <1>2, FreezeStep DEF freeze_benchmark_variants
<1>3. ASSUME NEW w \in Requests, replay(w) PROVE BenchInv'
  BY <1>3, OpenStep, ExcludedStep, FinishStep DEF replay
<1>4. ASSUME NEW w \in Requests, RunRepetitions(w) PROVE BenchInv'
  BY <1>4, RecordRepetitionStep, RecordExclusionStep DEF RunRepetitions
<1>5. ASSUME Next PROVE BenchInv'
  BY <1>2, <1>3, <1>4, <1>5, RunEndsStep, CreateStep, SaveStep, ImportStep, RecordImportStep,
     TrialReplayStep, StartStep, PlanStep, FinalizeStep, SealFinalizeStep, MarkErrorStep, DroppedStep
  DEF Next
<1> QED
  BY <1>1, <1>5

\* So it always holds.
LEMMA BenchInductive == Spec => []BenchInv
<1>1. BenchInv /\ [Next]_vars => BenchInv'
  BY BenchStep
<1> QED
  BY <1>1, BenchInitial, PTL DEF Spec

\* Two trials that count have different evidence: a browser run is bound to one trial,
\* and an evaluation run names the trial it was opened for.
LEMMA TableEvidence ==
    ASSUME NEW table, TableInv(table)
    PROVE  EvidenceHolds(table)
<1>1. ASSUME NEW t \in Stored(table), NEW u \in Stored(table), classify(table[t]) = None,
             classify(table[u]) = None, t # u, table[t].outcome_run = table[u].outcome_run
      PROVE  table[t].evaluation_run # table[u].evaluation_run
  <2>1. Backed(t, table[t]) /\ Backed(u, table[u])
    BY <1>1 DEF TableInv
  <2>2. suite.mode # "executed_browser"
    BY <1>1, <2>1 DEF Backed, TableInv
  <2>3. /\ evalruns[table[t].evaluation_run].trial = t
        /\ evalruns[table[u].evaluation_run].trial = u
    BY <2>1, <2>2 DEF Backed
  <2> QED
    BY <1>1, <2>3
<1> QED
  BY <1>1 DEF EvidenceHolds, CountedOnce, TableInv

\* Every trial that counts rests on evidence of its own, in the suite and in the report
\* that was sealed: though replays take no lock and overlap each other, bindings made by
\* hand and the finalization, _finish_run, bind and seal never leave a trial with another
\* trial's outcome, or with an outcome that nothing observed.
THEOREM OutcomesAreBacked == Spec => []OutcomesBacked
<1>1. BenchInv => OutcomesBacked
  <2> SUFFICES ASSUME BenchInv PROVE OutcomesBacked
    OBVIOUS
  <2>1. TableInv(rows) /\ (suite.report # None => TableInv(suite.report.trials))
    BY DEF BenchInv, RowsInv
  <2> QED
    BY <2>1, TableEvidence DEF OutcomesBacked
<1> QED
  BY <1>1, BenchInductive, PTL

\* The repetitions of a trial are numbered without a gap, carry their source's verdict and
\* name a variant of the frozen set, however many batches are planned against the same
\* highest index (plan_repetitions, record_repetition, freeze_variants).
THEOREM RepetitionsAreSound == Spec => []RepetitionsSound
<1>1. BenchInv => RepetitionsSound
  <2> SUFFICES ASSUME BenchInv, NEW t \in Present, t.rep > 0
               PROVE  /\ \A i \in 1..t.rep : rows[[t EXCEPT !.rep = i]] # None
                      /\ rows[Imported(t.of)] # None
                      /\ rows[t].call = rows[Imported(t.of)].call
                      /\ rows[t].steps
                      /\ rows[t].variant # None => rows[t].variant < Len(suite.frozen)
    BY DEF RepetitionsSound
  <2>1. t = [of |-> t.of, rep |-> t.rep]
    BY TrialForm DEF Present, Stored
  <2>2. PICK a, n : t = [of |-> a, rep |-> n] /\ t.of = a
    BY <2>1
  <2>3. ASSUME NEW i PROVE [t EXCEPT !.rep = i] = [of |-> t.of, rep |-> i]
    BY <2>2
  <2>4. /\ \A i \in 1..t.rep : rows[[of |-> t.of, rep |-> i]] # None
        /\ rows[Imported(t.of)] # None
        /\ rows[t].call = rows[Imported(t.of)].call
        /\ rows[t].steps
        /\ rows[t].variant # None => rows[t].variant < Len(suite.frozen)
    BY DEF BenchInv, RepeatedInv
  <2>5. ASSUME NEW i \in 1..t.rep PROVE rows[[t EXCEPT !.rep = i]] # None
    BY <2>3, <2>4, Zenon
  <2> QED
    BY <2>4, <2>5, Zenon
<1> QED
  BY <1>1, BenchInductive, PTL

-----------------------------------------------------------------------------
\* What a sealed suite keeps

SealedStep ==
    /\ suite.status \in TERMINAL_BENCHMARK_STATUSES =>
          suite'.status = suite.status /\ suite'.report = suite.report
    /\ suite.status \notin {None, "draft"} =>
          /\ Present' = Present
          /\ \A t \in Present : rows[t].outcome_run = rows'[t].outcome_run
          /\ suite'.frozen = suite.frozen
          /\ suite.mode = "executed_browser" => rows' = rows

\* Nothing is said of a draft, nor of a step that touches neither table.
LEMMA DraftFree ==
    ASSUME suite.status \in {None, "draft"} \/ UNCHANGED <<suite, rows>>
    PROVE  SealedStep
<1>1. None \notin TERMINAL_BENCHMARK_STATUSES /\ "draft" \notin TERMINAL_BENCHMARK_STATUSES
  BY EnumAssumption DEF TERMINAL_BENCHMARK_STATUSES, BenchmarkStatus
<1> QED
  BY <1>1 DEF SealedStep, Present, Stored

\* Nothing leads out of a status that is terminal.
LEMMA TransitionStep ==
    ASSUME UNCHANGED rows, suite'.frozen = suite.frozen, NEW toward, NEW mode,
           require_transition(suite.status, toward, mode)
    PROVE  SealedStep
<1>1. suite.status \notin TERMINAL_BENCHMARK_STATUSES
  BY DEF require_transition, PERMITTED_TRANSITIONS, TERMINAL_BENCHMARK_STATUSES
<1> QED
  BY <1>1 DEF SealedStep, Present, Stored

\* A replay writes to rows that are there, and there is none in a browser suite.
LEMMA WrittenRow ==
    ASSUME BenchInv, NEW w \in Requests, req[w].pc \in AtTrial, UNCHANGED suite,
           NEW new \in Row, new.outcome_run = rows[req[w].trial].outcome_run,
           rows' = [rows EXCEPT ![req[w].trial] = new]
    PROVE  SealedStep
<1>1. PICK t : t = req[w].trial
  OBVIOUS
<1>2. t \in Present /\ t \in Trials /\ rows \in Table /\ suite.mode # "executed_browser"
  BY <1>1, AtTrialOnward DEF BenchInv, RequestsInv, RowsInv, TableInv, Present, Stored
<1>3. /\ rows'[t] = new /\ new # None
      /\ \A u \in Trials : u # t => rows'[u] = rows[u]
  BY <1>1, <1>2, RowAssumption DEF Table
<1>4. Present' = Present
  BY <1>2, <1>3 DEF Present, Stored
<1>5. \A u \in Present : rows[u].outcome_run = rows'[u].outcome_run
  BY <1>1, <1>3 DEF Present, Stored
<1> QED
  BY <1>2, <1>4, <1>5 DEF SealedStep

\* The steps of a request that change the suite's status.
LEMMA StatusSealed ==
    ASSUME NEW w \in Requests, BenchInv, start(w) \/ seal_finalize(w) \/ mark_error(w)
    PROVE  SealedStep
<1>1. CASE UNCHANGED suite
  BY <1>1, DraftFree DEF start, seal_finalize, mark_error
<1>2. CASE ~ UNCHANGED suite
  <2>1. UNCHANGED rows /\ suite'.frozen = suite.frozen
    BY <1>2 DEF start, seal_finalize, mark_error, BenchInv, SuiteInv
  <2>2. \E toward, mode : require_transition(suite.status, toward, mode)
    BY <1>2 DEF start, seal_finalize, mark_error
  <2> QED
    BY <2>1, <2>2, TransitionStep
<1> QED
  BY <1>1, <1>2

\* The steps of a replay.
LEMMA ReplaySealed ==
    ASSUME NEW w \in Requests, BenchInv, replay(w)
    PROVE  SealedStep
<1> USE DEF BenchInv
<1>1. CASE UNCHANGED <<suite, rows>>
  BY <1>1, DraftFree
<1>2. CASE ~ UNCHANGED <<suite, rows>>
  <2>1. PICK result \in {"passed", "passed_with_warnings", "failed"} : _finish_run(w, result)
    BY <1>2 DEF replay, _open_run, _excluded
  <2>2. /\ UNCHANGED suite /\ req[w].pc = "executing" /\ req[w].pc \in AtTrial
        /\ rows' = [rows EXCEPT ![req[w].trial] = FinishedRow(@, req[w].run, result)]
    BY <1>2, <2>1 DEF _finish_run, AtTrial
  <2>3. PICK t : t = req[w].trial
    OBVIOUS
  <2>4. PICK e : e = req[w].run
    OBVIOUS
  <2>5. t \in Present /\ rows[t] # None /\ rows \in Table /\ e \in 1..Len(evalruns)
    BY <2>2, <2>3, <2>4 DEF RequestsInv, ReqInv, Present, Stored, RowsInv, TableInv
  <2>6. rows[t] \in Row /\ e \in Nat /\ result \in OutcomeTrialResult
    BY <2>5 DEF Table, RunsInv, OutcomeTrialResult, Present, Stored
  <2>7. PICK new : new = [rows[t] EXCEPT !.evaluation_run = e, !.outcome = result,
                                         !.eligible = TRUE, !.reason = None]
    OBVIOUS
  <2>8. new \in Row /\ new.outcome_run = rows[t].outcome_run
    BY <2>6, <2>7 DEF Row
  <2>9. rows' = [rows EXCEPT ![t] = new]
    BY <2>2, <2>3, <2>4, <2>7 DEF FinishedRow
  <2> QED
    BY <2>2, <2>3, <2>8, <2>9, WrittenRow
<1> QED
  BY <1>1, <1>2

\* The steps of a request for repetitions.
LEMMA RepetitionSealed ==
    ASSUME NEW w \in Requests, BenchInv, RunRepetitions(w)
    PROVE  SealedStep
<1> USE DEF BenchInv
<1>1. CASE record_repetition(w)
  BY <1>1, DraftFree DEF record_repetition, _draft
<1>2. CASE _record_exclusion(w)
  <2>1. PICK r : r = req[w]
    OBVIOUS
  <2>2. PICK t : t = r.trial
    OBVIOUS
  <2>3. r.pc = "excluding" /\ r.pc \in AtTrial /\ r.reason \in ExclusionReason /\ UNCHANGED suite
    BY <1>2, <2>1 DEF _record_exclusion, RequestsInv, AtTrial, ReqInv
  <2>4. t \in Present /\ rows[t] # None /\ rows \in Table
    BY <2>1, <2>2, <2>3 DEF RequestsInv, ReqInv, Present, Stored, RowsInv, TableInv
  <2>5. rows[t] \in Row
    BY <2>4 DEF Table, Present, Stored
  <2>6. PICK new : new = [rows[t] EXCEPT !.outcome = "not_reached", !.eligible = FALSE,
                                         !.reason = r.reason]
    OBVIOUS
  <2>7. new \in Row /\ new.outcome_run = rows[t].outcome_run
    BY <2>3, <2>5, <2>6 DEF Row, OutcomeTrialResult
  <2>8. rows' = [rows EXCEPT ![t] = new]
    BY <1>2, <2>1, <2>2, <2>6 DEF _record_exclusion
  <2> QED
    BY <2>1, <2>2, <2>3, <2>7, <2>8, WrittenRow
<1> QED
  BY <1>1, <1>2 DEF RunRepetitions

\* From ready on the trials, their browser runs and the frozen variants stay, a browser
\* suite's rows stay whole, and a suite that ended keeps its status and its report, also
\* against a refused request that comes back to mark it (require_transition, mark_error)
\* and a replay that finishes after the seal (_finish_run).
THEOREM SealedSuiteStays == Spec => SealedStays
<1>1. BenchInv /\ [Next]_vars => [SealedStep]_vars
  <2> SUFFICES ASSUME BenchInv, Next PROVE SealedStep
    OBVIOUS
  <2>1. ASSUME suite.status \in {None, "draft"} \/ UNCHANGED <<suite, rows>> PROVE SealedStep
    BY <2>1, DraftFree
  <2>2. ASSUME NEW r, NEW result, RunEnds(r, result) PROVE SealedStep
    BY <2>1, <2>2 DEF RunEnds
  <2>3. ASSUME NEW mode, create_benchmark(mode) PROVE SealedStep
    BY <2>1, <2>3 DEF create_benchmark, create
  <2>4. ASSUME NEW texts, NEW indices, freeze_benchmark_variants(texts, indices) PROVE SealedStep
    BY <2>1, <2>4 DEF freeze_benchmark_variants, freeze_variants, _draft
  <2>5. ASSUME NEW b, NEW a, NEW s, save_bindings(b, a, s) PROVE SealedStep
    BY <2>1, <2>5 DEF save_bindings, _draft
  <2>6. ASSUME NEW w, NEW report, import_evaluator_report(w, report) PROVE SealedStep
    BY <2>1, <2>6 DEF import_evaluator_report
  <2>7. ASSUME NEW w, record_import(w) PROVE SealedStep
    BY <2>1, <2>7 DEF record_import, _draft
  <2>8. ASSUME NEW w, replay_benchmark(w) \/ finalize_benchmark(w) \/ Dropped(w) PROVE SealedStep
    BY <2>1, <2>8 DEF replay_benchmark, finalize_benchmark, Dropped
  <2>9. ASSUME NEW w, NEW t, NEW c, NEW v, run_repeated_trials(w, t, c, v) PROVE SealedStep
    BY <2>1, <2>9 DEF run_repeated_trials
  <2> QED
    BY <2>2, <2>3, <2>4, <2>5, <2>6, <2>7, <2>8, <2>9, StatusSealed, ReplaySealed, RepetitionSealed
    DEF Next
<1> QED
  BY <1>1, BenchInductive, PTL DEF Spec, SealedStays, SealedStep

-----------------------------------------------------------------------------
\* The matrix, the breakdown and the correlation

\* The rows are finitely many and can be read back, as will those an import inserts.
ReadInv ==
    /\ IsFiniteSet(Present)
    /\ \A t \in Present : Readable(rows[t])
    /\ \A w \in Requests : req[w].pc = "importing" => IsFiniteSet(DOMAIN req[w].found)

\* A fraction of a population it is no larger than.
LEMMA RateIsSound ==
    ASSUME NEW n \in Nat, NEW d \in Nat, n <= d
    PROVE  RateSound(Rate(n, d))
<1>1. PICK rate : rate = Rate(n, d)
  OBVIOUS
<1>2. rate.numerator = n /\ rate.denominator = d
  BY <1>1 DEF Rate
<1>3. CASE d = 0
  <2>1. rate.value = None
    BY <1>1, <1>3 DEF Rate
  <2> QED BY <1>1, <1>2, <1>3, <2>1 DEF RateSound
<1>4. CASE d # 0
  <2>1. PICK a \in Nat : a = n * 10000 /\ a <= d * 10000
    OBVIOUS
  <2>2. PICK q \in Nat, m \in Nat : q = a \div d /\ m = a % d /\ a = d * q + m /\ m < d
    BY <1>4, <2>1
  <2>3. PICK v : v = rate.value
    OBVIOUS
  <2>4. v = IF 2 * m > d \/ (2 * m = d /\ q % 2 = 1) THEN q + 1 ELSE q
    BY <1>1, <1>4, <2>1, <2>2, <2>3 DEF Rate
  <2>5. q <= 10000
    <3> SUFFICES ASSUME q >= 10001 PROVE FALSE
      BY <2>2
    <3>1. d * q >= d * 10001
      BY <2>2
    <3>2. d * 10001 = d * 10000 + d
      OBVIOUS
    <3>3. d * q \in Nat /\ d * 10000 \in Nat /\ d * 10001 \in Nat
      BY <2>2
    <3> QED BY <1>4, <2>1, <2>2, <3>1, <3>2, <3>3
  <2>6. q = 10000 => m = 0
    BY <2>1, <2>2
  <2>7. v = q \/ (v = q + 1 /\ 2 * m >= d)
    BY <1>4, <2>2, <2>4
  <2>8. 2 * m >= d => q <= 9999
    BY <1>4, <2>2, <2>5, <2>6
  <2>9. v \in Nat /\ v <= 10000
    BY <2>2, <2>5, <2>7, <2>8
  <2>10. v # None
    BY <2>9, BenchmarksAssumption
  <2> QED BY <1>1, <1>2, <1>4, <2>3, <2>9, <2>10 DEF RateSound
<1> QED BY <1>3, <1>4

\* Each trial is counted once: in one cell of the matrix, or among those left out.
LEMMA TallyCounts ==
    ASSUME NEW table \in Table, NEW S, S \subseteq Stored(table), IsFiniteSet(S),
           \A t \in S : Readable(table[t]), NEW c, c = tally(table, S)
    PROVE  /\ c.pass_pass \in Nat /\ c.pass_fail \in Nat /\ c.fail_pass \in Nat
           /\ c.fail_fail \in Nat /\ c.excluded \in Nat
           /\ total_trials(c) = Cardinality(S)
           /\ c.errors <= c.excluded
           /\ Cardinality({t \in S : table[t].outcome = "failed"}) >= c.pass_fail + c.fail_fail
           /\ Cardinality({t \in S : table[t].call = "error"}) <= c.excluded
<1> DEFINE C == {t \in S : classify(table[t]) = None}
           P == {t \in C : table[t].call = "passed"}
           G == {t \in C : table[t].outcome \in OUTCOME_PASS_RESULTS}
           E == {t \in S : classify(table[t]) \in
                    {"evaluator_error", "outcome_error", "harness_error"}}
           F == {t \in S : table[t].outcome = "failed"}
           X == {t \in S : table[t].call = "error"}
<1>1. /\ c.pass_pass = Cardinality(P \cap G) /\ c.pass_fail = Cardinality(P \ G)
      /\ c.fail_pass = Cardinality(G \ P) /\ c.fail_fail = Cardinality(C \ (P \cup G))
      /\ c.excluded = Cardinality(S \ C) /\ c.errors = Cardinality(E)
  BY DEF tally
<1>2. \A t \in S : table[t] \in Row
  BY DEF Table, Stored
<1>3. E \subseteq S \ C
  BY EnumAssumption DEF ExclusionReason
<1>4. ASSUME NEW t \in C, t \notin G PROVE t \in F
  <2>1. table[t].eligible /\ exclusion_for(table[t].call, table[t].outcome) = None
    BY DEF classify, Readable
  <2>2. table[t].outcome \notin EXCLUDED_OUTCOME_RESULTS
    BY <2>1, EnumAssumption DEF exclusion_for, ExclusionReason
  <2>3. table[t].outcome \in OutcomeTrialResult \ OUTCOME_PASS_RESULTS
    BY <1>2, <1>4 DEF Row
  <2> QED
    BY <2>2, <2>3 DEF OutcomeTrialResult, EXCLUDED_OUTCOME_RESULTS, OUTCOME_PASS_RESULTS
<1>5. X \subseteq S \ C
  <2> SUFFICES ASSUME NEW t \in C, table[t].call = "error" PROVE FALSE
    OBVIOUS
  <2>1. table[t].eligible /\ exclusion_for(table[t].call, table[t].outcome) = None
    BY DEF classify, Readable
  <2> QED BY <2>1, EnumAssumption DEF exclusion_for, ExclusionReason, EXCLUDED_CALL_LEVEL_RESULTS
<1>6. P \subseteq C /\ G \subseteq C /\ C \subseteq S /\ F \subseteq S
  OBVIOUS
<1> HIDE DEF C, P, G, E, F, X
<1>7. /\ IsFiniteSet(C) /\ IsFiniteSet(P \cap G) /\ IsFiniteSet(P \ G) /\ IsFiniteSet(G \ P)
      /\ IsFiniteSet(C \ (P \cup G)) /\ IsFiniteSet(S \ C) /\ IsFiniteSet(F)
  BY <1>6, FS_Subset
<1>8. Cardinality(S) = Cardinality(C) + Cardinality(S \ C)
  <2>1. S = C \cup (S \ C)
    BY <1>6
  <2> QED BY <1>7, <2>1, ApartAdd
<1>9. /\ IsFiniteSet((P \ G) \cup (C \ (P \cup G)))
      /\ Cardinality((P \ G) \cup (C \ (P \cup G))) = c.pass_fail + c.fail_fail
  <2> DEFINE A == P \ G
             B == C \ (P \cup G)
  <2>1. A \cap B = {} /\ IsFiniteSet(A) /\ IsFiniteSet(B)
    BY <1>7
  <2>2. c.pass_fail = Cardinality(A) /\ c.fail_fail = Cardinality(B)
    BY <1>1
  <2>3. IsFiniteSet(A \cup B) /\ Cardinality(A \cup B) = Cardinality(A) + Cardinality(B)
    <3> HIDE DEF A, B
    <3> QED BY <2>1, ApartAdd
  <2> QED BY <2>2, <2>3
<1>10. /\ IsFiniteSet((P \cap G) \cup (G \ P))
       /\ Cardinality((P \cap G) \cup (G \ P)) = c.pass_pass + c.fail_pass
  <2> DEFINE A == P \cap G
             B == G \ P
  <2>1. A \cap B = {} /\ IsFiniteSet(A) /\ IsFiniteSet(B)
    BY <1>7
  <2>2. c.pass_pass = Cardinality(A) /\ c.fail_pass = Cardinality(B)
    BY <1>1
  <2>3. IsFiniteSet(A \cup B) /\ Cardinality(A \cup B) = Cardinality(A) + Cardinality(B)
    <3> HIDE DEF A, B
    <3> QED BY <2>1, ApartAdd
  <2> QED BY <2>2, <2>3
<1>11. Cardinality(C) = (c.pass_pass + c.fail_pass) + (c.pass_fail + c.fail_fail)
  <2> DEFINE A == (P \cap G) \cup (G \ P)
             B == (P \ G) \cup (C \ (P \cup G))
  <2>1. C = A \cup B /\ A \cap B = {}
    BY <1>6
  <2>2. IsFiniteSet(A) /\ IsFiniteSet(B) /\ Cardinality(A) = c.pass_pass + c.fail_pass
        /\ Cardinality(B) = c.pass_fail + c.fail_fail
    BY <1>9, <1>10
  <2> HIDE DEF A, B
  <2> QED BY <2>1, <2>2, ApartAdd
<1>12. /\ c.pass_pass \in Nat /\ c.pass_fail \in Nat /\ c.fail_pass \in Nat
       /\ c.fail_fail \in Nat /\ c.excluded \in Nat
  BY <1>1, <1>7, FS_CardinalityType
<1>13. total_trials(c) = Cardinality(S)
  BY <1>1, <1>8, <1>11, <1>12 DEF total_trials, eligible_trials
<1>14. c.errors <= c.excluded
  BY <1>1, <1>3, <1>7, FS_Subset
<1>15. Cardinality(F) >= c.pass_fail + c.fail_fail
  <2>1. (P \ G) \cup (C \ (P \cup G)) \subseteq F
    BY <1>4, <1>6
  <2>2. Cardinality((P \ G) \cup (C \ (P \cup G))) <= Cardinality(F)
    BY <1>7, <2>1, FS_Subset
  <2>3. Cardinality(F) \in Nat
    BY <1>7, FS_CardinalityType
  <2> QED BY <1>9, <1>12, <2>2, <2>3
<1>16. Cardinality(X) <= c.excluded
  BY <1>1, <1>5, <1>7, FS_Subset
<1> QED BY <1>12, <1>13, <1>14, <1>15, <1>16 DEF F, X

\* What is read of readable rows adds up.
LEMMA ReadAddsUp ==
    ASSUME BenchInv, ReadInv
    PROVE  MatrixHolds
<1>1. rows \in Table /\ IsFiniteSet(Present) /\ Present = Stored(rows)
  BY DEF BenchInv, RowsInv, TableInv, ReadInv, Present
<1> DEFINE c == tally(rows, Present)
           s == read_benchmark
           label == [t \in Present |-> VariantLabel(rows[t], suite.frozen)]
           labels == {label[t] : t \in Present}
           group(l) == {t \in Present : label[t] = l}
           populations == read_benchmark_correlation
           size == [l \in DOMAIN populations |-> populations[l].trials]
<1>2. /\ c.pass_pass \in Nat /\ c.pass_fail \in Nat /\ c.fail_pass \in Nat
      /\ c.fail_fail \in Nat /\ total_trials(c) = Cardinality(Present) /\ c.errors <= c.excluded
  BY <1>1, TallyCounts DEF ReadInv
<1>3. s.counts = c /\ s.metrics = metrics_for(c)
  BY DEF read_benchmark, summarize, Present
<1>4. \A k \in DOMAIN s.metrics : RateSound(s.metrics[k])
  <2> HIDE DEF c
  <2>1. /\ RateSound(Rate(call_level_passes(c), eligible_trials(c)))
        /\ RateSound(Rate(outcome_passes(c), eligible_trials(c)))
        /\ RateSound(Rate(c.pass_pass, eligible_trials(c)))
        /\ RateSound(Rate(c.pass_fail, call_level_passes(c)))
    BY <1>2, RateIsSound DEF call_level_passes, outcome_passes, eligible_trials
  <2> QED BY <1>3, <2>1 DEF metrics_for
<1>5. /\ DOMAIN populations = labels
      /\ \A l \in labels : populations[l] = _population(rows, group(l))
  BY DEF read_benchmark_correlation, correlate, Grouped
<1>6. ASSUME NEW l \in labels
      PROVE  /\ populations[l].trials = Cardinality(group(l))
             /\ LET p == populations[l] IN
                /\ p.agreement + p.overstated + p.understated = eligible_trials(p.counts)
                /\ p.observed["failed"] >= p.overstated + p.counts.fail_fail
                /\ p.evaluator["error"] <= p.counts.excluded
                /\ RateSound(p.agreement_rate) /\ RateSound(p.understated_rate)
  <2> DEFINE S == group(l)
             d == tally(rows, S)
             p == populations[l]
  <2>1. S \subseteq Stored(rows) /\ IsFiniteSet(S) /\ \A t \in S : Readable(rows[t])
    BY <1>1, FS_Subset DEF ReadInv
  <2>2. p = _population(rows, S)
    BY <1>5
  <2> HIDE DEF S, p
  <2>3. /\ d.pass_pass \in Nat /\ d.pass_fail \in Nat /\ d.fail_pass \in Nat
        /\ d.fail_fail \in Nat /\ total_trials(d) = Cardinality(S)
        /\ Cardinality({t \in S : rows[t].outcome = "failed"}) >= d.pass_fail + d.fail_fail
        /\ Cardinality({t \in S : rows[t].call = "error"}) <= d.excluded
    BY <1>1, <2>1, TallyCounts
  <2> HIDE DEF d
  <2>4. /\ p.trials = total_trials(d) /\ p.counts = d
        /\ p.agreement = d.pass_pass + d.fail_fail
        /\ p.overstated = d.pass_fail /\ p.understated = d.fail_pass
        /\ p.agreement_rate = Rate(d.pass_pass + d.fail_fail, eligible_trials(d))
        /\ p.understated_rate = Rate(d.fail_pass, d.fail_pass + d.fail_fail)
    BY <2>2 DEF _population, d
  <2>5. p.observed["failed"] = Cardinality({t \in S : rows[t].outcome = "failed"})
    <3> DEFINE field == [t \in S |-> rows[t].outcome]
    <3>1. p.observed = _distribution(OutcomeTrialResult, field)
      BY <2>2 DEF _population
    <3>2. {t \in DOMAIN field : field[t] = "failed"} = {t \in S : rows[t].outcome = "failed"}
      OBVIOUS
    <3> HIDE DEF field
    <3> QED BY <3>1, <3>2 DEF _distribution, OutcomeTrialResult
  <2>6. p.evaluator["error"] = Cardinality({t \in S : rows[t].call = "error"})
    <3> DEFINE field == [t \in S |-> rows[t].call]
    <3>1. p.evaluator = _distribution(CallLevelResult, field)
      BY <2>2 DEF _population
    <3>2. {t \in DOMAIN field : field[t] = "error"} = {t \in S : rows[t].call = "error"}
      OBVIOUS
    <3> HIDE DEF field
    <3> QED BY <3>1, <3>2 DEF _distribution, CallLevelResult
  <2>7. RateSound(p.agreement_rate) /\ RateSound(p.understated_rate)
    BY <2>3, <2>4, RateIsSound DEF eligible_trials
  <2>8. p.agreement + p.overstated + p.understated = eligible_trials(p.counts)
    BY <2>3, <2>4 DEF eligible_trials
  <2> QED BY <2>3, <2>4, <2>5, <2>6, <2>7, <2>8 DEF p, S
<1>7. MapThenSumSet(LAMBDA l : size[l], DOMAIN populations) = Cardinality(Present)
  <2>1. IsFiniteSet(labels) /\ \A t \in Present : label[t] \in labels
    <3> HIDE DEF label
    <3> QED BY <1>1, ImageFinite
  <2> DEFINE fibres == [l \in labels |-> Cardinality({t \in Present : label[t] = l})]
  <2>2. Total(fibres, labels) = Cardinality(Present)
    <3> HIDE DEF label, labels
    <3> QED BY <1>1, <2>1, FibresAddUp
  <2>3. \A l \in labels : size[l] = fibres[l]
    BY <1>5, <1>6
  <2>4. Total(size, labels) = Total(fibres, labels)
    <3> HIDE DEF labels, size, fibres
    <3> QED BY <2>1, <2>3, TotalSame
  <2>5. MapThenSumSet(LAMBDA l : size[l], labels) = Total(size, labels)
    <3> HIDE DEF labels, size
    <3> QED BY <2>1, MapIsTotal
  <2> QED BY <1>5, <2>2, <2>4, <2>5
<1> HIDE DEF c, label, labels, group
<1> QED BY <1>2, <1>3, <1>4, <1>5, <1>6, <1>7 DEF MatrixHolds, ReadInv

\* What an import inserts is finitely many trials.
LEMMA FoundFinite ==
    ASSUME NEW report \in Reports, NEW mode
    PROVE  IsFiniteSet(DOMAIN normalize(report, mode))
<1> DEFINE places == DOMAIN report
           trial == [i \in places |-> Imported(_addresses(report, i).of)]
<1>1. IsFiniteSet(places)
  BY RowAssumption, FS_Interval
<1>2. IsFiniteSet({trial[i] : i \in places})
  <2> HIDE DEF places, trial
  <2> QED BY <1>1, ImageFinite
<1> QED BY <1>2 DEF normalize

\* A step that writes readable rows, one more at most, keeps the rest so.
LEMMA ReadKept ==
    ASSUME ReadInv, NEW new, IsFiniteSet(new), Present' \subseteq Present \cup new,
           \A t \in Present' : \/ rows'[t] = rows[t] /\ t \in Present
                               \/ Readable(rows'[t]),
           \A w \in Requests : \/ req'[w] = req[w]
                               \/ req'[w].pc # "importing"
                               \/ IsFiniteSet(DOMAIN req'[w].found)
    PROVE  ReadInv'
<1>1. IsFiniteSet(Present')
  BY FS_Union, FS_Subset DEF ReadInv
<1>2. \A t \in Present' : Readable(rows'[t])
  BY DEF ReadInv
<1> QED BY <1>1, <1>2 DEF ReadInv, Readable

\* What the seal leaves of a readable row is readable.
LEMMA SealReadable ==
    ASSUME NEW rec \in Row, Readable(rec)
    PROVE  /\ Readable(_derive_bound_outcomes(rec))
           /\ Readable(_mark_unbound_excluded(rec))
<1>1. ASSUME NEW o, NEW e, NEW reason, e = (reason = None)
      PROVE  Readable([rec EXCEPT !.outcome = o, !.eligible = e, !.reason = reason])
  BY <1>1 DEF Readable, Row
<1>2. Readable([rec EXCEPT !.eligible = FALSE, !.reason = "unbound"])
  BY EnumAssumption DEF Readable, Row, ExclusionReason
<1>3. Readable(_derive_bound_outcomes(rec))
  BY <1>1, Zenon DEF _derive_bound_outcomes
<1> QED BY <1>2, <1>3 DEF _mark_unbound_excluded

\* A binding leaves a row as readable as it was, and so does the seal.
LEMMA SaveReadable ==
    ASSUME BenchInv, ReadInv, NEW bound \in SUBSET Present,
           NEW bindings \in [bound -> TrialBinding], NEW acknowledged, NEW seals \in BOOLEAN,
           save_bindings(bindings, acknowledged, seals),
           NEW t \in Trials, rows'[t] # None, rows[t] # None
    PROVE  Readable(rows'[t])
<1>1. PICK half : half = _save_binding(bindings)
  OBVIOUS
<1>2. rows[t] \in Row /\ Readable(rows[t])
  BY DEF BenchInv, RowsInv, TableInv, Table, ReadInv, Present, Stored
<1>3. ASSUME NEW b PROVE /\ Readable([rows[t] EXCEPT !.outcome_run = b])
                         /\ Readable([rows[t] EXCEPT !.evaluation_run = b])
  BY <1>2 DEF Readable, Row
<1>4. half[t] = rows[t] \/ (\E b : half[t] = [rows[t] EXCEPT !.outcome_run = b])
        \/ (\E b : half[t] = [rows[t] EXCEPT !.evaluation_run = b])
  BY <1>1 DEF _save_binding
<1>5. Readable(half[t])
  BY <1>2, <1>3, <1>4
<1>6. half[t] \in Row
  <2>1. TableInv(half) /\ half[t] # None
    <3>1. suite.status = "draft"
      BY DEF save_bindings, _draft
    <3> QED BY <1>1, <3>1, BoundTable DEF save_bindings
  <2> QED BY <2>1 DEF TableInv, Table
<1>7. rows'[t] = half[t] \/ rows'[t] = _derive_bound_outcomes(half[t])
        \/ rows'[t] = _mark_unbound_excluded(half[t])
  BY <1>1 DEF save_bindings, seal
<1> QED
  BY <1>5, <1>6, <1>7, SealReadable

\* What a replay and a repetition write can be read back.
LEMMA WrittenReadable ==
    ASSUME NEW rec \in Row
    PROVE  /\ \A e, result : Readable(FinishedRow(rec, e, result))
           /\ \A o, reason : reason \in ExclusionReason =>
                Readable([rec EXCEPT !.outcome = o, !.eligible = FALSE, !.reason = reason])
           /\ \A v : Readable([rec EXCEPT !.outcome = "not_reached", !.eligible = FALSE,
                         !.reason = "outcome_not_reached", !.outcome_run = None,
                         !.evaluation_run = None, !.variant = v])
<1>1. \A e, result : Readable(FinishedRow(rec, e, result))
  BY DEF FinishedRow, Readable, Row
<1>2. \A o, reason : reason \in ExclusionReason =>
        Readable([rec EXCEPT !.outcome = o, !.eligible = FALSE, !.reason = reason])
  BY EnumAssumption DEF Readable, Row
<1>3. \A v : Readable([rec EXCEPT !.outcome = "not_reached", !.eligible = FALSE,
                         !.reason = "outcome_not_reached", !.outcome_run = None,
                         !.evaluation_run = None, !.variant = v])
  BY EnumAssumption DEF Readable, Row, ExclusionReason
<1> QED BY <1>1, <1>2, <1>3

\* A step that leaves the rows alone, and begins no import.
LEMMA RowsStay ==
    ASSUME ReadInv, rows' = rows,
           \A w \in Requests : req'[w] = req[w] \/ req'[w].pc # "importing"
    PROVE  ReadInv'
<1>1. Present' = Present /\ IsFiniteSet({})
  BY FS_EmptySet DEF Present, Stored
<1> QED BY <1>1, ReadKept

\* A step that moves one request writes to no other's.
LEMMA OthersStay ==
    ASSUME BenchInv, NEW w \in Requests, NEW q, req' = [req EXCEPT ![w] = q]
    PROVE  req'[w] = q /\ \A v \in Requests : v # w => req'[v] = req[v]
BY DEF BenchInv, RequestsInv

\* The next step of a replaying request begins no import.
LEMMA AdvanceImportsNot ==
    ASSUME NEW r, DOMAIN r = DOMAIN NoRequest
    PROVE  Advance(r).pc # "importing"
BY DEF Advance, NoRequest

\* A trial's row written anew.
LEMMA WriteRead ==
    ASSUME BenchInv, ReadInv, NEW w \in Requests, NEW q, req' = [req EXCEPT ![w] = q],
           q.pc # "importing", NEW t \in Trials, NEW new, Readable(new),
           rows' = [rows EXCEPT ![t] = new]
    PROVE  ReadInv'
<1>1. rows \in Table
  BY DEF BenchInv, RowsInv, TableInv
<1>2. rows'[t] = new /\ \A u \in Trials : u # t => rows'[u] = rows[u]
  BY <1>1 DEF Table
<1>3. Present' \subseteq Present \cup {t}
  BY <1>2 DEF Present, Stored
<1>4. \A u \in Present' : (rows'[u] = rows[u] /\ u \in Present) \/ Readable(rows'[u])
  BY <1>2 DEF Present, Stored
<1>5. IsFiniteSet({t})
  BY FS_Singleton
<1> QED BY <1>3, <1>4, <1>5, OthersStay, ReadKept

\* An import inserts its trials, or none.
LEMMA ImportRead ==
    ASSUME BenchInv, ReadInv, NEW w \in Requests, record_import(w)
    PROVE  ReadInv'
<1>1. req' = [req EXCEPT ![w] = NoRequest] /\ NoRequest.pc # "importing" /\ ReqInv(req[w])
  BY DEF record_import, NoRequest, BenchInv, RequestsInv
<1>2. \A v \in Requests : req'[v] = req[v] \/ req'[v].pc # "importing"
  BY <1>1, OthersStay
<1>3. CASE rows' = rows
  BY <1>2, <1>3, RowsStay
<1>4. CASE rows' # rows
  <2>1. PICK taken : taken = req[w].found
    OBVIOUS
  <2>2. /\ FoundInv(taken) /\ IsFiniteSet(DOMAIN taken)
        /\ rows' = [t \in Trials |-> IF t \in DOMAIN taken THEN taken[t] ELSE rows[t]]
    BY <1>1, <1>4, <2>1 DEF record_import, ReqInv, ReadInv
  <2>3. Present' \subseteq Present \cup DOMAIN taken
    BY <2>2 DEF Present, Stored
  <2>4. \A t \in Present' : (rows'[t] = rows[t] /\ t \in Present) \/ Readable(rows'[t])
    BY <2>2 DEF Present, Stored, FoundInv, Readable
  <2> QED BY <1>2, <2>2, <2>3, <2>4, ReadKept
<1> QED BY <1>3, <1>4

\* Bindings change rows that are there.
LEMMA SaveRead ==
    ASSUME BenchInv, ReadInv, NEW bound \in SUBSET Present,
           NEW bindings \in [bound -> TrialBinding], NEW acknowledged, NEW seals \in BOOLEAN,
           save_bindings(bindings, acknowledged, seals)
    PROVE  ReadInv'
<1>1. req' = req
  BY DEF save_bindings
<1>2. \A t \in Trials : rows[t] = None => rows'[t] = None
  BY DEF save_bindings, _save_binding, seal, Present, Stored
<1>3. Present' \subseteq Present \cup {}
  BY <1>2 DEF Present, Stored
<1>4. \A t \in Present' : Readable(rows'[t])
  BY <1>2, SaveReadable DEF Present, Stored
<1> QED BY <1>1, <1>3, <1>4, ReadKept, FS_EmptySet

\* A repetition adds a row, or ends the request.
LEMMA RepetitionRead ==
    ASSUME BenchInv, ReadInv, NEW w \in Requests, RunRepetitions(w)
    PROVE  ReadInv'
<1>0. DOMAIN req[w] = DOMAIN NoRequest /\ NoRequest.pc # "importing"
  BY DEF BenchInv, RequestsInv, ReqInv, NoRequest
<1>1. CASE record_repetition(w)
  <2>1. PICK r : r = req[w]
    OBVIOUS
  <2>2. PICK t : t = NextRepetition(r.todo)
    OBVIOUS
  <2>3. CASE ~ (_draft /\ rows[t] = None)
    <3>1. UNCHANGED rows /\ req' = [req EXCEPT ![w] = NoRequest]
      BY <1>1, <2>1, <2>2, <2>3 DEF record_repetition
    <3> QED BY <1>0, <3>1, OthersStay, RowsStay
  <2>4. CASE _draft /\ rows[t] = None
    <3>1. PICK source : source = r.plan.source
      OBVIOUS
    <3>2. PICK q : q = [r EXCEPT !.pc = "trial", !.trial = t, !.todo = @ \ {t}]
      OBVIOUS
    <3>3. PICK new : new = [rows[source] EXCEPT !.outcome = "not_reached", !.eligible = FALSE,
                               !.reason = "outcome_not_reached", !.outcome_run = None,
                               !.evaluation_run = None, !.variant = r.plan.variant]
      OBVIOUS
    <3>4. rows' = [rows EXCEPT ![t] = new] /\ req' = [req EXCEPT ![w] = q]
      BY <1>1, <2>1, <2>2, <2>4, <3>1, <3>2, <3>3 DEF record_repetition
    <3>5. q.pc # "importing"
      BY <1>0, <2>1, <3>2 DEF NoRequest
    <3>6. PlanInv(r) /\ rows \in Table
      BY <1>1, <2>1 DEF record_repetition, BenchInv, RequestsInv, ReqInv, Replaying, RowsInv,
                        TableInv
    <3>7. rows[source] \in Row
      BY <3>1, <3>6 DEF PlanInv, Plan, Table
    <3>8. Readable(new)
      BY <3>3, <3>7, WrittenReadable
    <3>9. CASE t \in Trials
      BY <3>4, <3>5, <3>8, <3>9, WriteRead
    <3>10. CASE t \notin Trials
      <4>1. rows' = rows
        BY <3>4, <3>6, <3>10 DEF Table
      <4> QED BY <3>4, <3>5, <4>1, OthersStay, RowsStay
    <3> QED BY <3>9, <3>10
  <2> QED BY <2>3, <2>4
<1>2. CASE _record_exclusion(w)
  <2>1. PICK r : r = req[w]
    OBVIOUS
  <2>2. PICK t : t = r.trial
    OBVIOUS
  <2>3. PICK q : q = Advance([r EXCEPT !.reason = None])
    OBVIOUS
  <2>4. PICK new : new = [rows[t] EXCEPT !.outcome = "not_reached", !.eligible = FALSE,
                                         !.reason = r.reason]
    OBVIOUS
  <2>5. rows' = [rows EXCEPT ![t] = new] /\ req' = [req EXCEPT ![w] = q]
    BY <1>2, <2>1, <2>2, <2>3, <2>4 DEF _record_exclusion, BenchInv, RequestsInv
  <2>6. t \in Present /\ rows \in Table /\ r.reason \in ExclusionReason
    BY <1>2, <2>1, <2>2 DEF _record_exclusion, BenchInv, RequestsInv, ReqInv, AtTrial, RowsInv,
                            TableInv
  <2>7. rows[t] \in Row /\ t \in Trials
    BY <2>6 DEF Table, Present, Stored
  <2>8. Readable(new)
    BY <2>4, <2>6, <2>7, WrittenReadable
  <2>9. q.pc # "importing"
    <3>1. PICK s : s = [r EXCEPT !.reason = None]
      OBVIOUS
    <3>2. DOMAIN s = DOMAIN NoRequest
      BY <1>0, <2>1, <3>1
    <3> QED BY <2>3, <3>1, <3>2, AdvanceImportsNot
  <2> QED BY <2>5, <2>7, <2>8, <2>9, WriteRead
<1> QED BY <1>1, <1>2 DEF RunRepetitions

\* A replay writes one row, when it finishes.
LEMMA ReplayRead ==
    ASSUME BenchInv, ReadInv, NEW w \in Requests, replay(w)
    PROVE  ReadInv'
<1>1. PICK r : r = req[w]
  OBVIOUS
<1>2. DOMAIN r = DOMAIN NoRequest /\ NoRequest.pc # "importing" /\ Advance(r).pc # "importing"
      /\ req = [v \in Requests |-> req[v]]
  BY <1>1, AdvanceImportsNot DEF BenchInv, RequestsInv, ReqInv, NoRequest
<1>3. ASSUME NEW q, req' = [req EXCEPT ![w] = q], q.pc # "importing", rows' = rows
      PROVE  ReadInv'
  BY <1>3, OthersStay, RowsStay
<1>4. CASE _open_run(w)
  <2>1. PICK q : q = [r EXCEPT !.pc = "executing", !.run = Len(evalruns) + 1]
    OBVIOUS
  <2>2. q.pc # "importing"
    BY <1>2, <2>1 DEF NoRequest
  <2>3. req' = [req EXCEPT ![w] = q] /\ rows' = rows
    BY <1>1, <1>2, <1>4, <2>1 DEF _open_run
  <2> QED BY <1>3, <2>2, <2>3
<1>5. ASSUME NEW reason, _excluded(w, reason) PROVE ReadInv'
  <2>1. PICK q : q = IF r.plan # None THEN [r EXCEPT !.pc = "excluding", !.reason = reason]
                                      ELSE Advance(r)
    OBVIOUS
  <2>2. q.pc # "importing"
    BY <1>2, <2>1 DEF NoRequest
  <2>3. req' = [req EXCEPT ![w] = q] /\ rows' = rows
    BY <1>1, <1>5, <2>1 DEF _excluded
  <2> QED BY <1>3, <2>2, <2>3
<1>6. ASSUME NEW result, _finish_run(w, result) PROVE ReadInv'
  <2>1. CASE ~ Unclaimed(r.run, r.trial)
    <3>1. req' = [req EXCEPT ![w] = NoRequest] /\ rows' = rows
      BY <1>1, <1>6, <2>1 DEF _finish_run
    <3> QED BY <1>2, <1>3, <3>1
  <2>2. CASE Unclaimed(r.run, r.trial)
    <3>1. PICK t : t = r.trial
      OBVIOUS
    <3>2. PICK new : new = FinishedRow(rows[t], r.run, result)
      OBVIOUS
    <3>3. rows' = [rows EXCEPT ![t] = new] /\ req' = [req EXCEPT ![w] = Advance(r)]
      BY <1>1, <1>6, <2>2, <3>1, <3>2 DEF _finish_run
    <3>4. t \in Present /\ rows \in Table
      BY <1>1, <1>6, <3>1 DEF _finish_run, BenchInv, RequestsInv, ReqInv, AtTrial, RowsInv,
                              TableInv
    <3>5. rows[t] \in Row /\ t \in Trials
      BY <3>4 DEF Table, Present, Stored
    <3>6. Readable(new)
      BY <3>2, <3>5, WrittenReadable
    <3> QED BY <1>2, <3>3, <3>5, <3>6, WriteRead
  <2> QED BY <2>1, <2>2
<1> QED BY <1>4, <1>5, <1>6 DEF replay

\* Whatever is done, the rows can be read back.
LEMMA ReadStep ==
    ASSUME BenchInv, ReadInv, [Next]_vars
    PROVE  ReadInv'
<1>1. ASSUME rows' = rows, req' = req PROVE ReadInv'
  BY <1>1, RowsStay
<1>2. ASSUME NEW w \in Requests, NEW q, req' = [req EXCEPT ![w] = q], q.pc # "importing",
             rows' = rows
      PROVE  ReadInv'
  BY <1>2, OthersStay, RowsStay
<1>3. CASE UNCHANGED vars
  BY <1>1, <1>3 DEF vars
<1>4. ASSUME NEW r, NEW result, RunEnds(r, result) PROVE ReadInv'
  BY <1>1, <1>4 DEF RunEnds
<1>5. ASSUME NEW mode, create_benchmark(mode) PROVE ReadInv'
  BY <1>1, <1>5 DEF create_benchmark, create
<1>6. ASSUME NEW texts, NEW indices, freeze_benchmark_variants(texts, indices) PROVE ReadInv'
  BY <1>1, <1>6 DEF freeze_benchmark_variants
<1>7. ASSUME NEW w \in Requests, NEW report \in Reports, import_evaluator_report(w, report)
      PROVE  ReadInv'
  <2>1. PICK taken : taken = normalize(report, suite.mode)
    OBVIOUS
  <2>2. PICK q : q = [NoRequest EXCEPT !.pc = "importing", !.found = taken]
    OBVIOUS
  <2>3. req' = [req EXCEPT ![w] = q] /\ rows' = rows
    BY <1>7, <2>1, <2>2 DEF import_evaluator_report, prepare_import
  <2>4. q.found = taken
    BY <2>2 DEF NoRequest
  <2>5. IsFiniteSet(DOMAIN taken)
    BY <2>1, FoundFinite
  <2>6. Present' = Present /\ IsFiniteSet({})
    BY <2>3, FS_EmptySet DEF Present, Stored
  <2> QED BY <2>3, <2>4, <2>5, <2>6, OthersStay, ReadKept
<1>8. ASSUME NEW w \in Requests,
             \/ replay_benchmark(w) \/ start(w) \/ finalize_benchmark(w) \/ seal_finalize(w)
             \/ mark_error(w) \/ Dropped(w)
             \/ \E t, count, v : run_repeated_trials(w, t, count, v)
      PROVE  ReadInv'
  <2>1. /\ DOMAIN req[w] = DOMAIN NoRequest /\ NoRequest.pc # "importing"
        /\ Advance(req[w]).pc # "importing" /\ req = [v \in Requests |-> req[v]]
    BY AdvanceImportsNot DEF BenchInv, RequestsInv, ReqInv, NoRequest
  <2>2. CASE start(w)
    BY <1>2, <2>1, <2>2 DEF start
  <2>3. CASE replay_benchmark(w)
    <3>1. PICK q : q = [NoRequest EXCEPT !.pc = "starting", !.todo = Present]
      OBVIOUS
    <3>2. q.pc # "importing"
      BY <3>1 DEF NoRequest
    <3> QED BY <1>2, <2>3, <3>1, <3>2 DEF replay_benchmark
  <2>4. CASE finalize_benchmark(w)
    <3>1. PICK q : q = [NoRequest EXCEPT !.pc = "finalizing", !.report = summarize(rows)]
      OBVIOUS
    <3>2. PICK u : u = [NoRequest EXCEPT !.pc = "refused"]
      OBVIOUS
    <3>3. q.pc # "importing" /\ u.pc # "importing"
      BY <3>1, <3>2 DEF NoRequest
    <3>4. rows' = rows /\ (req' = [req EXCEPT ![w] = q] \/ req' = [req EXCEPT ![w] = u])
      BY <2>4, <3>1, <3>2 DEF finalize_benchmark
    <3> QED BY <1>2, <3>3, <3>4
  <2>5. CASE seal_finalize(w)
    <3>1. PICK u : u = [NoRequest EXCEPT !.pc = "refused"]
      OBVIOUS
    <3>2. u.pc # "importing"
      BY <3>1 DEF NoRequest
    <3> QED BY <1>2, <2>1, <2>5, <3>1, <3>2 DEF seal_finalize
  <2>6. CASE mark_error(w) \/ Dropped(w)
    BY <1>2, <2>1, <2>6 DEF mark_error, Dropped
  <2>7. ASSUME NEW t, NEW count, NEW v, run_repeated_trials(w, t, count, v) PROVE ReadInv'
    <3>1. PICK q : req' = [req EXCEPT ![w] = q] /\ rows' = rows
                   /\ \E plan, todo : q = [NoRequest EXCEPT !.pc = "repeating", !.plan = plan,
                                                           !.todo = todo]
      BY <2>7 DEF run_repeated_trials
    <3>2. q.pc # "importing"
      BY <3>1 DEF NoRequest
    <3> QED BY <1>2, <3>1, <3>2
  <2> QED BY <1>8, <2>2, <2>3, <2>4, <2>5, <2>6, <2>7
<1>9. ASSUME Next PROVE ReadInv'
  BY <1>4, <1>5, <1>6, <1>7, <1>8, <1>9, ImportRead, SaveRead, RepetitionRead, ReplayRead
  DEF Next
<1> QED BY <1>3, <1>9

\* A suite's rows can be read back whenever it is read, each is counted exactly once in the
\* matrix, the breakdown and the correlation, and every rate is a fraction of the population
\* it names: no step of a replay, a binding or a seal leaves a row that is excluded without
\* a reason or eligible with one (matrix.tally, correlate, trial_from_row).
THEOREM MatrixAlwaysHolds == Spec => []MatrixHolds
<1>1. Init => ReadInv
  <2> SUFFICES ASSUME Init PROVE ReadInv
    OBVIOUS
  <2>1. Present = {} /\ \A w \in Requests : req[w].pc # "importing"
    BY DEF Init, Present, Stored, NoRequest
  <2> QED BY <2>1, FS_EmptySet DEF ReadInv
<1> QED BY <1>1, BenchInductive, ReadStep, ReadAddsUp, PTL DEF Spec

----------------------------------------------------------------------------
\* Regression evals

\* A function from the first numbers.
IsSeq(s) == Len(s) \in Nat /\ s = [n \in 1..Len(s) |-> s[n]]

LEMMA SeqIs ==
    ASSUME NEW E, NEW s \in Seq(E)
    PROVE  IsSeq(s)
<1>1. Len(s) \in Nat /\ s \in [1..Len(s) -> E]
  BY LenProperties
<1> QED BY <1>1 DEF IsSeq

\* Two on end: the first, then the second, nothing else.
LEMMA OnEnd ==
    ASSUME NEW s, IsSeq(s), NEW t, IsSeq(t)
    PROVE  /\ IsSeq(s \o t) /\ Len(s \o t) = Len(s) + Len(t)
           /\ \A n \in 1..Len(s) : (s \o t)[n] = s[n]
           /\ \A n \in 1..Len(t) : (s \o t)[Len(s) + n] = t[n]
<1> DEFINE E == {s[n] : n \in 1..Len(s)} \cup {t[n] : n \in 1..Len(t)}
<1>1. s \in Seq(E)
  <2>1. [n \in 1..Len(s) |-> s[n]] \in [1..Len(s) -> E]
    OBVIOUS
  <2> QED BY <2>1 DEF IsSeq
<1>2. t \in Seq(E)
  <2>1. [n \in 1..Len(t) |-> t[n]] \in [1..Len(t) -> E]
    OBVIOUS
  <2> QED BY <2>1 DEF IsSeq
<1> HIDE DEF E
<1>3. s \o t \in Seq(E) /\ Len(s \o t) = Len(s) + Len(t)
  BY <1>1, <1>2
<1>4. ASSUME NEW n \in 1..Len(s) PROVE (s \o t)[n] = s[n]
  BY <1>1, <1>2
<1>5. ASSUME NEW n \in 1..Len(t) PROVE (s \o t)[Len(s) + n] = t[n]
  <2>1. Len(s) \in Nat /\ Len(t) \in Nat
    BY DEF IsSeq
  <2> QED BY <1>1, <1>2, <2>1
<1> QED BY <1>3, <1>4, <1>5, SeqIs

LEMMA OneMore ==
    ASSUME NEW s, IsSeq(s), NEW x
    PROVE  /\ IsSeq(Append(s, x)) /\ Len(Append(s, x)) = Len(s) + 1
           /\ \A n \in 1..Len(s) : Append(s, x)[n] = s[n]
           /\ Append(s, x)[Len(s) + 1] = x
<1> DEFINE E == {s[n] : n \in 1..Len(s)} \cup {x}
<1>1. s \in Seq(E) /\ x \in E
  <2>1. [n \in 1..Len(s) |-> s[n]] \in [1..Len(s) -> E]
    OBVIOUS
  <2> QED BY <2>1 DEF IsSeq
<1> HIDE DEF E
<1>2. Append(s, x) \in Seq(E) /\ Len(Append(s, x)) = Len(s) + 1
  BY <1>1
<1>3. /\ \A n \in 1..Len(s) : Append(s, x)[n] = s[n]
      /\ Append(s, x)[Len(s) + 1] = x
  BY <1>1
<1> QED BY <1>2, <1>3, SeqIs

\* What is kept of a sequence is one.
LEMMA KeptInOrder ==
    ASSUME NEW s, IsSeq(s), NEW indices, indices \subseteq DOMAIN s
    PROVE  IsSeq(InOrder(s, indices))
<1>1. DOMAIN s = 1..Len(s) /\ Len(s) \in Nat
  BY DEF IsSeq
<1>2. IsFiniteSet(indices)
  <2>1. IsFiniteSet(DOMAIN s)
    BY <1>1, FS_Interval
  <2> QED BY <2>1, FS_Subset
<1>3. PICK k \in Nat : k = Cardinality(indices)
  BY <1>2, FS_CardinalityType
<1>4. InOrder(s, indices) = [n \in 1..k |-> s[Nth(indices, n - 1)]]
  BY <1>3 DEF InOrder
<1>5. PICK r : r = InOrder(s, indices)
  OBVIOUS
<1>6. Len(r) = k /\ r = [n \in 1..k |-> r[n]]
  <2>1. DOMAIN r = 1..k
    BY <1>4, <1>5
  <2> QED BY <1>4, <1>5, <2>1
<1> QED BY <1>5, <1>6 DEF IsSeq


\* What a policy's finding carries whatever else is said of it.
LEMMA PolicyFindingHas ==
    ASSUME NEW p, NEW status, NEW class, NEW causal
    PROVE  LET f == PolicyFinding(p, status, class, causal)
           IN f.status = status /\ f.severity = "critical"
BY DEF PolicyFinding, Finding

\* Nothing critical failed in a layer that passed.
LEMMA PassedClean ==
    ASSUME NEW findings, aggregate(findings) = "passed",
           NEW f \in findings, f.severity = "critical"
    PROVE  f.status \notin {"failed", "observation_unavailable"}
BY DEF aggregate, FailuresOf, failed

\* An assertion's finding keeps its severity and what the operator said.
LEMMA AssertionTrue ==
    ASSUME NEW a, NEW tl, NEW effects, NEW before, NEW after,
           LET f == classify_one(evaluate_assertion(a, before, after), tl, effects, before)
           IN f.status \notin {"failed", "observation_unavailable"}
    PROVE  evaluate_operator(a, before, after)
<1>1. PICK g : g = evaluate_assertion(a, before, after)
  OBVIOUS
<1>2. SUFFICES ASSUME ~evaluate_operator(a, before, after) PROVE FALSE
  OBVIOUS
<1>3. \/ g = AssertionFinding(a, "observation_unavailable", "observation_unavailable")
      \/ g = AssertionFinding(a, "failed", "assertion_mismatch")
  BY <1>1, <1>2 DEF evaluate_assertion
<1>4. g.status \in {"failed", "observation_unavailable"}
  BY <1>3 DEF AssertionFinding, Finding
<1>5. PICK f : f = classify_one(g, tl, effects, before)
  OBVIOUS
<1>6. f.status = g.status
  <2>1. CASE f = g
    BY <2>1
  <2>2. CASE f # g
    <3>1. g.status = "failed"
      BY <1>5, <2>2 DEF classify_one
    <3>2. g = AssertionFinding(a, "failed", "assertion_mismatch")
      BY <1>3, <3>1 DEF AssertionFinding, Finding
    <3>3. PICK cause, causal, class :
              f = [g EXCEPT !.cause = cause, !.causal = causal, !.class = class]
      <4>1. PICK i : i = last_relevant_action(g.path, tl, effects)
        OBVIOUS
      <4>2. CASE i = 0
        <5>1. f = [g EXCEPT !.cause = NoCause]
          BY <1>5, <2>2, <4>1, <4>2 DEF classify_one
        <5>2. f = [g EXCEPT !.cause = NoCause, !.causal = g.causal, !.class = g.class]
          BY <3>2, <5>1 DEF AssertionFinding, Finding
        <5> QED BY <5>2
      <4>3. CASE i # 0
        <5>1. f = [g EXCEPT !.cause = ToolAction(i, tl[i]), !.causal = i,
                            !.class = IF Contradicted(g.term, tl[i], before)
                                      THEN "false_success_or_state_mismatch" ELSE @]
          BY <1>5, <2>2, <4>1, <4>3 DEF classify_one
        <5>2. PICK class : class = IF Contradicted(g.term, tl[i], before)
                                   THEN "false_success_or_state_mismatch" ELSE g.class
          OBVIOUS
        <5>3. f = [g EXCEPT !.cause = ToolAction(i, tl[i]), !.causal = i, !.class = class]
          BY <3>2, <5>1, <5>2 DEF AssertionFinding, Finding
        <5> QED BY <5>3
      <4> QED BY <4>2, <4>3
    <3> QED BY <3>2, <3>3 DEF AssertionFinding, Finding
  <2> QED BY <2>1, <2>2
<1> QED BY <1>1, <1>4, <1>5, <1>6

LEMMA AssertionSeverity ==
    ASSUME NEW a, NEW tl, NEW effects, NEW before, NEW after
    PROVE  classify_one(evaluate_assertion(a, before, after), tl, effects, before).severity
              = a.severity
<1>1. PICK g : g = evaluate_assertion(a, before, after)
  OBVIOUS
<1>2. PICK status, class : g = AssertionFinding(a, status, class)
  BY <1>1 DEF evaluate_assertion
<1>3. PICK f : f = classify_one(g, tl, effects, before)
  OBVIOUS
<1>4. g.severity = a.severity /\ DOMAIN g = DOMAIN Finding(1, 1, 1, 1, 1)
  BY <1>2 DEF AssertionFinding, Finding
<1>5. f.severity = g.severity
  BY <1>3 DEF classify_one
<1> QED BY <1>1, <1>3, <1>4, <1>5

\* The limit was kept, every completion having been observed.
LEMMA LimitKept ==
    ASSUME NEW p, p.type = "maximum_mutations", NEW tl, NEW effects, NEW declared, NEW changed,
           evaluate_policy(p, tl, effects, declared, changed).status
               \notin {"failed", "observation_unavailable"}
    PROVE  LET completions == Indices(tl, LAMBDA e : e.type = "tool_invocation_completed")
           IN /\ UnknownOf(tl, completions) = {}
              /\ ~ (Cardinality(MovedOf(tl, completions)) > p.limit)
<1> DEFINE completions == Indices(tl, LAMBDA e : e.type = "tool_invocation_completed")
           unknown == UnknownOf(tl, completions)
           moved == MovedOf(tl, completions)
<1>1. evaluate_policy(p, tl, effects, declared, changed) = evaluate_maximum_mutations(p, tl)
  BY DEF evaluate_policy
<1>2. evaluate_maximum_mutations(p, tl) =
        IF unknown # {} THEN Unavailable(p, Min(unknown))
        ELSE IF Cardinality(moved) > p.limit
        THEN PolicyFinding(p, "failed", "idempotency_violation", Nth(moved, p.limit))
        ELSE PolicyFinding(p, "passed", None, 0)
  BY DEF evaluate_maximum_mutations
<1> HIDE DEF unknown, moved
<1>3. Unavailable(p, Min(unknown)).status = "observation_unavailable"
  BY PolicyFindingHas DEF Unavailable
<1>4. PolicyFinding(p, "failed", "idempotency_violation", Nth(moved, p.limit)).status = "failed"
  BY PolicyFindingHas
<1>5. unknown = {} /\ ~ (Cardinality(moved) > p.limit)
  BY <1>1, <1>2, <1>3, <1>4
<1> QED BY <1>5 DEF unknown, moved

\* No request moved the target twice, every call under it having been observed.
LEMMA RequestsKept ==
    ASSUME NEW p, p.type = "idempotent_by_request_id", NEW tl, NEW effects, NEW declared,
           NEW changed, evaluate_policy(p, tl, effects, declared, changed).status
               \notin {"failed", "observation_unavailable"},
           NEW rid, rid # None, Cardinality(Under(tl, p.tool, rid)) > 1
    PROVE  /\ UnknownOf(tl, Under(tl, p.tool, rid)) = {}
           /\ ~ (Cardinality(MovedOf(tl, Under(tl, p.tool, rid))) > 1)
<1> DEFINE completions == completions_for(tl, p.tool)
           repeated == {tl[i].rid : i \in {j \in completions : tl[j].rid # None /\
                           Cardinality(Under(tl, p.tool, tl[j].rid)) > 1}}
           wrong == {r \in repeated :
                        LET group == Under(tl, p.tool, r) IN
                        UnknownOf(tl, group) # {} \/ Cardinality(MovedOf(tl, group)) > 1}
           group == Under(tl, p.tool, Min(wrong))
<1>1. evaluate_policy(p, tl, effects, declared, changed) = evaluate_idempotency(p, tl)
  BY DEF evaluate_policy
<1>2. evaluate_idempotency(p, tl) =
        IF wrong = {} THEN PolicyFinding(p, "passed", None, 0)
        ELSE IF UnknownOf(tl, group) # {} THEN Unavailable(p, Min(group))
             ELSE PolicyFinding(p, "failed", "idempotency_violation",
                                Nth(MovedOf(tl, group), 1))
  BY DEF evaluate_idempotency
<1>3. Unavailable(p, Min(group)).status = "observation_unavailable"
  BY PolicyFindingHas DEF Unavailable
<1>4. PolicyFinding(p, "failed", "idempotency_violation", Nth(MovedOf(tl, group), 1)).status
        = "failed"
  BY PolicyFindingHas
<1>5. wrong = {}
  <2> HIDE DEF wrong, group
  <2> QED BY <1>1, <1>2, <1>3, <1>4
<1>6. Under(tl, p.tool, rid) # {}
  BY FS_EmptySet
<1>7. rid \in repeated
  BY <1>6 DEF Under
<1> QED BY <1>5, <1>7


----------------------------------------------------------------------------
RunFields == {"pc", "contract", "scenario", "initial", "timeline", "decisions", "quiet",
              "result", "findings"}
EvalFields == {"pc", "env", "ws", "before", "last", "events", "ran", "stopped", "refused"}
RowFields == {"status", "result", "classes", "completed", "logged"}

\* A case is of a contract that was checked, and a pass is what it expects.
CaseHolds ==
    /\ case.contract \in Contracts
    /\ case.expected.current = EnvironmentExpectation("passed", {})
    /\ IsSeq(case.trajectory) /\ (case.surface # None => IsSeq(case.surface))

\* The nth event is of the nth call, and shows that it moved the target where
\* this call and the one before it were observed.
Tells(e, n) ==
    LET event == eval[e].events[n] IN
    /\ event.type = "tool_invocation_completed"
    /\ event.tool = eval[e].ran[n].tool /\ event.rid = eval[e].ran[n].rid
    /\ eval[e].ran[n].moved /\ SeenBefore(e, n) /\ event.after # None =>
          event.before # event.after

\* What a replay under way has made of its case.
Replayed(e) ==
    /\ IsSeq(eval[e].ran) /\ IsSeq(eval[e].events)
    /\ Len(eval[e].ran) <= Len(case.trajectory)
    /\ \A n \in 1..Len(eval[e].ran) : eval[e].ran[n].tool = case.trajectory[n].tool
    /\ ~eval[e].stopped =>
          /\ Len(eval[e].events) = Len(eval[e].ran) /\ row[e].logged = Len(eval[e].ran)
          /\ \A n \in 1..Len(eval[e].ran) : Tells(e, n)
          /\ SeenBefore(e, Len(eval[e].ran) + 1) => eval[e].last = target[e].state

\* What a green replay of the current implementation earned.
Green(e) ==
    /\ row[e].completed /\ row[e].logged = Len(case.trajectory)
    /\ ~eval[e].refused /\ ~eval[e].stopped /\ eval[e].ws = e
    /\ [n \in DOMAIN eval[e].ran |-> eval[e].ran[n].tool] =
          [n \in DOMAIN case.trajectory |-> case.trajectory[n].tool]
    /\ \A a \in case.contract.assertions :
          a.severity = "critical" => evaluate_operator(a, Seed, target[e].state)
    /\ \A p \in Policy(case.contract, "maximum_mutations") : Cardinality(Movers(e)) <= p.limit
    /\ \A p \in Policy(case.contract, "idempotent_by_request_id"), rid \in RequestIds :
          Cardinality(MovesShown(e, p.tool, rid)) <= 1

\* A row that nothing has finished.
Opened(e) ==
    DOMAIN row[e] = RowFields /\ row[e].status = "error" /\ row[e].completed = FALSE

\* A replay before its first call.
Blank(e) ==
    /\ eval[e].ran = <<>> /\ eval[e].events = <<>> /\ ~eval[e].stopped /\ ~eval[e].refused
    /\ eval[e].pc \in {"prepared", "opened"} => eval[e].ws = e

ReplayInv(e) ==
    /\ DOMAIN eval[e] = EvalFields /\ eval[e].ws \in {None, e}
    /\ eval[e].pc # "idle" => case # None
    /\ eval[e].pc \in {"begun", "prepared", "opened"} => Blank(e)
    /\ eval[e].pc \in {"opened", "stepping", "reporting"} => Opened(e)
    /\ eval[e].pc = "opened" => row[e].logged = 0
    /\ eval[e].pc = "stepping" =>
          eval[e].before = Seed /\ eval[e].ws = e /\ ~eval[e].refused /\ Replayed(e)
    /\ eval[e].pc = "cleaning" => row[e].completed /\ eval[e].ws = e
    /\ row[e] # None /\ row[e].status = "passed" =>
          /\ eval[e].pc \in {"cleaning", "done", "gone"}
          /\ eval[e].env = "current" => Green(e)
    /\ e \in cleaned => row[e].completed /\ eval[e].pc = "done"

EvalInv ==
    /\ DOMAIN run = RunFields /\ run.contract \in Contracts /\ IsSeq(run.timeline)
    /\ case # None => CaseHolds
    /\ DOMAIN eval = Evals /\ DOMAIN row = Evals
    /\ DOMAIN target = {Interactive} \cup Evals /\ target = [w \in DOMAIN target |-> target[w]]
    /\ \A e \in Evals : ReplayInv(e)

----------------------------------------------------------------------------
\* The verdict on a replay

\* The recorded surface follows the calls.
LEMMA WholeIs ==
    ASSUME EvalInv, NEW e \in Evals, eval[e].pc = "stepping", ~eval[e].stopped
    PROVE  LET whole == eval[e].events \o surface_events(case.surface)
           IN /\ IsFiniteSet(DOMAIN whole)
              /\ \A n \in 1..Len(eval[e].ran) :
                    n \in DOMAIN whole /\ whole[n] = eval[e].events[n]
<1>1. IsSeq(surface_events(case.surface))
  <2>1. CASE case.surface = None
    <3>1. IsSeq(<<>>)
      BY DEF IsSeq
    <3> QED BY <2>1, <3>1 DEF surface_events
  <2>2. CASE case.surface # None
    <3>1. PICK s : s = [n \in DOMAIN case.surface |-> [case.surface[n] EXCEPT !.actor = "eval"]]
      OBVIOUS
    <3>2. IsSeq(case.surface)
      BY <2>2 DEF EvalInv, ReplayInv, CaseHolds
    <3>3. PICK k \in Nat : k = Len(case.surface) /\ DOMAIN case.surface = 1..k
      BY <3>2 DEF IsSeq
    <3>4. IsSeq(s)
      <4>1. DOMAIN s = 1..k /\ s = [n \in 1..k |-> s[n]]
        BY <3>1, <3>3
      <4>2. Len(s) = k
        BY <4>1
      <4> QED BY <4>1, <4>2 DEF IsSeq
    <3>5. PICK x : x = RunEvent("tool_surface_captured", "eval", None, None)
      OBVIOUS
    <3>6. IsSeq(<<x>>)
      BY DEF IsSeq
    <3>7. surface_events(case.surface) = <<x>> \o s
      BY <2>2, <3>1, <3>5 DEF surface_events
    <3> QED BY <3>4, <3>6, <3>7, OnEnd
  <2> QED BY <2>1, <2>2
<1>2. PICK s : s = surface_events(case.surface)
  OBVIOUS
<1>3. PICK t : t = eval[e].events
  OBVIOUS
<1>4. IsSeq(s) /\ IsSeq(t) /\ Len(t) = Len(eval[e].ran)
  BY <1>1, <1>2, <1>3 DEF EvalInv, ReplayInv, Replayed
<1>5. PICK w : w = t \o s
  OBVIOUS
<1>6. /\ IsSeq(w) /\ Len(w) = Len(t) + Len(s)
      /\ \A n \in 1..Len(t) : w[n] = t[n]
  <2>1. /\ IsSeq(t \o s) /\ Len(t \o s) = Len(t) + Len(s)
        /\ \A n \in 1..Len(t) : (t \o s)[n] = t[n]
    BY <1>4, OnEnd
  <2> QED BY <1>5, <2>1
<1>7. Len(s) \in Nat /\ Len(t) \in Nat /\ DOMAIN w = 1..Len(w)
  BY <1>4, <1>6 DEF IsSeq
<1>8. IsFiniteSet(DOMAIN w)
  <2>1. Len(w) \in Nat
    BY <1>6, <1>7
  <2> QED BY <1>7, <2>1, FS_Interval
<1>9. \A n \in 1..Len(t) : n \in DOMAIN w
  BY <1>6, <1>7
<1> QED BY <1>2, <1>3, <1>4, <1>5, <1>6, <1>8, <1>9


\* What is said of the limits is critical.
LEMMA LimitsCritical ==
    ASSUME NEW p, p.type \in {"maximum_mutations", "idempotent_by_request_id"},
           NEW tl, NEW effects, NEW declared, NEW changed
    PROVE  evaluate_policy(p, tl, effects, declared, changed).severity = "critical"
<1>1. CASE p.type = "maximum_mutations"
  <2>1. evaluate_policy(p, tl, effects, declared, changed) = evaluate_maximum_mutations(p, tl)
    BY <1>1 DEF evaluate_policy
  <2>2. \E status, class, causal :
            evaluate_maximum_mutations(p, tl) = PolicyFinding(p, status, class, causal)
    BY DEF evaluate_maximum_mutations, Unavailable
  <2> QED BY <2>1, <2>2, PolicyFindingHas
<1>2. CASE p.type = "idempotent_by_request_id"
  <2>1. evaluate_policy(p, tl, effects, declared, changed) = evaluate_idempotency(p, tl)
    BY <1>2 DEF evaluate_policy
  <2>2. \E status, class, causal :
            evaluate_idempotency(p, tl) = PolicyFinding(p, status, class, causal)
    BY DEF evaluate_idempotency, Unavailable
  <2> QED BY <2>1, <2>2, PolicyFindingHas
<1> QED BY <1>1, <1>2

\* What a pass says of the engine's findings, term by term.
LEMMA PassedTerms ==
    ASSUME case.expected.current = EnvironmentExpectation("passed", {}),
           NEW tl, NEW before, NEW after,
           Judgement(case, "current", tl, before, after).status = "passed"
    PROVE  /\ \A a \in case.contract.assertions :
                 a.severity = "critical" => evaluate_operator(a, before, after)
           /\ \A p \in case.contract.policies :
                 p.type \in {"maximum_mutations", "idempotent_by_request_id"} =>
                 \E declared, changed :
                     evaluate_policy(p, tl, EffectMap, declared, changed).status
                         \notin {"failed", "observation_unavailable"}
<1> DEFINE findings == ReplayFindings(case, tl, before, after)
<1>1. aggregate(findings) = "passed"
  <2>1. PICK unevaluated :
            unevaluated = {f.check : f \in {g \in findings :
                               g.type = "policy" /\ g.status = "not_evaluated"}}
    OBVIOUS
  <2>2. PICK result : result = aggregate(findings)
    OBVIOUS
  <2>3. PICK classes : classes = replayed_classes(findings)
    OBVIOUS
  <2>4. Judgement(case, "current", tl, before, after) =
          EvalReport(IF matched(case.expected.current, result, classes, unevaluated)
                     THEN "passed" ELSE "failed", result, classes)
    BY <2>1, <2>2, <2>3 DEF Judgement
  <2>5. matched(case.expected.current, result, classes, unevaluated)
    BY <2>4 DEF EvalReport
  <2>6. result = "passed"
    BY <2>5 DEF matched, expectation_matches, EnvironmentExpectation
  <2> QED BY <2>2, <2>6
<1>2. ASSUME NEW a \in case.contract.assertions, a.severity = "critical"
      PROVE  evaluate_operator(a, before, after)
  <2>1. PICK f : f = classify_one(evaluate_assertion(a, before, after), tl, EffectMap, before)
    OBVIOUS
  <2>2. f \in findings
    BY <2>1 DEF ReplayFindings, Evaluation
  <2>3. f.severity = "critical"
    BY <1>2, <2>1, AssertionSeverity
  <2>4. f.status \notin {"failed", "observation_unavailable"}
    <3> HIDE DEF findings
    <3> QED BY <1>1, <2>2, <2>3, PassedClean
  <2> QED BY <2>1, <2>4, AssertionTrue
<1>3. ASSUME NEW p \in case.contract.policies,
             p.type \in {"maximum_mutations", "idempotent_by_request_id"}
      PROVE  \E declared, changed :
                evaluate_policy(p, tl, EffectMap, declared, changed).status
                    \notin {"failed", "observation_unavailable"}
  <2>1. PICK declared, changed :
            declared = declared_contract_paths(case.contract) /\ changed = ChangedPaths(before, after)
    OBVIOUS
  <2>2. PICK f : f = evaluate_policy(p, tl, EffectMap, declared, changed)
    OBVIOUS
  <2>3. f \in findings
    BY <2>1, <2>2 DEF ReplayFindings, Evaluation
  <2>4. f.severity = "critical"
    BY <1>3, <2>2, LimitsCritical
  <2>5. f.status \notin {"failed", "observation_unavailable"}
    <3> HIDE DEF findings
    <3> QED BY <1>1, <2>3, <2>4, PassedClean
  <2> QED BY <2>2, <2>5
<1> QED BY <1>2, <1>3

\* Calls that moved the target after an observed one, and were observed themselves,
\* stand among the completions that say so.
LEMMA MoversAmong ==
    ASSUME EvalInv, NEW e \in Evals, eval[e].pc = "stepping", ~eval[e].stopped,
           NEW tl, IsFiniteSet(DOMAIN tl),
           \A n \in 1..Len(eval[e].ran) :
               n \in DOMAIN tl /\ tl[n] = eval[e].events[n],
           NEW T, T \subseteq DOMAIN tl, UnknownOf(tl, T) = {},
           NEW S, S \subseteq Movers(e) \cap T, \A n \in S : SeenBefore(e, n)
    PROVE  /\ Cardinality(S) \in Nat /\ Cardinality(MovedOf(tl, T)) \in Nat
           /\ Cardinality(S) <= Cardinality(MovedOf(tl, T))
<1>1. /\ IsSeq(eval[e].ran)
      /\ \A n \in 1..Len(eval[e].ran) : Tells(e, n)
  BY DEF EvalInv, ReplayInv, Replayed
<1>2. IsFiniteSet(MovedOf(tl, T))
  BY FS_Subset DEF MovedOf
<1>3. ASSUME NEW n \in S
      PROVE  n \in MovedOf(tl, T)
  <2>1. n \in 1..Len(eval[e].ran) /\ eval[e].ran[n].moved /\ n \in T
    BY <1>1 DEF Movers, IsSeq
  <2>2. changed_state(tl[n]) # None
    BY <2>1 DEF UnknownOf
  <2>3. tl[n].before # None /\ tl[n].after # None
    BY <2>2 DEF changed_state
  <2>4. tl[n].before # tl[n].after
    BY <1>1, <2>1, <2>3 DEF Tells
  <2> QED BY <2>1, <2>3, <2>4 DEF MovedOf, Moved, changed_state
<1>4. S \subseteq MovedOf(tl, T)
  BY <1>3
<1> QED BY <1>2, <1>4, FS_Subset, FS_CardinalityType

\* A pass under a limit on all mutations: every call was observed.
LEMMA AllSeen ==
    ASSUME EvalInv, NEW e \in Evals, eval[e].pc = "stepping", ~eval[e].stopped,
           NEW tl,
           \A n \in 1..Len(eval[e].ran) :
               n \in DOMAIN tl /\ tl[n] = eval[e].events[n],
           UnknownOf(tl, Indices(tl, LAMBDA x : x.type = "tool_invocation_completed")) = {}
    PROVE  \A n \in 1..Len(eval[e].ran) :
              /\ SeenBefore(e, n)
              /\ n \in Indices(tl, LAMBDA x : x.type = "tool_invocation_completed")
<1> DEFINE completions == Indices(tl, LAMBDA x : x.type = "tool_invocation_completed")
<1>1. /\ IsSeq(eval[e].ran)
      /\ \A n \in 1..Len(eval[e].ran) : eval[e].events[n].type = "tool_invocation_completed"
  BY DEF EvalInv, ReplayInv, Replayed, Tells
<1>2. ASSUME NEW n \in 1..Len(eval[e].ran)
      PROVE  n \in completions /\ eval[e].events[n].after # None
  <2>1. n \in completions
    BY <1>1 DEF Indices
  <2>2. changed_state(tl[n]) # None
    BY <2>1 DEF UnknownOf
  <2> QED BY <2>1, <2>2 DEF changed_state
<1>3. ASSUME NEW n \in 1..Len(eval[e].ran), n # 1
      PROVE  eval[e].events[n - 1].after # None
  <2>1. n - 1 \in 1..Len(eval[e].ran)
    BY <1>1, <1>3 DEF IsSeq
  <2> QED BY <1>2, <2>1
<1> QED BY <1>2, <1>3 DEF SeenBefore

\* What a replay earned when its row is finished as passed.
LEMMA FinishedGreen ==
    ASSUME EvalInv, NEW e \in Evals, eval[e].pc = "stepping", ~eval[e].stopped,
           ~StepsLeft(e), eval[e].env = "current",
           Judgement(case, "current", eval[e].events \o surface_events(case.surface),
                     Seed, target[e].state).status = "passed"
    PROVE  /\ \A a \in case.contract.assertions :
                 a.severity = "critical" => evaluate_operator(a, Seed, target[e].state)
           /\ \A p \in Policy(case.contract, "maximum_mutations") :
                 Cardinality(Movers(e)) <= p.limit
           /\ \A p \in Policy(case.contract, "idempotent_by_request_id"), rid \in RequestIds :
                 Cardinality(MovesShown(e, p.tool, rid)) <= 1
<1>1. PICK tl : tl = eval[e].events \o surface_events(case.surface)
  OBVIOUS
<1>2. /\ IsFiniteSet(DOMAIN tl)
      /\ \A n \in 1..Len(eval[e].ran) :
            n \in DOMAIN tl /\ tl[n] = eval[e].events[n]
  BY <1>1, WholeIs
<1>3. CaseHolds /\ case.contract \in Contracts
  BY DEF EvalInv, ReplayInv, CaseHolds
<1>4. /\ \A a \in case.contract.assertions :
            a.severity = "critical" => evaluate_operator(a, Seed, target[e].state)
      /\ \A p \in case.contract.policies :
            p.type \in {"maximum_mutations", "idempotent_by_request_id"} =>
            \E declared, changed :
                evaluate_policy(p, tl, EffectMap, declared, changed).status
                    \notin {"failed", "observation_unavailable"}
  <2>1. case.expected.current = EnvironmentExpectation("passed", {})
    BY <1>3 DEF CaseHolds
  <2>2. Judgement(case, "current", tl, Seed, target[e].state).status = "passed"
    BY <1>1
  <2> QED BY <2>1, <2>2, PassedTerms
<1> DEFINE completions == Indices(tl, LAMBDA x : x.type = "tool_invocation_completed")
<1>5. completions \subseteq DOMAIN tl
  BY DEF Indices
<1>6. ASSUME NEW p \in Policy(case.contract, "maximum_mutations")
      PROVE  /\ UnknownOf(tl, completions) = {}
             /\ ~ (Cardinality(MovedOf(tl, completions)) > p.limit)
  <2>1. p \in case.contract.policies /\ p.type = "maximum_mutations"
    BY DEF Policy
  <2>2. PICK declared, changed :
            evaluate_policy(p, tl, EffectMap, declared, changed).status
                \notin {"failed", "observation_unavailable"}
    BY <1>4, <2>1
  <2> QED BY <2>1, <2>2, LimitKept
<1>7. /\ Movers(e) \subseteq 1..Len(eval[e].ran)
      /\ \A n \in 1..Len(eval[e].ran) : Tells(e, n)
  BY DEF Movers, EvalInv, ReplayInv, Replayed, IsSeq
<1>8. ASSUME NEW p \in Policy(case.contract, "maximum_mutations")
      PROVE  Cardinality(Movers(e)) <= p.limit
  <2>1. p.limit \in Nat
    BY <1>3, EvalAssumption DEF Policy
  <2>2. UnknownOf(tl, completions) = {} /\ ~ (Cardinality(MovedOf(tl, completions)) > p.limit)
    BY <1>6
  <2>3. Movers(e) \subseteq Movers(e) \cap completions /\ \A n \in Movers(e) : SeenBefore(e, n)
    BY <1>2, <1>7, <2>2, AllSeen
  <2>4. /\ Cardinality(Movers(e)) \in Nat /\ Cardinality(MovedOf(tl, completions)) \in Nat
        /\ Cardinality(Movers(e)) <= Cardinality(MovedOf(tl, completions))
    <3> HIDE DEF completions
    <3> QED BY <1>2, <1>5, <2>2, <2>3, MoversAmong
  <2> QED BY <2>1, <2>2, <2>4
<1>9. ASSUME NEW p \in Policy(case.contract, "idempotent_by_request_id"), NEW rid \in RequestIds
      PROVE  Cardinality(MovesShown(e, p.tool, rid)) <= 1
  <2> DEFINE S == MovesShown(e, p.tool, rid)
             T == Under(tl, p.tool, rid)
  <2>1. T \subseteq DOMAIN tl
    BY DEF Under, completions_for, Indices
  <2>2. S \subseteq Movers(e)
    BY DEF MovesShown, MovesUnder
  <2>3. ASSUME NEW n \in S PROVE n \in T /\ SeenBefore(e, n)
    <3>1. n \in 1..Len(eval[e].ran) /\ Tells(e, n)
      BY <1>7, <2>2
    <3>2. /\ tl[n].type = "tool_invocation_completed"
          /\ tl[n].tool = p.tool /\ tl[n].rid = rid
      BY <1>2, <3>1 DEF Tells, MovesShown, MovesUnder
    <3>3. n \in T
      BY <1>2, <3>1, <3>2 DEF Under, completions_for, Indices
    <3>4. SeenBefore(e, n)
      <4>1. CASE Policy(case.contract, "maximum_mutations") = {}
        BY <4>1 DEF MovesShown
      <4>2. CASE Policy(case.contract, "maximum_mutations") # {}
        <5>1. UnknownOf(tl, completions) = {}
          BY <1>6, <4>2
        <5> QED BY <1>2, <3>1, <5>1, AllSeen
      <4> QED BY <4>1, <4>2
    <3> QED BY <3>3, <3>4
  <2>4. S \subseteq Movers(e) \cap T
    BY <2>2, <2>3
  <2>5. IsFiniteSet(T)
    BY <1>2, <2>1, FS_Subset
  <2>6. CASE Cardinality(T) > 1
    <3>1. p \in case.contract.policies /\ p.type = "idempotent_by_request_id"
      BY DEF Policy
    <3>2. PICK declared, changed :
              evaluate_policy(p, tl, EffectMap, declared, changed).status
                  \notin {"failed", "observation_unavailable"}
      BY <1>4, <3>1
    <3>3. rid # None
      BY EvalAssumption
    <3>4. UnknownOf(tl, T) = {} /\ ~ (Cardinality(MovedOf(tl, T)) > 1)
      BY <2>6, <3>1, <3>2, <3>3, RequestsKept
    <3>5. /\ Cardinality(S) \in Nat /\ Cardinality(MovedOf(tl, T)) \in Nat
          /\ Cardinality(S) <= Cardinality(MovedOf(tl, T))
      <4> HIDE DEF S, T, completions
      <4> QED BY <1>2, <2>1, <2>3, <2>4, <3>4, MoversAmong
    <3> QED BY <3>4, <3>5
  <2>7. CASE ~ (Cardinality(T) > 1)
    <3>1. /\ Cardinality(S) \in Nat /\ Cardinality(T) \in Nat
          /\ Cardinality(S) <= Cardinality(T)
      <4> HIDE DEF S, T
      <4> QED BY <2>4, <2>5, FS_Subset, FS_CardinalityType
    <3> QED BY <2>7, <3>1
  <2> QED BY <2>6, <2>7
<1> QED BY <1>4, <1>8, <1>9


----------------------------------------------------------------------------
\* The steps

\* What a replay's calls moved is in what it keeps of them.
LEMMA SameMoves ==
    ASSUME NEW e, eval'[e].ran = eval[e].ran, eval'[e].events = eval[e].events, case' = case
    PROVE  /\ Movers(e)' = Movers(e)
           /\ \A n : SeenBefore(e, n)' <=> SeenBefore(e, n)
           /\ \A tool, rid : MovesShown(e, tool, rid)' = MovesShown(e, tool, rid)
<1>1. Movers(e)' = Movers(e)
  BY DEF Movers
<1>2. \A n : SeenBefore(e, n)' <=> SeenBefore(e, n)
  BY DEF SeenBefore
<1>3. \A tool, rid : MovesUnder(e, tool, rid)' = MovesUnder(e, tool, rid)
  BY <1>1 DEF MovesUnder
<1> QED BY <1>1, <1>2, <1>3 DEF MovesShown

\* A step that is not this replay's leaves it as it was.
LEMMA NotItsStep ==
    ASSUME EvalInv, NEW e \in Evals, eval'[e] = eval[e], row'[e] = row[e],
           target'[e] = target[e], case # None => case' = case,
           e \in cleaned' <=> e \in cleaned
    PROVE  ReplayInv(e)'
<1>1. ReplayInv(e)
  BY DEF EvalInv
<1>2. CASE eval[e].pc = "idle"
  BY <1>1, <1>2 DEF ReplayInv
<1>3. CASE eval[e].pc # "idle"
  <2>1. case' = case /\ case # None
    BY <1>1, <1>3 DEF ReplayInv
  <2>2. /\ Movers(e)' = Movers(e)
        /\ \A n : SeenBefore(e, n)' <=> SeenBefore(e, n)
        /\ \A tool, rid : MovesShown(e, tool, rid)' = MovesShown(e, tool, rid)
    BY <2>1, SameMoves
  <2>3. Green(e) => Green(e)'
    BY <2>1, <2>2 DEF Green
  <2>4. Replayed(e) => Replayed(e)'
    BY <2>1, <2>2 DEF Replayed, Tells
  <2>5. (Blank(e) => Blank(e)') /\ (Opened(e) => Opened(e)')
    BY DEF Blank, Opened
  <2>6. /\ DOMAIN eval'[e] = EvalFields /\ eval'[e].ws \in {None, e}
        /\ eval'[e].pc # "idle" => case' # None
        /\ eval'[e].pc \in {"begun", "prepared", "opened"} => Blank(e)'
        /\ eval'[e].pc \in {"opened", "stepping", "reporting"} => Opened(e)'
        /\ eval'[e].pc = "opened" => row'[e].logged = 0
    BY <1>1, <2>1, <2>5 DEF ReplayInv
  <2>7. eval'[e].pc = "stepping" =>
          eval'[e].before = Seed /\ eval'[e].ws = e /\ ~eval'[e].refused /\ Replayed(e)'
    BY <1>1, <2>4 DEF ReplayInv
  <2>8. /\ eval'[e].pc = "cleaning" => row'[e].completed /\ eval'[e].ws = e
        /\ e \in cleaned' => row'[e].completed /\ eval'[e].pc = "done"
    BY <1>1 DEF ReplayInv
  <2>9. row'[e] # None /\ row'[e].status = "passed" =>
          /\ eval'[e].pc \in {"cleaning", "done", "gone"}
          /\ eval'[e].env = "current" => Green(e)'
    BY <1>1, <2>3 DEF ReplayInv
  <2> QED BY <2>6, <2>7, <2>8, <2>9 DEF ReplayInv
<1> QED BY <1>2, <1>3

\* A step of the source run.
LEMMA SourceStep ==
    ASSUME EvalInv, UNCHANGED <<case, row, eval, cleaned>>,
           DOMAIN run' = RunFields, run'.contract = run.contract, IsSeq(run'.timeline),
           DOMAIN target' = DOMAIN target, target' = [w \in DOMAIN target |-> target'[w]],
           \A e \in Evals : target'[e] = target[e]
    PROVE  EvalInv'
<1>1. \A e \in Evals : ReplayInv(e)'
  BY NotItsStep
<1>2. case # None => CaseHolds'
  BY DEF EvalInv, CaseHolds
<1> QED BY <1>1, <1>2 DEF EvalInv

\* A step of one replay.
LEMMA ReplayStep ==
    ASSUME EvalInv, NEW e \in Evals, UNCHANGED <<run, case>>,
           DOMAIN eval' = Evals, DOMAIN row' = Evals, DOMAIN target' = DOMAIN target,
           target' = [w \in DOMAIN target |-> target'[w]],
           \A x \in Evals \ {e} : /\ eval'[x] = eval[x] /\ row'[x] = row[x]
                                  /\ target'[x] = target[x] /\ (x \in cleaned' <=> x \in cleaned),
           ReplayInv(e)'
    PROVE  EvalInv'
<1>1. \A x \in Evals : ReplayInv(x)'
  <2> SUFFICES ASSUME NEW x \in Evals PROVE ReplayInv(x)'
    OBVIOUS
  <2>1. CASE x = e
    BY <2>1
  <2>2. CASE x # e
    BY <2>2, NotItsStep
  <2> QED BY <2>1, <2>2
<1>2. case' # None => CaseHolds'
  BY DEF EvalInv, CaseHolds
<1> QED BY <1>1, <1>2 DEF EvalInv

LEMMA OneEvent ==
    ASSUME NEW x
    PROVE  IsSeq(<<x>>)
BY DEF IsSeq

LEMMA CallKeeps ==
    ASSUME EvalInv, NEW tool, NEW rid, NEW decision, NEW observed \in BOOLEAN,
           Call(tool, rid, decision, observed)
    PROVE  EvalInv'
<1>1. PICK opening, closing, ending, after, decisions, quiet :
         /\ run' = [run EXCEPT !.decisions = decisions, !.quiet = quiet,
                               !.timeline = @ \o opening \o closing \o ending]
         /\ IsSeq(opening) /\ IsSeq(closing) /\ IsSeq(ending)
         /\ target' = [target EXCEPT ![Interactive] = after]
  <2> DEFINE corr == Len(run.decisions) + 1
             refused == decision \in {"denied", "expired"}
             t == target[Interactive]
             id == RequestId(rid, FreshInRun(corr))
             r == Behave(run.scenario, tool, t, id, decision = "approved")
             seen == IF observed THEN r.target.state ELSE None
             asked == IF tool \in confirmed_tools(run.contract)
                      THEN <<RunEvent("confirmation_requested", "agent", tool, corr)>> ELSE <<>>
             opening == <<Started(tool, corr, rid)>> \o asked
             closing == CASE decision = "approved" ->
                               <<RunEvent("confirmation_approved", "human", tool, corr)>>
                          [] decision = "denied" ->
                               <<RunEvent("confirmation_denied", "human", tool, corr)>>
                          [] decision = "expired" ->
                               <<RunEvent("confirmation_expired", "harness", tool, corr)>>
                          [] OTHER -> <<>>
             ending == IF refused
                       THEN <<RunEvent("tool_invocation_cancelled", "agent", tool, corr)>>
                       ELSE <<CompletionEvent("agent", tool, corr, id, r.reported, t.state, seen)>>
             decisions == Append(run.decisions, [tool |-> tool, decision |-> decision])
             quiet == run.quiet /\ observed /\ r.reported # "raised"
  <2>1. IsSeq(<<>>)
    BY DEF IsSeq
  <2>2. IsSeq(asked)
    BY <2>1, OneEvent
  <2>3. IsSeq(opening)
    BY <2>2, OneEvent, OnEnd
  <2>4. IsSeq(closing)
    BY <2>1, OneEvent
  <2>5. IsSeq(ending)
    BY OneEvent
  <2>6. target' = [target EXCEPT ![Interactive] = IF refused THEN t ELSE r.target]
    <3>1. refused => target' = target
      BY DEF Call
    <3>2. ~refused => target' = [target EXCEPT ![Interactive] = r.target]
      BY DEF Call
    <3>3. target = [target EXCEPT ![Interactive] = t]
      <4>1. DOMAIN target = {Interactive} \cup Evals /\ target = [w \in DOMAIN target |-> target[w]]
        BY DEF EvalInv
      <4> QED BY <4>1
    <3> HIDE DEF r, t, refused
    <3> QED BY <3>1, <3>2, <3>3
  <2>7. run' = [run EXCEPT !.decisions = decisions, !.quiet = quiet,
                           !.timeline = @ \o opening \o closing \o ending]
    BY DEF Call
  <2> HIDE DEF opening, closing, ending, decisions, quiet, r, t, refused
  <2> QED BY <2>3, <2>4, <2>5, <2>6, <2>7
<1>2. IsSeq(run.timeline) /\ DOMAIN run = RunFields
  BY DEF EvalInv
<1>3. PICK tl : tl = run.timeline \o opening \o closing \o ending
  OBVIOUS
<1>4. IsSeq(tl)
  <2>1. IsSeq(run.timeline \o opening)
    BY <1>1, <1>2, OnEnd
  <2>2. IsSeq(run.timeline \o opening \o closing)
    BY <1>1, <2>1, OnEnd
  <2> QED BY <1>1, <1>3, <2>2, OnEnd
<1>5. run' = [run EXCEPT !.decisions = decisions, !.quiet = quiet, !.timeline = tl]
  BY <1>1, <1>3
<1>6. DOMAIN run' = RunFields /\ run'.contract = run.contract /\ run'.timeline = tl
  BY <1>2, <1>5 DEF RunFields
<1>7. \A e \in Evals : target'[e] = target[e]
  BY <1>1, WorkspaceAssumption
<1>8. DOMAIN target' = DOMAIN target /\ target' = [w \in DOMAIN target |-> target'[w]]
  BY <1>1
<1>9. UNCHANGED <<case, row, eval, cleaned>>
  BY DEF Call
<1> QED BY <1>4, <1>6, <1>7, <1>8, <1>9, SourceStep

LEMMA CaptureKeeps ==
    ASSUME EvalInv, NEW kind, Capture(kind)
    PROVE  EvalInv'
<1>1. PICK x : run' = [run EXCEPT !.timeline = Append(@, x)]
  BY DEF Capture
<1>2. IsSeq(run.timeline) /\ DOMAIN run = RunFields
  BY DEF EvalInv
<1>3. PICK tl : tl = Append(run.timeline, x)
  OBVIOUS
<1>4. IsSeq(tl)
  BY <1>2, <1>3, OneMore
<1>5. run' = [run EXCEPT !.timeline = tl]
  BY <1>1, <1>3
<1>6. DOMAIN run' = RunFields /\ run'.contract = run.contract /\ run'.timeline = tl
  BY <1>2, <1>5 DEF RunFields
<1>9. DOMAIN target' = DOMAIN target /\ target' = [w \in DOMAIN target |-> target'[w]]
  BY DEF EvalInv, Capture
<1> QED BY <1>9, <1>4, <1>6, SourceStep DEF Capture

LEMMA SealKeeps ==
    ASSUME EvalInv, Seal
    PROVE  EvalInv'
<1>1. PICK result, findings :
         run' = [run EXCEPT !.pc = "sealed", !.result = result, !.findings = findings]
  BY DEF Seal
<1>2. IsSeq(run.timeline) /\ DOMAIN run = RunFields
  BY DEF EvalInv
<1>3. /\ DOMAIN run' = RunFields /\ run'.contract = run.contract
      /\ run'.timeline = run.timeline
  BY <1>1, <1>2 DEF RunFields
<1>9. DOMAIN target' = DOMAIN target /\ target' = [w \in DOMAIN target |-> target'[w]]
  BY DEF EvalInv, Seal
<1> QED BY <1>9, <1>2, <1>3, SourceStep DEF Seal

\* The case that is cut is one.
LEMMA GenerateKeeps ==
    ASSUME EvalInv, Generate
    PROVE  EvalInv'
<1>1. UNCHANGED <<run, target, row, eval, cleaned>> /\ (case # None => case' = case)
  BY DEF Generate, persist
<1>2. \A e \in Evals : ReplayInv(e)'
  BY <1>1, NotItsStep
<1>3. IsSeq(run.timeline) /\ run.contract \in Contracts
  BY DEF EvalInv
<1>4. CASE case # None
  BY <1>1, <1>2, <1>4 DEF EvalInv, CaseHolds
<1>5. CASE case = None
  <2>1. case' = build_case(run)
    BY <1>5 DEF Generate, persist
  <2>2. PICK surface, trajectory, expected :
           /\ surface = recorded_surface(run.timeline)
           /\ trajectory = prune_trajectory(trajectory_of(run.timeline), run.contract)
           /\ expected = EnvironmentExpectation(run.result, critical(run.findings))
    OBVIOUS
  <2>3. /\ case'.contract = run.contract /\ case'.surface = surface
        /\ case'.trajectory = trajectory /\ case'.expected = EvalExpectations(expected)
    BY <2>1, <2>2 DEF build_case
  <2>4. surface # None => IsSeq(surface)
    <3>1. observed_deltas(run.timeline) \subseteq DOMAIN run.timeline
      BY DEF observed_deltas
    <3> QED BY <1>3, <2>2, <3>1, KeptInOrder DEF recorded_surface
  <2>5. IsSeq(trajectory)
    <3>1. PICK starts : starts = InOrder(run.timeline, Indices(run.timeline, LAMBDA e :
                                     is_invocation_start(e) /\ e.actor = "agent"))
      OBVIOUS
    <3>2. IsSeq(starts)
      <4>1. Indices(run.timeline, LAMBDA e : is_invocation_start(e) /\ e.actor = "agent")
              \subseteq DOMAIN run.timeline
        BY DEF Indices
      <4> QED BY <1>3, <3>1, <4>1, KeptInOrder
    <3>3. PICK steps : steps = [n \in DOMAIN starts |-> TrajectoryStep(starts[n].tool, starts[n].rid)]
      OBVIOUS
    <3>4. IsSeq(steps)
      <4>1. DOMAIN steps = 1..Len(starts) /\ Len(starts) \in Nat
        BY <3>2, <3>3 DEF IsSeq
      <4>2. Len(steps) = Len(starts)
        BY <4>1
      <4> QED BY <3>3, <4>1, <4>2 DEF IsSeq
    <3>5. trajectory_of(run.timeline) = steps
      BY <3>1, <3>3 DEF trajectory_of
    <3>6. \E kept : kept \subseteq DOMAIN steps /\ trajectory = InOrder(steps, kept)
      BY <2>2, <3>5 DEF prune_trajectory
    <3> QED BY <3>4, <3>6, KeptInOrder
  <2>6. case'.expected.current = EnvironmentExpectation("passed", {})
    BY <2>3 DEF EvalExpectations
  <2>7. CaseHolds'
    BY <1>3, <2>3, <2>4, <2>5, <2>6 DEF CaseHolds
  <2> QED BY <1>1, <1>2, <2>7 DEF EvalInv
<1> QED BY <1>4, <1>5


\* A replay's own steps before its calls, and after them.
LEMMA BeginKeeps ==
    ASSUME EvalInv, NEW e \in Evals, NEW env, Begin(e, env)
    PROVE  EvalInv'
<1>1. ReplayInv(e) /\ DOMAIN eval = Evals
  BY DEF EvalInv
<1>2. eval'[e] = [NoEval EXCEPT !.pc = "begun", !.env = env] /\ DOMAIN eval' = Evals
  BY <1>1 DEF Begin
<1>3. /\ eval'[e].pc = "begun" /\ eval'[e].ws = None /\ DOMAIN eval'[e] = EvalFields
      /\ eval'[e].ran = <<>> /\ eval'[e].events = <<>>
      /\ ~eval'[e].stopped /\ ~eval'[e].refused
  BY <1>2 DEF NoEval, EvalFields
<1>4. ~(row[e] # None /\ row[e].status = "passed") /\ e \notin cleaned
  BY <1>1 DEF ReplayInv, Begin, Acting
<1>5. ReplayInv(e)'
  BY <1>3, <1>4 DEF ReplayInv, Blank, Begin
<1>6. \A x \in Evals \ {e} : eval'[x] = eval[x]
  BY <1>1 DEF Begin
<1> QED BY <1>2, <1>5, <1>6, ReplayStep DEF Begin, EvalInv

LEMMA OpenRowIs ==
    ASSUME NEW e \in Evals, DOMAIN row = Evals, row' = [row EXCEPT ![e] = OpenRow]
    PROVE  /\ DOMAIN row' = Evals /\ \A x \in Evals \ {e} : row'[x] = row[x]
           /\ Opened(e)' /\ row'[e].logged = 0
           /\ row'[e].status # "passed"
BY DEF OpenRow, Opened, RowFields

LEMMA UnregisteredKeeps ==
    ASSUME EvalInv, NEW e \in Evals, OpenUnregistered(e)
    PROVE  EvalInv'
<1>1. /\ ReplayInv(e) /\ DOMAIN eval = Evals /\ DOMAIN row = Evals /\ eval[e].pc = "begun"
      /\ DOMAIN eval[e] = EvalFields
  BY DEF EvalInv, ReplayInv, OpenUnregistered, Acting
<1>2. eval'[e] = [eval[e] EXCEPT !.pc = "reporting", !.refused = TRUE] /\ DOMAIN eval' = Evals
  BY <1>1 DEF OpenUnregistered
<1>3. /\ eval'[e].pc = "reporting" /\ eval'[e].ws = eval[e].ws /\ DOMAIN eval'[e] = EvalFields
  BY <1>1, <1>2 DEF EvalFields
<1>4. /\ DOMAIN row' = Evals /\ \A x \in Evals \ {e} : row'[x] = row[x]
      /\ Opened(e)' /\ row'[e].status # "passed"
  BY <1>1, OpenRowIs DEF OpenUnregistered
<1>5. e \notin cleaned'
  BY <1>1 DEF ReplayInv, OpenUnregistered
<1>6. ReplayInv(e)'
  BY <1>1, <1>3, <1>4, <1>5 DEF ReplayInv, OpenUnregistered
<1>7. \A x \in Evals \ {e} : eval'[x] = eval[x]
  BY <1>1 DEF OpenUnregistered
<1> QED BY <1>2, <1>4, <1>6, <1>7, ReplayStep DEF OpenUnregistered, EvalInv

LEMMA PrepareKeeps ==
    ASSUME EvalInv, NEW e \in Evals, PrepareWorkspace(e)
    PROVE  EvalInv'
<1>1. /\ ReplayInv(e) /\ DOMAIN eval = Evals /\ eval[e].pc = "begun"
      /\ DOMAIN eval[e] = EvalFields /\ Blank(e)
  BY DEF EvalInv, ReplayInv, PrepareWorkspace, Acting
<1>2. eval'[e] = [eval[e] EXCEPT !.pc = "prepared", !.ws = e] /\ DOMAIN eval' = Evals
  BY <1>1 DEF PrepareWorkspace, execution_workspace
<1>3. /\ eval'[e].pc = "prepared" /\ eval'[e].ws = e /\ DOMAIN eval'[e] = EvalFields
      /\ eval'[e].ran = eval[e].ran /\ eval'[e].events = eval[e].events
      /\ eval'[e].stopped = eval[e].stopped /\ eval'[e].refused = eval[e].refused
  BY <1>1, <1>2 DEF EvalFields
<1>4. ~(row[e] # None /\ row[e].status = "passed") /\ e \notin cleaned
  BY <1>1 DEF ReplayInv
<1>5. ReplayInv(e)'
  BY <1>1, <1>3, <1>4 DEF ReplayInv, Blank, PrepareWorkspace
<1>6. \A x \in Evals \ {e} : eval'[x] = eval[x]
  BY <1>1 DEF PrepareWorkspace
<1> QED BY <1>2, <1>5, <1>6, ReplayStep DEF PrepareWorkspace, EvalInv

LEMMA OpenKeeps ==
    ASSUME EvalInv, NEW e \in Evals, Open(e)
    PROVE  EvalInv'
<1>1. /\ ReplayInv(e) /\ DOMAIN eval = Evals /\ DOMAIN row = Evals /\ eval[e].pc = "prepared"
      /\ DOMAIN eval[e] = EvalFields /\ Blank(e)
  BY DEF EvalInv, ReplayInv, Open, Acting
<1>2. eval'[e] = [eval[e] EXCEPT !.pc = "opened"] /\ DOMAIN eval' = Evals
  BY <1>1 DEF Open
<1>3. /\ eval'[e].pc = "opened" /\ eval'[e].ws = eval[e].ws /\ DOMAIN eval'[e] = EvalFields
      /\ eval'[e].ran = eval[e].ran /\ eval'[e].events = eval[e].events
      /\ eval'[e].stopped = eval[e].stopped /\ eval'[e].refused = eval[e].refused
  BY <1>1, <1>2 DEF EvalFields
<1>4. /\ DOMAIN row' = Evals /\ \A x \in Evals \ {e} : row'[x] = row[x]
      /\ Opened(e)' /\ row'[e].status # "passed" /\ row'[e].logged = 0
  BY <1>1, OpenRowIs DEF Open
<1>5. e \notin cleaned' /\ case' # None
  BY <1>1 DEF ReplayInv, Open
<1>6. Blank(e)'
  BY <1>1, <1>3 DEF Blank
<1>7. ReplayInv(e)'
  BY <1>1, <1>3, <1>4, <1>5, <1>6 DEF ReplayInv
<1>8. \A x \in Evals \ {e} : eval'[x] = eval[x]
  BY <1>1 DEF Open
<1> QED BY <1>2, <1>4, <1>7, <1>8, ReplayStep DEF Open, EvalInv

\* The replay is given up, and its row left to be reported.
LEMMA GivenUp ==
    ASSUME EvalInv, NEW e \in Evals, eval[e].pc \in {"opened", "stepping"},
           UNCHANGED <<run, case, row, cleaned>>,
           eval' = [eval EXCEPT ![e].pc = "reporting", ![e].refused = TRUE],
           DOMAIN target' = DOMAIN target, target' = [w \in DOMAIN target |-> target'[w]],
           \A x \in Evals \ {e} : target'[x] = target[x]
    PROVE  EvalInv'
<1>1. /\ ReplayInv(e) /\ DOMAIN eval = Evals /\ DOMAIN row = Evals
      /\ DOMAIN eval[e] = EvalFields /\ Opened(e)
  BY DEF EvalInv, ReplayInv
<1>2. eval'[e] = [eval[e] EXCEPT !.pc = "reporting", !.refused = TRUE] /\ DOMAIN eval' = Evals
  BY <1>1
<1>3. eval'[e].pc = "reporting" /\ eval'[e].ws = eval[e].ws /\ DOMAIN eval'[e] = EvalFields
  BY <1>1, <1>2 DEF EvalFields
<1>4. Opened(e)' /\ row'[e].status # "passed" /\ e \notin cleaned' /\ case' # None
  BY <1>1 DEF Opened, ReplayInv
<1>5. ReplayInv(e)'
  BY <1>1, <1>3, <1>4 DEF ReplayInv
<1>6. \A x \in Evals \ {e} : eval'[x] = eval[x]
  BY <1>1
<1> QED BY <1>1, <1>2, <1>5, <1>6, ReplayStep


LEMMA RestoreFailsKeeps ==
    ASSUME EvalInv, NEW e \in Evals, RestoreFails(e) \/ StepUnpublished(e)
    PROVE  EvalInv'
<1>1. /\ UNCHANGED <<run, target, case, row, cleaned>> /\ eval[e].pc \in {"opened", "stepping"}
      /\ eval' = [eval EXCEPT ![e].pc = "reporting", ![e].refused = TRUE]
  BY DEF RestoreFails, StepUnpublished, Acting
<1>2. DOMAIN target' = DOMAIN target /\ target' = [w \in DOMAIN target |-> target'[w]]
  BY <1>1 DEF EvalInv
<1> QED BY <1>1, <1>2, GivenUp

LEMMA RestoreUnseenKeeps ==
    ASSUME EvalInv, NEW e \in Evals, RestoreUnseen(e)
    PROVE  EvalInv'
<1>1. /\ ReplayInv(e) /\ DOMAIN eval = Evals /\ DOMAIN row = Evals /\ eval[e].pc = "opened"
      /\ DOMAIN eval[e] = EvalFields /\ Blank(e) /\ Opened(e) /\ eval[e].ws = e
      /\ case # None /\ e \notin cleaned
  BY DEF EvalInv, ReplayInv, RestoreUnseen, Acting, Blank
<1>2. /\ UNCHANGED <<run, case, row, cleaned>>
      /\ target' = [target EXCEPT ![e] = Fresh(Seed)]
  BY <1>1 DEF RestoreUnseen
<1>3. /\ DOMAIN target' = DOMAIN target /\ target' = [w \in DOMAIN target |-> target'[w]]
      /\ \A x \in Evals \ {e} : target'[x] = target[x]
  BY <1>2 DEF EvalInv
<1>4. /\ eval'[e] = [eval[e] EXCEPT !.pc = "gone"] /\ DOMAIN eval' = Evals
      /\ \A x \in Evals \ {e} : eval'[x] = eval[x]
  BY <1>1 DEF RestoreUnseen
<1>5. eval'[e].pc = "gone" /\ eval'[e].ws = e /\ DOMAIN eval'[e] = EvalFields
  BY <1>1, <1>4 DEF EvalFields
<1>6. row'[e].status # "passed" /\ e \notin cleaned' /\ case' # None
  BY <1>1, <1>2 DEF Opened
<1>7. ReplayInv(e)'
  BY <1>5, <1>6 DEF ReplayInv
<1> QED BY <1>1, <1>2, <1>3, <1>4, <1>7, ReplayStep

LEMMA RestoreKeeps ==
    ASSUME EvalInv, NEW e \in Evals, Restore(e)
    PROVE  EvalInv'
<1>1. /\ ReplayInv(e) /\ DOMAIN eval = Evals /\ DOMAIN row = Evals /\ eval[e].pc = "opened"
      /\ DOMAIN eval[e] = EvalFields /\ Blank(e) /\ Opened(e) /\ eval[e].ws = e
      /\ row[e].logged = 0 /\ case # None
  BY DEF EvalInv, ReplayInv, Restore, Acting, Blank
<1>2. /\ UNCHANGED <<run, case, row, cleaned>>
      /\ target' = [target EXCEPT ![e] = Fresh(Seed)]
  BY <1>1 DEF Restore
<1>3. /\ DOMAIN target' = DOMAIN target /\ target' = [w \in DOMAIN target |-> target'[w]]
      /\ target'[e] = Fresh(Seed) /\ \A x \in Evals \ {e} : target'[x] = target[x]
  BY <1>2 DEF EvalInv
<1>4. CASE ~fixture_matches(case, Seed)
  <2>1. eval' = [eval EXCEPT ![e].pc = "reporting", ![e].refused = TRUE]
    BY <1>4 DEF Restore
  <2> QED BY <1>1, <1>2, <1>3, <2>1, GivenUp
<1>5. CASE fixture_matches(case, Seed)
  <2>1. /\ eval'[e] = [eval[e] EXCEPT !.pc = "stepping", !.before = Seed, !.last = Seed]
        /\ DOMAIN eval' = Evals /\ \A x \in Evals \ {e} : eval'[x] = eval[x]
    BY <1>1, <1>5 DEF Restore
  <2>2. /\ eval'[e].pc = "stepping" /\ eval'[e].before = Seed /\ eval'[e].last = Seed
        /\ eval'[e].ws = e /\ DOMAIN eval'[e] = EvalFields
        /\ eval'[e].ran = <<>> /\ eval'[e].events = <<>>
        /\ ~eval'[e].stopped /\ ~eval'[e].refused
    BY <1>1, <2>1 DEF EvalFields, Blank
  <2>3. Opened(e)' /\ row'[e].status # "passed" /\ e \notin cleaned' /\ case' # None
    BY <1>1, <1>2 DEF Opened, ReplayInv
  <2>4. IsSeq(case'.trajectory)
    BY <1>1, <1>2 DEF EvalInv, CaseHolds
  <2>5. IsSeq(<<>>) /\ Len(<<>>) = 0
    BY DEF IsSeq
  <2>6. Replayed(e)'
    <3>1. target'[e].state = Seed
      BY <1>3 DEF Fresh
    <3>2. Len(case'.trajectory) >= 0
      BY <2>4 DEF IsSeq
    <3>3. row'[e].logged = 0
      BY <1>1, <1>2
    <3> QED BY <2>2, <2>5, <3>1, <3>2, <3>3 DEF Replayed
  <2>7. ReplayInv(e)'
    BY <2>2, <2>3, <2>6 DEF ReplayInv
  <2> QED BY <1>1, <1>2, <1>3, <2>1, <2>7, ReplayStep
<1> QED BY <1>4, <1>5

\* A row is finished by one UPDATE.
LEMMA SealedRowIs ==
    ASSUME NEW e \in Evals, DOMAIN row = Evals, Opened(e), NEW report, sealed_row(e, report)
    PROVE  /\ DOMAIN row' = Evals /\ \A x \in Evals \ {e} : row'[x] = row[x]
           /\ row'[e].completed /\ row'[e].status = report.status
           /\ row'[e].logged = row[e].logged
<1>1. PICK r : r = [row[e] EXCEPT !.completed = TRUE, !.status = report.status,
                                  !.result = report.result, !.classes = report.classes]
  OBVIOUS
<1>2. row' = [row EXCEPT ![e] = r]
  BY <1>1 DEF sealed_row
<1>3. r.completed = TRUE /\ r.status = report.status /\ r.logged = row[e].logged
  BY <1>1 DEF Opened, RowFields
<1> QED BY <1>2, <1>3

LEMMA FinishRefusedKeeps ==
    ASSUME EvalInv, NEW e \in Evals, FinishRefused(e)
    PROVE  EvalInv'
<1>1. /\ ReplayInv(e) /\ DOMAIN eval = Evals /\ DOMAIN row = Evals /\ eval[e].pc = "reporting"
      /\ DOMAIN eval[e] = EvalFields /\ Opened(e) /\ case # None /\ e \notin cleaned
      /\ eval[e].ws \in {None, e}
  BY DEF EvalInv, ReplayInv, FinishRefused, Acting
<1>2. /\ DOMAIN row' = Evals /\ \A x \in Evals \ {e} : row'[x] = row[x]
      /\ row'[e].completed /\ row'[e].status = ErrorReport.status
  BY <1>1, SealedRowIs DEF FinishRefused
<1>3. row'[e].status # "passed"
  BY <1>2 DEF ErrorReport, EvalReport
<1>4. PICK pc : /\ pc = IF eval[e].ws = None THEN "done" ELSE "cleaning"
                /\ eval'[e] = [eval[e] EXCEPT !.pc = pc]
                /\ DOMAIN eval' = Evals /\ \A x \in Evals \ {e} : eval'[x] = eval[x]
  BY <1>1 DEF FinishRefused
<1>5. eval'[e].pc = pc /\ eval'[e].ws = eval[e].ws /\ DOMAIN eval'[e] = EvalFields
  BY <1>1, <1>4 DEF EvalFields
<1>6. ReplayInv(e)'
  BY <1>1, <1>2, <1>3, <1>4, <1>5 DEF ReplayInv, FinishRefused
<1> QED BY <1>2, <1>4, <1>6, ReplayStep DEF FinishRefused, EvalInv

LEMMA CleanKeeps ==
    ASSUME EvalInv, NEW e \in Evals, Clean(e)
    PROVE  EvalInv'
<1>1. /\ ReplayInv(e) /\ DOMAIN eval = Evals /\ eval[e].pc = "cleaning"
      /\ DOMAIN eval[e] = EvalFields /\ case # None /\ eval[e].ws = e /\ row[e].completed
  BY DEF EvalInv, ReplayInv, Clean, Acting
<1>2. /\ eval'[e] = [eval[e] EXCEPT !.pc = "done"] /\ DOMAIN eval' = Evals
      /\ \A x \in Evals \ {e} : eval'[x] = eval[x]
  BY <1>1 DEF Clean
<1>3. /\ eval'[e].pc = "done" /\ eval'[e].ws = e /\ DOMAIN eval'[e] = EvalFields
      /\ eval'[e].env = eval[e].env /\ eval'[e].ran = eval[e].ran
      /\ eval'[e].events = eval[e].events
      /\ eval'[e].stopped = eval[e].stopped /\ eval'[e].refused = eval[e].refused
  BY <1>1, <1>2 DEF EvalFields
<1>4. Green(e) => Green(e)'
  <2>1. /\ Movers(e)' = Movers(e)
        /\ \A tool, rid : MovesShown(e, tool, rid)' = MovesShown(e, tool, rid)
    BY <1>3, SameMoves DEF Clean
  <2> QED BY <1>1, <1>3, <2>1 DEF Green, Clean
<1>5. \A x \in Evals \ {e} : x \in cleaned' <=> x \in cleaned
  BY <1>1 DEF Clean
<1>6. ReplayInv(e)'
  BY <1>1, <1>3, <1>4 DEF ReplayInv, Clean
<1> QED BY <1>2, <1>5, <1>6, ReplayStep DEF Clean, EvalInv

LEMMA CrashKeeps ==
    ASSUME EvalInv, NEW e \in Evals, Crash(e)
    PROVE  EvalInv'
<1>1. /\ ReplayInv(e) /\ DOMAIN eval = Evals /\ eval[e].pc \notin {"idle", "done", "gone"}
      /\ DOMAIN eval[e] = EvalFields /\ case # None /\ e \notin cleaned
  BY DEF EvalInv, ReplayInv, Crash
<1>2. /\ eval'[e] = [eval[e] EXCEPT !.pc = "gone"] /\ DOMAIN eval' = Evals
      /\ \A x \in Evals \ {e} : eval'[x] = eval[x]
  BY <1>1 DEF Crash
<1>3. /\ eval'[e].pc = "gone" /\ eval'[e].ws = eval[e].ws /\ DOMAIN eval'[e] = EvalFields
      /\ eval'[e].env = eval[e].env /\ eval'[e].ran = eval[e].ran
      /\ eval'[e].events = eval[e].events
      /\ eval'[e].stopped = eval[e].stopped /\ eval'[e].refused = eval[e].refused
  BY <1>1, <1>2 DEF EvalFields
<1>4. Green(e) => Green(e)'
  <2>1. /\ Movers(e)' = Movers(e)
        /\ \A tool, rid : MovesShown(e, tool, rid)' = MovesShown(e, tool, rid)
    BY <1>3, SameMoves DEF Crash
  <2> QED BY <1>1, <1>3, <2>1 DEF Green, Crash
<1>5. ReplayInv(e)'
  BY <1>1, <1>3, <1>4 DEF ReplayInv, Crash
<1> QED BY <1>2, <1>5, ReplayStep DEF Crash, EvalInv

\* The verdict on a replay: what it counts as green was earned.
LEMMA FinishKeeps ==
    ASSUME EvalInv, NEW e \in Evals, NEW observed \in BOOLEAN,
           Finish(e, observed)
    PROVE  EvalInv'
<1>1. /\ ReplayInv(e) /\ DOMAIN eval = Evals /\ DOMAIN row = Evals /\ eval[e].pc = "stepping"
      /\ DOMAIN eval[e] = EvalFields /\ Opened(e) /\ case # None /\ e \notin cleaned
      /\ eval[e].ws = e /\ eval[e].before = Seed /\ ~eval[e].refused /\ Replayed(e)
  BY DEF EvalInv, ReplayInv, Finish, Acting
<1>2. PICK report :
        /\ report = IF eval[e].stopped \/ ~observed THEN ErrorReport
                    ELSE Judgement(case, eval[e].env,
                                   eval[e].events \o surface_events(case.surface),
                                   eval[e].before, target[eval[e].ws].state)
        /\ sealed_row(e, report)
  BY DEF Finish
<1>3. /\ DOMAIN row' = Evals /\ \A x \in Evals \ {e} : row'[x] = row[x]
      /\ row'[e].completed /\ row'[e].status = report.status /\ row'[e].logged = row[e].logged
  BY <1>1, <1>2, SealedRowIs
<1>4. /\ eval'[e] = [eval[e] EXCEPT !.pc = "cleaning"] /\ DOMAIN eval' = Evals
      /\ \A x \in Evals \ {e} : eval'[x] = eval[x]
  BY <1>1 DEF Finish
<1>5. /\ eval'[e].pc = "cleaning" /\ eval'[e].ws = e /\ DOMAIN eval'[e] = EvalFields
      /\ eval'[e].env = eval[e].env /\ eval'[e].ran = eval[e].ran
      /\ eval'[e].events = eval[e].events
      /\ eval'[e].stopped = eval[e].stopped /\ eval'[e].refused = eval[e].refused
  BY <1>1, <1>4 DEF EvalFields
<1>6. UNCHANGED <<run, target, case, cleaned>>
  BY DEF Finish
<1>7. ASSUME report.status = "passed", eval[e].env = "current"
      PROVE  Green(e)'
  <2>1. ErrorReport.status # "passed"
    BY DEF ErrorReport, EvalReport
  <2>2. ~eval[e].stopped /\ observed
    BY <1>2, <1>7, <2>1
  <2>3. Judgement(case, "current", eval[e].events \o surface_events(case.surface),
                  Seed, target[e].state).status = "passed"
    BY <1>1, <1>2, <1>7, <2>2
  <2>4. ~StepsLeft(e)
    BY <2>2 DEF Finish
  <2>5. /\ \A a \in case.contract.assertions :
              a.severity = "critical" => evaluate_operator(a, Seed, target[e].state)
        /\ \A p \in Policy(case.contract, "maximum_mutations") :
              Cardinality(Movers(e)) <= p.limit
        /\ \A p \in Policy(case.contract, "idempotent_by_request_id"), rid \in RequestIds :
              Cardinality(MovesShown(e, p.tool, rid)) <= 1
    BY <1>1, <1>7, <2>2, <2>3, <2>4, FinishedGreen
  <2>6. IsSeq(case.trajectory) /\ IsSeq(eval[e].ran)
    BY <1>1 DEF EvalInv, CaseHolds, Replayed
  <2>7. PICK m \in Nat : m = Len(eval[e].ran) /\ m = Len(case.trajectory)
    BY <1>1, <2>4, <2>6 DEF StepsLeft, Replayed, IsSeq
  <2>8. DOMAIN eval[e].ran = 1..m /\ DOMAIN case.trajectory = 1..m
    BY <2>6, <2>7 DEF IsSeq
  <2>9. [n \in DOMAIN eval[e].ran |-> eval[e].ran[n].tool] =
          [n \in DOMAIN case.trajectory |-> case.trajectory[n].tool]
    BY <1>1, <2>7, <2>8 DEF Replayed
  <2>10. row'[e].logged = Len(case.trajectory)
    BY <1>1, <1>3, <2>2, <2>7 DEF Replayed
  <2>11. /\ Movers(e)' = Movers(e)
         /\ \A tool, rid : MovesShown(e, tool, rid)' = MovesShown(e, tool, rid)
    BY <1>5, <1>6, SameMoves
  <2> QED BY <1>1, <1>3, <1>5, <1>6, <2>2, <2>5, <2>9, <2>10, <2>11 DEF Green
<1>8. ReplayInv(e)'
  BY <1>1, <1>3, <1>5, <1>6, <1>7 DEF ReplayInv
<1> QED BY <1>3, <1>4, <1>6, <1>8, ReplayStep DEF EvalInv


LEMMA CompletionIs ==
    ASSUME NEW tool, NEW corr, NEW rid, NEW reported, reported # "raised", NEW before, NEW after
    PROVE  LET x == CompletionEvent("eval", tool, corr, rid, reported, before, after)
           IN /\ x.type = "tool_invocation_completed" /\ x.tool = tool /\ x.rid = rid
              /\ x.before = before /\ x.after = after
BY DEF CompletionEvent, RunEvent

\* One call: what the replay tells of it is what was seen.
LEMMA StepKeeps ==
    ASSUME EvalInv, NEW e \in Evals, NEW observed \in BOOLEAN, Step(e, observed)
    PROVE  EvalInv'
<1>1. /\ ReplayInv(e) /\ DOMAIN eval = Evals /\ DOMAIN row = Evals /\ eval[e].pc = "stepping"
      /\ DOMAIN eval[e] = EvalFields /\ Opened(e) /\ case # None /\ e \notin cleaned
      /\ eval[e].ws = e /\ eval[e].before = Seed /\ ~eval[e].refused /\ Replayed(e)
  BY DEF EvalInv, ReplayInv, Step, Acting
<1>2. PICK done : done = Len(eval[e].ran)
  OBVIOUS
<1>3. PICK step : step = case.trajectory[done + 1]
  OBVIOUS
<1>4. PICK id : id = request_id(step, done + 1)
  OBVIOUS
<1>5. PICK r : r = Behave(scenario_for(eval[e].env, case), step.tool, target[e], id,
                          grant_for(case, step.tool))
  OBVIOUS
<1>6. PICK after : after = IF observed THEN r.target.state ELSE None
  OBVIOUS
<1>7. PICK made : made = [tool |-> step.tool, rid |-> id,
                          moved |-> r.target.state # target[e].state,
                          granted |-> grant_for(case, step.tool)]
  OBVIOUS
<1>8. PICK event : event = CompletionEvent("eval", step.tool, done + 1, id, r.reported,
                                           eval[e].last, after)
  OBVIOUS
<1>9. /\ UNCHANGED <<run, case, cleaned>> /\ StepsLeft(e) /\ ~eval[e].stopped
      /\ target' = [target EXCEPT ![e] = r.target]
      /\ IF r.reported = "raised" THEN UNCHANGED row ELSE record_step(e)
      /\ eval' = IF r.reported = "raised"
                 THEN [eval EXCEPT ![e].stopped = TRUE, ![e].ran = Append(@, made)]
                 ELSE [eval EXCEPT ![e].ran = Append(@, made),
                                   ![e].last = IF observed THEN after ELSE @,
                                   ![e].events = Append(@, event)]
  BY <1>1, <1>2, <1>3, <1>4, <1>5, <1>6, <1>7, <1>8 DEF Step
<1>10. /\ DOMAIN target' = DOMAIN target /\ target' = [w \in DOMAIN target |-> target'[w]]
       /\ target'[e] = r.target /\ \A x \in Evals \ {e} : target'[x] = target[x]
  BY <1>9 DEF EvalInv
<1>11. /\ IsSeq(eval[e].ran) /\ IsSeq(eval[e].events) /\ done \in Nat
       /\ Len(eval[e].events) = done /\ row[e].logged = done
       /\ IsSeq(case.trajectory) /\ done < Len(case.trajectory)
  <2>1. IsSeq(case.trajectory)
    BY <1>1 DEF EvalInv, CaseHolds
  <2> QED BY <1>1, <1>2, <1>9, <2>1 DEF Replayed, IsSeq, StepsLeft
<1>12. PICK ran : ran = Append(eval[e].ran, made)
  OBVIOUS
<1>13. /\ IsSeq(ran) /\ Len(ran) = done + 1 /\ ran[done + 1] = made
       /\ \A n \in 1..done : ran[n] = eval[e].ran[n]
  BY <1>2, <1>11, <1>12, OneMore
<1>14. Len(ran) <= Len(case.trajectory)
  BY <1>11, <1>13 DEF IsSeq
<1>15. ASSUME NEW n \in 1..Len(ran)
       PROVE  ran[n].tool = case.trajectory[n].tool
  <2>1. CASE n = done + 1
    BY <1>3, <1>7, <1>13, <2>1
  <2>2. CASE n # done + 1
    <3>1. n \in 1..done
      BY <1>11, <1>13, <2>2
    <3> QED BY <1>1, <1>2, <1>13, <3>1 DEF Replayed
  <2> QED BY <2>1, <2>2
<1>20. /\ DOMAIN eval' = Evals /\ \A x \in Evals \ {e} : eval'[x] = eval[x]
       /\ eval'[e] = IF r.reported = "raised"
            THEN [eval[e] EXCEPT !.stopped = TRUE, !.ran = Append(@, made)]
            ELSE [eval[e] EXCEPT !.ran = Append(@, made), !.last = IF observed THEN after ELSE @,
                                 !.events = Append(@, event)]
  BY <1>1, <1>9
<1>16. CASE r.reported = "raised"
  <2>1. /\ eval'[e] = [eval[e] EXCEPT !.stopped = TRUE, !.ran = ran] /\ row' = row
        /\ DOMAIN eval' = Evals /\ \A x \in Evals \ {e} : eval'[x] = eval[x]
    <3>1. row' = row
      BY <1>9, <1>16
    <3>2. eval'[e] = [eval[e] EXCEPT !.stopped = TRUE, !.ran = Append(@, made)]
      BY <1>16, <1>20
    <3>3. eval'[e] = [eval[e] EXCEPT !.stopped = TRUE, !.ran = ran]
      BY <1>1, <1>12, <3>2 DEF EvalFields
    <3> QED BY <1>20, <3>1, <3>3
  <2>2. /\ eval'[e].pc = "stepping" /\ eval'[e].before = Seed /\ eval'[e].ws = e
        /\ ~eval'[e].refused /\ eval'[e].stopped /\ eval'[e].ran = ran
        /\ eval'[e].events = eval[e].events /\ DOMAIN eval'[e] = EvalFields
    BY <1>1, <2>1 DEF EvalFields
  <2>3. Replayed(e)'
    BY <1>9, <1>11, <1>13, <1>14, <1>15, <2>2 DEF Replayed
  <2>4. Opened(e)' /\ row'[e].status # "passed"
    BY <1>1, <2>1 DEF Opened
  <2>5. ReplayInv(e)'
    BY <1>1, <1>9, <2>2, <2>3, <2>4 DEF ReplayInv
  <2> QED BY <1>1, <1>9, <1>10, <2>1, <2>5, ReplayStep
<1>17. CASE r.reported # "raised"
  <2>1. PICK events : events = Append(eval[e].events, event)
    OBVIOUS
  <2>2. PICK last : last = IF observed THEN after ELSE eval[e].last
    OBVIOUS
  <2>3. /\ eval'[e] = [eval[e] EXCEPT !.ran = ran, !.last = last, !.events = events]
        /\ DOMAIN eval' = Evals /\ \A x \in Evals \ {e} : eval'[x] = eval[x]
    <3>1. eval'[e] = [eval[e] EXCEPT !.ran = Append(@, made),
                      !.last = IF observed THEN after ELSE @, !.events = Append(@, event)]
      BY <1>17, <1>20
    <3>2. eval'[e] = [eval[e] EXCEPT !.ran = ran, !.last = last, !.events = events]
      BY <1>1, <1>12, <2>1, <2>2, <3>1 DEF EvalFields
    <3> QED BY <1>20, <3>2
  <2>4. /\ eval'[e].pc = "stepping" /\ eval'[e].before = Seed /\ eval'[e].ws = e
        /\ ~eval'[e].refused /\ ~eval'[e].stopped /\ eval'[e].ran = ran
        /\ eval'[e].events = events /\ eval'[e].last = last /\ DOMAIN eval'[e] = EvalFields
    BY <1>1, <1>9, <2>3 DEF EvalFields
  <2>5. /\ IsSeq(events) /\ Len(events) = done + 1 /\ events[done + 1] = event
        /\ \A n \in 1..done : events[n] = eval[e].events[n]
    BY <1>11, <2>1, OneMore
  <2>6. /\ DOMAIN row' = Evals /\ \A x \in Evals \ {e} : row'[x] = row[x]
        /\ Opened(e)' /\ row'[e].status # "passed" /\ row'[e].logged = done + 1
    <3>1. row' = [row EXCEPT ![e].logged = @ + 1]
      BY <1>9, <1>17 DEF record_step
    <3>2. row'[e] = [row[e] EXCEPT !.logged = @ + 1]
      BY <1>1, <3>1
    <3>3. /\ DOMAIN row'[e] = RowFields /\ row'[e].status = "error"
          /\ row'[e].completed = FALSE /\ row'[e].logged = done + 1
      BY <1>1, <1>11, <3>2 DEF Opened, RowFields
    <3> QED BY <1>1, <3>1, <3>3 DEF Opened
  <2>7. /\ event.type = "tool_invocation_completed" /\ event.tool = step.tool
        /\ event.rid = id /\ event.before = eval[e].last /\ event.after = after
    BY <1>8, <1>17, CompletionIs
  <2>8. ASSUME NEW n \in 1..(done + 1), SeenBefore(e, n)' PROVE SeenBefore(e, n)
    <3>1. n = 1 \/ n - 1 \in 1..done
      BY <1>11
    <3> QED BY <2>4, <2>5, <2>8, <3>1 DEF SeenBefore
  <2>9. SeenBefore(e, done + 1) => eval[e].last = target[e].state
    BY <1>1, <1>2, <1>9 DEF Replayed
  <2>10. ASSUME NEW n \in 1..Len(ran) PROVE Tells(e, n)'
    <3>1. CASE n = done + 1
      <4>1. /\ eval'[e].events[n].type = "tool_invocation_completed"
            /\ eval'[e].events[n].tool = eval'[e].ran[n].tool
            /\ eval'[e].events[n].rid = eval'[e].ran[n].rid
        BY <1>7, <1>13, <2>4, <2>5, <2>7, <3>1
      <4>2. ASSUME eval'[e].ran[n].moved, SeenBefore(e, n)', eval'[e].events[n].after # None
            PROVE  eval'[e].events[n].before # eval'[e].events[n].after
        <5>1. r.target.state # target[e].state
          <6>1. made.moved <=> r.target.state # target[e].state
            BY <1>7
          <6>2. eval'[e].ran[n] = made
            BY <1>13, <2>4, <3>1
          <6> QED BY <4>2, <6>1, <6>2
        <5>2. eval[e].last = target[e].state
          BY <1>11, <2>8, <2>9, <3>1, <4>2
        <5>3. observed
          BY <1>6, <2>4, <2>5, <2>7, <3>1, <4>2
        <5> QED BY <1>6, <2>4, <2>5, <2>7, <3>1, <5>1, <5>2, <5>3
      <4> QED BY <4>1, <4>2 DEF Tells
    <3>2. CASE n # done + 1
      <4>1. n \in 1..done
        BY <1>11, <1>13, <3>2
      <4>2. Tells(e, n)
        BY <1>1, <1>2, <1>9, <4>1 DEF Replayed
      <4>3. eval'[e].events[n] = eval[e].events[n] /\ eval'[e].ran[n] = eval[e].ran[n]
        BY <1>13, <2>4, <2>5, <4>1
      <4>4. SeenBefore(e, n)' => SeenBefore(e, n)
        BY <1>11, <2>8, <4>1
      <4> QED BY <4>2, <4>3, <4>4 DEF Tells
    <3> QED BY <3>1, <3>2
  <2>11. SeenBefore(e, Len(ran) + 1)' => eval'[e].last = target'[e].state
    <3>1. ASSUME SeenBefore(e, Len(ran) + 1)' PROVE observed
      <4>1. eval'[e].events[done + 1].after # None
        BY <1>11, <1>13, <3>1 DEF SeenBefore
      <4> QED BY <1>6, <2>4, <2>5, <2>7, <4>1
    <3> QED BY <1>6, <1>10, <2>2, <2>4, <3>1
  <2>12. Replayed(e)'
    BY <1>9, <1>13, <1>14, <1>15, <2>4, <2>5, <2>6, <2>10, <2>11 DEF Replayed
  <2>13. ReplayInv(e)'
    BY <1>1, <1>9, <2>4, <2>6, <2>12 DEF ReplayInv
  <2> QED BY <1>9, <1>10, <2>3, <2>6, <2>13, ReplayStep
<1> QED BY <1>16, <1>17

LEMMA EvalStarts ==
    ASSUME EvalInit PROVE EvalInv
<1>1. PICK contract \in Contracts, scenario \in SourceScenarios, initial \in Beginnings :
        /\ run = [pc |-> "armed", contract |-> contract, scenario |-> scenario,
                  initial |-> initial, timeline |-> <<>>, decisions |-> <<>>,
                  quiet |-> TRUE, result |-> None, findings |-> {}]
        /\ target = [w \in {Interactive} \cup Evals |->
                        IF w = Interactive THEN Fresh(initial) ELSE None]
        /\ case = None /\ row = [e \in Evals |-> None] /\ eval = [e \in Evals |-> NoEval]
        /\ cleaned = {}
  BY DEF EvalInit
<1>2. DOMAIN run = RunFields /\ run.contract \in Contracts /\ run.timeline = <<>>
  BY <1>1 DEF RunFields
<1>3. IsSeq(run.timeline)
  BY <1>2 DEF IsSeq
<1>4. ASSUME NEW e \in Evals PROVE ReplayInv(e)
  <2>1. eval[e] = NoEval /\ row[e] = None /\ e \notin cleaned
    BY <1>1
  <2>2. DOMAIN eval[e] = EvalFields /\ eval[e].ws = None /\ eval[e].pc = "idle"
    BY <2>1 DEF NoEval, EvalFields
  <2> QED BY <2>1, <2>2 DEF ReplayInv
<1> QED BY <1>1, <1>2, <1>3, <1>4 DEF EvalInv

LEMMA EvalStep ==
    ASSUME EvalInv, [EvalNext]_evalVars
    PROVE  EvalInv'
<1>1. CASE UNCHANGED evalVars
  <2>1. \A e \in Evals : ReplayInv(e)'
    BY <1>1, NotItsStep DEF evalVars
  <2> QED BY <1>1, <2>1 DEF evalVars, EvalInv, CaseHolds
<1>2. CASE EvalNext
  BY <1>2, CallKeeps, CaptureKeeps, SealKeeps, GenerateKeeps, BeginKeeps, UnregisteredKeeps,
     PrepareKeeps, OpenKeeps, RestoreKeeps, RestoreFailsKeeps, RestoreUnseenKeeps,
     FinishRefusedKeeps, CleanKeeps, CrashKeeps, StepKeeps, FinishKeeps DEF EvalNext
<1> QED BY <1>1, <1>2

\* GreenIsEarned: for any target, any contracts and any number of replays, a green replay
\* made every call of its case in a workspace of its own, and what the engine said is so:
\* of the state it left, of the limit on mutations, and of a request's effects as far as
\* an observed call precedes them.
THEOREM GreenAlwaysEarned == EvalSpec => []GreenIsEarned
<1>1. EvalInv => GreenIsEarned
  <2> SUFFICES ASSUME EvalInv, NEW e \in Evals
               PROVE  /\ eval[e].ws # Interactive /\ (e \in cleaned => row[e].completed)
                      /\ GreenOfCurrent(e) => Green(e)
    BY DEF GreenIsEarned, Green
  <2> QED BY WorkspaceAssumption DEF EvalInv, ReplayInv, GreenOfCurrent
<1>2. EvalInit => EvalInv
  BY EvalStarts
<1>3. EvalInv /\ [EvalNext]_evalVars => EvalInv'
  BY EvalStep
<1> QED BY <1>1, <1>2, <1>3, PTL DEF EvalSpec

====
