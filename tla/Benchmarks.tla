------------------------------- MODULE Benchmarks -------------------------------
(***************************************************************************)
(* Benchmark suites.  An evaluator's report is imported as trials, a human  *)
(* may freeze a set of reworded intents, and every trial is given an        *)
(* outcome: by binding it to a run that was judged in the browser, or by    *)
(* replaying its recorded trajectory.  Finalizing seals the 2x2 matrix of   *)
(* what the evaluator said against what the target did.                     *)
(*                                                                          *)
(* Import, freezing, binding and finalizing hold the workspace's lock.  The *)
(* two replaying requests do not: they run for as long as the target takes, *)
(* one transaction at a time, while everything else goes on.                *)
(***************************************************************************)
EXTENDS Absence, Integers, Sequences, FiniteSets, FiniteSetsExt

CONSTANTS
    Reports,        \* the evaluator reports a user may import, sequences of raw trials
    Canonical,      \* the canonical intent of the suite
    Proposals,      \* sequences of variant texts a user may submit for freezing
    Unprintable,    \* the texts with characters an intent cannot have, or none but blanks
    Flagged,        \* the texts in which the screen finds a secret or a bypass
    MaxTrials,      \* the most trials a report may carry
    MaxVariants,    \* MAX_INTENT_VARIANTS
    MaxBatch,       \* MAX_TRIAL_REPETITIONS, the repetitions one request may ask for
    MaxReps,        \* bound: repetitions of one trial
    MaxEvals,       \* bound: evaluation runs opened
    Runs,           \* browser runs of the workspace
    Requests        \* HTTP requests in flight

ASSUME BenchmarksAssumption ==
    /\ MaxTrials \in Nat /\ MaxVariants \in Nat /\ MaxBatch \in Nat /\ MaxReps \in Nat /\ MaxEvals \in Nat
    /\ None \notin Runs /\ None \notin Requests /\ None \notin Nat

VARIABLES
    suite,      \* the row of benchmark_suites, with its manifest and result artifact
    rows,       \* benchmark_trials: the row of each trial id, None where there is none
    evalruns,   \* evaluation_runs opened for trials; an id is a position
    runs,       \* the browser runs: status and overall_result
    lock,       \* the request that holds the workspace's lock
    req         \* each request's own variables

vars == <<suite, rows, evalruns, runs, lock, req>>

----------------------------------------------------------------------------
\* benchmarks/enums.py

CorrelationMode == {"executed_browser", "imported_trajectory_replay"}

BenchmarkStatus == {"draft", "ready", "running", "completed", "cancelled", "error"}

TERMINAL_BENCHMARK_STATUSES == {"completed", "cancelled", "error"}

CallLevelResult == {"passed", "failed", "error"}

EXCLUDED_CALL_LEVEL_RESULTS == {"error"}

OutcomeTrialResult == {"passed", "passed_with_warnings", "failed", "error", "not_reached"}

OUTCOME_PASS_RESULTS == {"passed", "passed_with_warnings"}

EXCLUDED_OUTCOME_RESULTS == {"error", "not_reached"}

ExclusionReason ==
    {"evaluator_error", "unbound", "missing_trajectory", "outcome_not_reached",
     "outcome_error", "harness_error"}

\* null is none of the enumerations' values
ASSUME EnumAssumption ==
    None \notin BenchmarkStatus \cup CorrelationMode \cup OutcomeTrialResult \cup ExclusionReason

outcome_from_layer_result(result) ==
    IF result \in {None, "blocked_safely", "not_evaluated"} THEN "not_reached" ELSE result

----------------------------------------------------------------------------
\* benchmarks/states.py

PERMITTED_TRANSITIONS ==
    [draft |-> {"ready", "cancelled", "error"},
     ready |-> {"running", "completed", "cancelled", "error"},
     running |-> {"completed", "cancelled", "error"},
     completed |-> {}, cancelled |-> {}, error |-> {}]

require_transition(current, target, mode) ==
    /\ target \in PERMITTED_TRANSITIONS[current]
    /\ ~ (current = "ready" /\ target = "completed" /\ mode = "imported_trajectory_replay")

----------------------------------------------------------------------------
\* google_evals: what becomes of a report

read_report(report) ==
    /\ Len(report) <= MaxTrials
    /\ \A i \in DOMAIN report : report[i].call \in CallLevelResult

\* (test.name, runIndex), where both are there
Proposed(raw) == IF raw.test = None \/ raw.index = None THEN None ELSE <<raw.test, raw.index>>

\* an address counts only when it is unique in the report; the others are positions
_addresses(report, i) ==
    LET p == Proposed(report[i])
        unique == p # None /\ \A j \in DOMAIN report : Proposed(report[j]) = p => j = i
    IN [of |-> IF unique THEN p ELSE <<"#", i>>, addressable |-> unique]

_trial(raw, i, address, mode) ==
    [addressable |-> address.addressable,
     scenario |-> IF raw.test = None THEN <<"unnamed", i>> ELSE <<raw.test>>,
     call |-> raw.call, steps |-> raw.steps,
     outcome |-> "not_reached", eligible |-> FALSE,
     reason |-> IF raw.call = "error" THEN "evaluator_error"
                ELSE IF mode = "imported_trajectory_replay" /\ ~ raw.steps
                     THEN "missing_trajectory" ELSE "outcome_not_reached",
     outcome_run |-> None, evaluation_run |-> None, variant |-> None]

\* a trial is known by its address and, when it repeats one, by its repetition
Imported(of) == [of |-> of, rep |-> 0]

Addresses == UNION {{_addresses(r, i).of : i \in DOMAIN r} : r \in Reports}

Trials == {[of |-> a, rep |-> i] : a \in Addresses, i \in 0..MaxReps}

Scenarios == UNION {{_trial(r[i], i, _addresses(r, i), "executed_browser").scenario :
                        i \in DOMAIN r} : r \in Reports}

normalize(report, mode) ==
    [t \in {Imported(_addresses(report, i).of) : i \in DOMAIN report} |->
        LET i == CHOOSE j \in DOMAIN report : Imported(_addresses(report, j).of) = t
        IN _trial(report[i], i, _addresses(report, i), mode)]

----------------------------------------------------------------------------
\* benchmarks/matrix.py and models.py, over some trials of a table of rows

exclusion_for(call, outcome) ==
    IF call \in EXCLUDED_CALL_LEVEL_RESULTS THEN "evaluator_error"
    ELSE IF outcome \in EXCLUDED_OUTCOME_RESULTS
         THEN IF outcome = "error" THEN "outcome_error" ELSE "outcome_not_reached"
         ELSE None

\* why a trial is left out of the matrix, None when it is in it
classify(row) == IF ~ row.eligible THEN row.reason ELSE exclusion_for(row.call, row.outcome)

tally(table, trials) ==
    LET counted == {t \in trials : classify(table[t]) = None}
        passed == {t \in counted : table[t].call = "passed"}
        good == {t \in counted : table[t].outcome \in OUTCOME_PASS_RESULTS}
        errors == {t \in trials : classify(table[t]) \in
                      {"evaluator_error", "outcome_error", "harness_error"}}
    IN [pass_pass |-> Cardinality(passed \cap good),
        pass_fail |-> Cardinality(passed \ good),
        fail_pass |-> Cardinality(good \ passed),
        fail_fail |-> Cardinality(counted \ (passed \cup good)),
        excluded |-> Cardinality(trials \ counted),
        errors |-> Cardinality(errors)]

eligible_trials(c) == c.pass_pass + c.pass_fail + c.fail_pass + c.fail_fail

total_trials(c) == eligible_trials(c) + c.excluded

call_level_passes(c) == c.pass_pass + c.pass_fail

outcome_passes(c) == c.pass_pass + c.fail_pass

\* four decimal places, a half going to the even neighbour; none over nothing
Rate(n, d) ==
    LET q == (n * 10000) \div d
        r == 2 * ((n * 10000) % d)
    IN [numerator |-> n, denominator |-> d,
        value |-> IF d = 0 THEN None
                  ELSE IF r > d \/ (r = d /\ q % 2 = 1) THEN q + 1 ELSE q]

metrics_for(c) ==
    [call_level_pass_rate |-> Rate(call_level_passes(c), eligible_trials(c)),
     outcome_pass_rate |-> Rate(outcome_passes(c), eligible_trials(c)),
     end_to_end_success_rate |-> Rate(c.pass_pass, eligible_trials(c)),
     silent_outcome_failure_rate |-> Rate(c.pass_fail, call_level_passes(c))]

\* the trials of each label, label being a function on trials
Grouped(label) ==
    [l \in {label[t] : t \in DOMAIN label} |-> {t \in DOMAIN label : label[t] = l}]

break_down(table, label) ==
    LET groups == Grouped(label) IN
    [l \in DOMAIN groups |->
        LET c == tally(table, groups[l]) IN [counts |-> c, metrics |-> metrics_for(c)]]

----------------------------------------------------------------------------
\* benchmark_correlation.py

\* how often each value of a vocabulary was seen, the ones never seen too
_distribution(vocabulary, field) ==
    [v \in vocabulary |-> Cardinality({t \in DOMAIN field : field[t] = v})]

_population(table, trials) ==
    LET c == tally(table, trials)
        agreement == c.pass_pass + c.fail_fail
    IN [trials |-> total_trials(c), counts |-> c,
        evaluator |-> _distribution(CallLevelResult, [t \in trials |-> table[t].call]),
        observed |-> _distribution(OutcomeTrialResult, [t \in trials |-> table[t].outcome]),
        agreement |-> agreement,
        agreement_rate |-> Rate(agreement, eligible_trials(c)),
        overstated |-> c.pass_fail,
        understated |-> c.fail_pass,
        understated_rate |-> Rate(c.fail_pass, c.fail_pass + c.fail_fail)]

\* a trial of a frozen variant is shown under its text, the others by scenario
VariantLabel(row, frozen) ==
    IF row.variant = None THEN row.scenario
    ELSE IF frozen # None /\ row.variant < Len(frozen) THEN <<frozen[row.variant + 1]>>
    ELSE <<"variant", row.variant>>

correlate(table, trials, frozen) ==
    LET groups == Grouped([t \in trials |-> VariantLabel(table[t], frozen)])
    IN [l \in DOMAIN groups |-> _population(table, groups[l])]

----------------------------------------------------------------------------
\* BenchmarkService.trials: every row of the suite
Stored(table) == {t \in Trials : table[t] # None}

Present == Stored(rows)

\* trial_from_row refuses a row that is excluded without a reason or eligible with one
Readable(row) == row.eligible <=> row.reason = None

\* benchmark_metrics.py: what a report carries
summarize(table) ==
    LET trials == Stored(table)
        c == tally(table, trials)
    IN [trials |-> table, counts |-> c, metrics |-> metrics_for(c),
        by_scenario |-> break_down(table, [t \in trials |-> table[t].scenario])]

NoRequest ==
    [pc |-> "idle", found |-> None, report |-> None, todo |-> {}, trial |-> None,
     plan |-> None, run |-> None, reason |-> None]

NoSuite == [status |-> None, mode |-> None, frozen |-> None, report |-> None]

RequestPoint ==
    {"idle", "importing", "finalizing", "refused", "starting", "repeating", "trial",
     "executing", "excluding"}

Row ==
    [addressable : BOOLEAN, scenario : Scenarios,
     call : CallLevelResult, steps : BOOLEAN, outcome : OutcomeTrialResult,
     eligible : BOOLEAN, reason : ExclusionReason \cup {None},
     outcome_run : Runs \cup {None}, evaluation_run : Nat \cup {None},
     variant : Nat \cup {None}]

\* what a request for repetitions keeps of its plan
Plan == [source : Trials, variant : Nat \cup {None}]

\* nor is it a row or a plan; a report is a sequence, and a recorded trajectory in it has
\* steps or it has none
ASSUME RowAssumption ==
    /\ None \notin Row /\ None \notin Plan
    /\ \A report \in Reports :
         /\ Len(report) \in Nat /\ DOMAIN report = 1..Len(report)
         /\ \A i \in DOMAIN report : report[i].steps \in BOOLEAN

EvaluationRun ==
    [trial : Trials, status : {"error", "completed"},
     result : OUTCOME_PASS_RESULTS \cup {"failed", None}]

\* Every row, evaluation run and request has the shape the schema gives it.
TypeOK ==
    /\ suite.status \in BenchmarkStatus \cup {None}
    /\ suite.mode \in CorrelationMode \cup {None}
    /\ \A t \in Trials : rows[t] = None \/ rows[t] \in Row
    /\ evalruns \in Seq(EvaluationRun)
    /\ lock \in Requests \cup {None}
    /\ \A w \in Requests :
          /\ req[w].pc \in RequestPoint
          /\ req[w].trial \in Trials \cup {None}
          /\ req[w].todo \subseteq Trials

Init ==
    /\ suite = NoSuite
    /\ rows = [t \in Trials |-> None]
    /\ evalruns = <<>>
    /\ runs = [r \in Runs |-> [status |-> "armed", overall |-> None]]
    /\ lock = None
    /\ req = [w \in Requests |-> NoRequest]

----------------------------------------------------------------------------
\* The browser runs, judged elsewhere.  An error run has no overall result.
RunEnds(r, result) ==
    /\ runs[r].status = "armed"
    /\ runs' = [runs EXCEPT ![r] =
          IF result = "error" THEN [status |-> "error", overall |-> None]
          ELSE IF result = "cancelled" THEN [status |-> "cancelled", overall |-> None]
          ELSE [status |-> result, overall |-> result]]
    /\ UNCHANGED <<suite, rows, evalruns, lock, req>>

----------------------------------------------------------------------------
\* POST /benchmarks

create(mode) ==
    /\ suite.status = None
    /\ suite' = [NoSuite EXCEPT !.status = "draft", !.mode = mode]
    /\ UNCHANGED <<rows, evalruns, runs, lock, req>>

create_benchmark(mode) == lock = None /\ create(mode)

\* POST .../imports: the suite is read and the report written as a file first,
\* then the rows are inserted.  The lock is held throughout.

_draft == suite.status = "draft"

prepare_import(w, report) ==
    /\ _draft
    /\ req' = [req EXCEPT ![w] = [NoRequest EXCEPT
                  !.pc = "importing", !.found = normalize(report, suite.mode)]]

import_evaluator_report(w, report) ==
    /\ req[w].pc = "idle"
    /\ read_report(report)
    /\ lock = None
    /\ lock' = w
    /\ prepare_import(w, report)
    /\ UNCHANGED <<suite, rows, evalruns, runs>>

\* a trial id the suite already has undoes the whole import
record_import(w) ==
    /\ req[w].pc = "importing"
    /\ LET found == req[w].found
           clash == \E t \in DOMAIN found : rows[t] # None
       IN rows' = IF clash \/ ~ _draft THEN rows
                  ELSE [t \in Trials |-> IF t \in DOMAIN found THEN found[t] ELSE rows[t]]
    /\ lock' = None
    /\ req' = [req EXCEPT ![w] = NoRequest]
    /\ UNCHANGED <<suite, evalruns, runs>>

\* POST .../frozen-variants

IntentVariant(text) == text \notin Unprintable

validate_candidates(texts) ==
    /\ Len(texts) <= MaxVariants
    /\ \A i \in DOMAIN texts : IntentVariant(texts[i]) /\ texts[i] # Canonical
    /\ \A i, j \in DOMAIN texts : texts[i] = texts[j] => i = j

screen_variants(texts) == {i \in DOMAIN texts : texts[i] \in Flagged}

require_screened(texts) == screen_variants(texts) = {}

\* indices count from 0; an approval names each once, in order
VariantApproval(indices) == \A i, j \in DOMAIN indices : i < j => indices[i] < indices[j]

ApprovedVariants(texts, indices) == \A i \in DOMAIN indices : indices[i] < Len(texts)

freeze(texts, indices) == [i \in DOMAIN indices |-> texts[indices[i] + 1]]

freeze_variants(frozen) ==
    /\ _draft
    /\ suite.frozen = None
    /\ suite' = [suite EXCEPT !.frozen = frozen]

freeze_benchmark_variants(texts, indices) ==
    /\ lock = None
    /\ validate_candidates(texts)
    /\ require_screened(texts)
    /\ VariantApproval(indices)
    /\ ApprovedVariants(texts, indices)
    /\ freeze_variants(freeze(texts, indices))
    /\ UNCHANGED <<rows, evalruns, runs, lock, req>>

----------------------------------------------------------------------------
\* PUT .../bindings: a list of bindings, and possibly the seal, in one transaction.
\* A binding names a run; where the suite replays, an evaluation run nobody checks.

_BINDABLE_RUN_STATES == {"passed", "passed_with_warnings", "failed", "error"}
\* slip: a run may be bound to a second trial
bindable_run(r) == runs[r].status \in _BINDABLE_RUN_STATES

_check_outcome_run(r) ==
    /\ runs[r].status \in _BINDABLE_RUN_STATES
    /\ \A t \in Present : rows[t].outcome_run # r

\* benchmark_trials_one_evaluation_run, a unique index
Unclaimed(e, t) == \A u \in Present \ {t} : rows[u].evaluation_run # e

_addressable(row) == row.addressable

Bindable(t, acknowledged) ==
    /\ _addressable(rows[t]) \/ t \in acknowledged
    /\ rows[t].outcome_run = None /\ rows[t].evaluation_run = None

bind(bindings, acknowledged) ==
    /\ \A t \in DOMAIN bindings : Bindable(t, acknowledged)
    /\ \A t, u \in DOMAIN bindings : bindings[t] = bindings[u] => t = u \/ bindings[t] = None
    /\ \A t \in DOMAIN bindings :
          IF suite.mode = "executed_browser" THEN _check_outcome_run(bindings[t])
          ELSE bindings[t] # None => Unclaimed(bindings[t], t)

_save_binding(bindings) ==
    [t \in Trials |->
        IF t \notin DOMAIN bindings THEN rows[t]
        ELSE IF suite.mode = "executed_browser"
             THEN [rows[t] EXCEPT !.outcome_run = bindings[t]]
             ELSE [rows[t] EXCEPT !.evaluation_run = bindings[t]]]

_outcome_of_run(run) ==
    IF run.overall # None THEN outcome_from_layer_result(run.overall)
    ELSE IF run.status = "error" THEN "error" ELSE "not_reached"
\* slip: the run's overall result is copied as it is
overall_as_outcome(row) ==
    LET outcome == runs[row.outcome_run].overall
        reason == exclusion_for(row.call, outcome)
    IN [row EXCEPT !.outcome = outcome, !.eligible = reason = None, !.reason = reason]

_derive_bound_outcomes(row) ==
    LET outcome == _outcome_of_run(runs[row.outcome_run])
        reason == exclusion_for(row.call, outcome)
    IN [row EXCEPT !.outcome = outcome, !.eligible = reason = None, !.reason = reason]

_mark_unbound_excluded(row) ==
    IF row.evaluation_run = None /\ row.reason = "outcome_not_reached"
    THEN [row EXCEPT !.eligible = FALSE, !.reason = "unbound"] ELSE row

seal(bound) ==
    [t \in Trials |->
        IF bound[t] = None THEN None
        ELSE IF bound[t].outcome_run # None THEN _derive_bound_outcomes(bound[t])
        ELSE _mark_unbound_excluded(bound[t])]

save_bindings(bindings, acknowledged, seals) ==
    /\ lock = None
    /\ _draft
    /\ bind(bindings, acknowledged)
    /\ rows' = IF seals THEN seal(_save_binding(bindings)) ELSE _save_binding(bindings)
    /\ suite' = IF seals THEN [suite EXCEPT !.status = "ready"] ELSE suite
    /\ UNCHANGED <<evalruns, runs, lock, req>>

----------------------------------------------------------------------------
\* POST .../replay and .../repeated-trials.  Neither takes the lock.

\* the trials still to do, in some fixed order
First(todo) == CHOOSE t \in todo : TRUE

\* the request after a trial is done: the next one, or an answer
Advance(r) ==
    IF r.todo = {} THEN NoRequest
    ELSE IF r.plan # None THEN [r EXCEPT !.pc = "repeating", !.trial = None, !.run = None]
    ELSE [r EXCEPT !.pc = "trial", !.trial = First(r.todo),
                   !.todo = @ \ {First(r.todo)}, !.run = None]

\* The rows are read in one transaction and the suite started in the next.
replay_benchmark(w) ==
    /\ req[w].pc = "idle"
    /\ suite.mode = "imported_trajectory_replay"
    /\ req' = [req EXCEPT ![w] = [NoRequest EXCEPT !.pc = "starting", !.todo = Present]]
    /\ UNCHANGED <<suite, rows, evalruns, runs, lock>>

start(w) ==
    /\ req[w].pc = "starting"
    /\ IF require_transition(suite.status, "running", None)
       THEN /\ suite' = [suite EXCEPT !.status = "running"]
            /\ req' = [req EXCEPT ![w] = Advance(@)]
       ELSE /\ req' = [req EXCEPT ![w] = NoRequest]
            /\ UNCHANGED suite
    /\ UNCHANGED <<rows, evalruns, runs, lock>>

_has_trajectory(row) == row.steps

_check_variant(variant) ==
    variant # None => suite.frozen # None /\ variant < Len(suite.frozen)

Repetitions(of) == {t.rep : t \in {u \in Present : u.of = of /\ u.rep > 0}}

\* slip: the imported trial is counted as a repetition of itself
rows_so_far(of) == 1 + Cardinality({u \in Present : u.of = of})

\* one more than the highest index so far
_next_repetition_index(of) ==
    IF Repetitions(of) = {} THEN 1
    ELSE 1 + CHOOSE n \in Repetitions(of) : \A m \in Repetitions(of) : m <= n

\* ids of a batch's repetitions
RepetitionPlan(of, first, count) ==
    {[of |-> of, rep |-> i] : i \in first..(first + count - 1)}

plan_repetitions(t, count, variant) ==
    /\ count \in 1..MaxBatch
    /\ _draft
    /\ suite.mode = "imported_trajectory_replay"
    /\ rows[t] # None /\ t.rep = 0 /\ _has_trajectory(rows[t])
    /\ _check_variant(variant)

run_repeated_trials(w, t, count, variant) ==
    LET first == _next_repetition_index(t.of) IN
    /\ req[w].pc = "idle"
    /\ plan_repetitions(t, count, variant)
    /\ first + count - 1 <= MaxReps
    /\ req' = [req EXCEPT ![w] = [NoRequest EXCEPT
                  !.pc = "repeating", !.plan = [source |-> t, variant |-> variant],
                  !.todo = RepetitionPlan(t.of, first, count)]]
    /\ UNCHANGED <<suite, rows, evalruns, runs, lock>>

\* the lowest repetition a batch still has to do
NextRepetition(todo) == CHOOSE t \in todo : \A u \in todo : t.rep <= u.rep

\* one transaction of its own; a suite sealed since, or an index another batch
\* took, ends the request
record_repetition(w) ==
    LET r == req[w]
        t == NextRepetition(r.todo)
        source == rows[r.plan.source]
    IN /\ r.pc = "repeating"
       /\ IF _draft /\ rows[t] = None
          THEN /\ rows' = [rows EXCEPT ![t] =
                     [source EXCEPT !.outcome = "not_reached", !.eligible = FALSE,
                         !.reason = "outcome_not_reached", !.outcome_run = None,
                         !.evaluation_run = None, !.variant = r.plan.variant]]
               /\ req' = [req EXCEPT ![w] = [r EXCEPT
                             !.pc = "trial", !.trial = t, !.todo = @ \ {t}]]
          ELSE /\ req' = [req EXCEPT ![w] = NoRequest]
               /\ UNCHANGED rows
       /\ UNCHANGED <<suite, evalruns, runs, lock>>

stored_trajectory(row) == row.steps

\* replay of one trial: an evaluation run is opened in error, the target is
\* restored and called, and one transaction writes the run and the trial
_open_run(w) ==
    LET r == req[w] IN
    /\ r.pc = "trial"
    /\ stored_trajectory(rows[r.trial])
    /\ Len(evalruns) < MaxEvals
    /\ evalruns' = Append(evalruns, [trial |-> r.trial, status |-> "error", result |-> None])
    /\ req' = [req EXCEPT ![w].pc = "executing", ![w].run = Len(evalruns) + 1]
    /\ UNCHANGED <<suite, rows, runs, lock>>

\* An exclusion is written to the row of a repetition.  A replay only answers it.
_excluded(w, reason) ==
    LET r == req[w] IN
    /\ \/ r.pc = "trial" /\ reason = "harness_error"
       \/ r.pc = "trial" /\ ~ stored_trajectory(rows[r.trial]) /\ reason = "missing_trajectory"
       \/ r.pc = "executing" /\ reason \in {"harness_error", "outcome_not_reached"}
    /\ req' = [req EXCEPT ![w] = IF r.plan # None
                  THEN [r EXCEPT !.pc = "excluding", !.reason = reason] ELSE Advance(r)]
    /\ UNCHANGED <<suite, rows, evalruns, runs, lock>>

_record_exclusion(w) ==
    /\ req[w].pc = "excluding"
    /\ rows' = [rows EXCEPT ![req[w].trial] = [@ EXCEPT
                   !.outcome = "not_reached", !.eligible = FALSE, !.reason = req[w].reason]]
    /\ req' = [req EXCEPT ![w] = Advance([@ EXCEPT !.reason = None])]
    /\ UNCHANGED <<suite, evalruns, runs, lock>>

\* slip: the reason a row was excluded for is left standing
finished_with_reason(row, e, result) ==
    [row EXCEPT !.evaluation_run = e, !.outcome = result, !.eligible = TRUE]

\* the row as _finish_run leaves it, whatever it and the suite said
FinishedRow(row, e, result) ==
    [row EXCEPT !.evaluation_run = e, !.outcome = result, !.eligible = TRUE, !.reason = None]

\* an evaluation run some other trial was bound to meanwhile ends the request
_finish_run(w, result) ==
    LET r == req[w] IN
    /\ r.pc = "executing"
    /\ IF Unclaimed(r.run, r.trial)
       THEN /\ evalruns' = [evalruns EXCEPT ![r.run] =
                              [@ EXCEPT !.status = "completed", !.result = result]]
            /\ rows' = [rows EXCEPT ![r.trial] = FinishedRow(@, r.run, result)]
            /\ req' = [req EXCEPT ![w] = Advance(r)]
       ELSE /\ req' = [req EXCEPT ![w] = NoRequest]
            /\ UNCHANGED <<evalruns, rows>>
    /\ UNCHANGED <<suite, runs, lock>>

\* BenchmarkReplayService.replay, which both requests call for each trial
replay(w) ==
    \/ _open_run(w)
    \/ \E reason \in ExclusionReason : _excluded(w, reason)
    \/ \E result \in {"passed", "passed_with_warnings", "failed"} : _finish_run(w, result)

\* RepeatedTrialService.run
RunRepetitions(w) == record_repetition(w) \/ _record_exclusion(w)

----------------------------------------------------------------------------
\* POST .../finalize

prepare_finalize ==
    /\ require_transition(suite.status, "completed", suite.mode)
    /\ \A t \in Present : Readable(rows[t])

\* Read and counted under the lock.  A refusal gives the lock up and comes back
\* to mark the suite.
finalize_benchmark(w) ==
    /\ req[w].pc = "idle"
    /\ lock = None
    /\ suite.status # None
    /\ IF prepare_finalize
       THEN /\ lock' = w
            /\ req' = [req EXCEPT ![w] = [NoRequest EXCEPT
                          !.pc = "finalizing", !.report = summarize(rows)]]
       ELSE /\ req' = [req EXCEPT ![w] = [NoRequest EXCEPT !.pc = "refused"]]
            /\ UNCHANGED lock
    /\ UNCHANGED <<suite, rows, evalruns, runs>>

seal_finalize(w) ==
    /\ req[w].pc = "finalizing"
    /\ lock' = None
    /\ IF require_transition(suite.status, "completed", suite.mode)
       THEN /\ suite' = [suite EXCEPT !.status = "completed", !.report = req[w].report]
            /\ req' = [req EXCEPT ![w] = NoRequest]
       ELSE /\ req' = [req EXCEPT ![w] = [NoRequest EXCEPT !.pc = "refused"]]
            /\ UNCHANGED suite
    /\ UNCHANGED <<rows, evalruns, runs>>

\* slip: the suite is marked whatever became of it meanwhile
force_error(w) ==
    /\ req[w].pc = "refused"
    /\ lock = None
    /\ suite' = [suite EXCEPT !.status = "error"]
    /\ req' = [req EXCEPT ![w] = NoRequest]
    /\ UNCHANGED <<rows, evalruns, runs, lock>>

mark_error(w) ==
    /\ req[w].pc = "refused"
    /\ lock = None
    /\ suite' = IF require_transition(suite.status, "error", None)
                THEN [suite EXCEPT !.status = "error"] ELSE suite
    /\ req' = [req EXCEPT ![w] = NoRequest]
    /\ UNCHANGED <<rows, evalruns, runs, lock>>

\* A request ends where it stands: no contract is selected, a write fails, the
\* process stops.  Its lock goes with it and its transactions stay.
Dropped(w) ==
    /\ req[w].pc # "idle"
    /\ req' = [req EXCEPT ![w] = NoRequest]
    /\ lock' = IF lock = w THEN None ELSE lock
    /\ UNCHANGED <<suite, rows, evalruns, runs>>

----------------------------------------------------------------------------
\* GET .../benchmarks/{id} and .../correlation, which only read

read_benchmark == summarize(rows)

read_benchmark_correlation == correlate(rows, Present, suite.frozen)

----------------------------------------------------------------------------
\* What a binding may name: a run, or the id of an evaluation run (0 is nobody's)
\* or nothing.
TrialBinding ==
    IF suite.mode = "executed_browser" THEN Runs ELSE {None} \cup 0..Len(evalruns)

Next ==
    \/ \E r \in Runs, result \in {"passed", "passed_with_warnings", "failed", "error",
                                  "cancelled"} : RunEnds(r, result)
    \/ \E mode \in CorrelationMode : create_benchmark(mode)
    \/ \E texts \in Proposals, n \in 0..MaxVariants :
          \E indices \in [1..n -> 0..MaxVariants] : freeze_benchmark_variants(texts, indices)
    \/ \E bound \in SUBSET Present : \E bindings \in [bound -> TrialBinding] :
          \E acknowledged \in {{}, bound}, seals \in BOOLEAN :
              save_bindings(bindings, acknowledged, seals)
    \/ \E w \in Requests :
          \/ \E report \in Reports : import_evaluator_report(w, report)
          \/ record_import(w)
          \/ replay_benchmark(w)
          \/ start(w)
          \/ \E t \in Present, count \in 1..MaxBatch, v \in {None} \cup 0..MaxVariants :
                run_repeated_trials(w, t, count, v)
          \/ RunRepetitions(w)
          \/ replay(w)
          \/ finalize_benchmark(w)
          \/ seal_finalize(w)
          \/ mark_error(w)
          \/ Dropped(w)

Spec == Init /\ [][Next]_vars

----------------------------------------------------------------------------
\* Properties

\* What a trial says of the target was observed: its run's verdict, or the
\* result of a finished evaluation run of that very trial.
Backed(t, row) ==
    IF suite.mode = "executed_browser"
    THEN row.outcome_run # None /\ runs[row.outcome_run].overall = row.outcome
    ELSE /\ row.evaluation_run \in DOMAIN evalruns
         /\ evalruns[row.evaluation_run] =
               [trial |-> t, status |-> "completed", result |-> row.outcome]

\* no two trials stand on the same evidence
CountedOnce(table) ==
    \A t, u \in Stored(table) :
        classify(table[t]) = None /\ classify(table[u]) = None /\ t # u =>
            \/ table[t].outcome_run # table[u].outcome_run
            \/ table[t].evaluation_run # table[u].evaluation_run

EvidenceHolds(table) ==
    /\ \A t \in Stored(table) : classify(table[t]) = None => Backed(t, table[t])
    /\ CountedOnce(table)

\* Every trial that counts, in the suite and in the report that was sealed,
\* rests on evidence of its own.  Trials replayed twice at once, runs bound
\* while another request is half way, evaluation runs claimed by hand and
\* requests that stop between two transactions must not leave a trial with
\* somebody else's outcome or with none (benchmark_service.bind and seal,
\* benchmark_replay._finish_run).
OutcomesBacked ==
    /\ EvidenceHolds(rows)
    /\ suite.report # None => EvidenceHolds(suite.report.trials)

\* The repetitions of a trial are numbered 1, 2, 3 without a gap, carry the
\* source's evaluator verdict and name a variant that is in the frozen set, with
\* several batches planned against the same highest index, cut short or overtaken
\* (plan_repetitions, record_repetition, freeze_variants).
RepetitionsSound ==
    \A t \in Present : t.rep > 0 =>
        /\ \A i \in 1..t.rep : rows[[t EXCEPT !.rep = i]] # None
        /\ rows[Imported(t.of)] # None
        /\ rows[t].call = rows[Imported(t.of)].call
        /\ rows[t].steps
        /\ rows[t].variant # None => rows[t].variant < Len(suite.frozen)

RateSound(rate) ==
    /\ rate.numerator <= rate.denominator
    /\ (rate.value = None) = (rate.denominator = 0)
    /\ rate.value # None => rate.value \in Nat /\ rate.value <= 10000

\* Whenever a suite is read its rows can be read back, each is counted exactly
\* once, in the matrix, in the breakdown by scenario and in the correlation,
\* and every rate is a fraction of the population it names (matrix.tally,
\* benchmark_correlation.correlate, the validators of models.py, which would
\* turn a finalization into an error).
MatrixHolds ==
    LET s == read_benchmark
        populations == read_benchmark_correlation
        size == [l \in DOMAIN populations |-> populations[l].trials]
    IN /\ \A t \in Present : Readable(rows[t])
       /\ total_trials(s.counts) = Cardinality(Present)
       /\ s.counts.errors <= s.counts.excluded
       /\ \A k \in DOMAIN s.metrics : RateSound(s.metrics[k])
       /\ MapThenSumSet(LAMBDA l : size[l], DOMAIN populations) = Cardinality(Present)
       /\ \A l \in DOMAIN populations :
             LET p == populations[l] IN
             /\ p.agreement + p.overstated + p.understated = eligible_trials(p.counts)
             /\ p.observed["failed"] >= p.overstated + p.counts.fail_fail
             /\ p.evaluator["error"] <= p.counts.excluded
             /\ RateSound(p.agreement_rate) /\ RateSound(p.understated_rate)

\* From ready on the trials, their browser runs and the frozen variants stay;
\* a browser suite's rows stay whole; and a suite that ended keeps its status
\* and its report, also against a request that was refused earlier and comes
\* back to mark it (states.require_transition, _draft, mark_error).
SealedStays ==
    [][/\ suite.status \in TERMINAL_BENCHMARK_STATUSES =>
             suite'.status = suite.status /\ suite'.report = suite.report
       /\ suite.status \notin {None, "draft"} =>
             /\ Present' = Present
             /\ \A t \in Present : rows[t].outcome_run = rows'[t].outcome_run
             /\ suite'.frozen = suite.frozen
             /\ suite.mode = "executed_browser" => rows' = rows]_vars
=============================================================================
