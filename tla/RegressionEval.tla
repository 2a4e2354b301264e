----------------------------- MODULE RegressionEval -----------------------------
(***************************************************************************)
(* Regression evals.  A judged run is cut into a case: its contract, the    *)
(* part of its first snapshot the contract needs, the calls its agent       *)
(* started and the decisions a human recorded.  A replay restores the case  *)
(* in a workspace of its own, calls the tools again and compares what the   *)
(* engine makes of it with what the case expects.                           *)
(*                                                                          *)
(* The target is deterministic: Behave gives what a tool does under a       *)
(* scenario.  Everything around it is not.  Observations fail, replays      *)
(* crash between two transactions, and nothing holds a lock while a replay  *)
(* runs, so several are in flight at once.                                  *)
(***************************************************************************)
EXTENDS Engine

CONSTANTS
    Contracts,              \* the contract the source run is armed with, one of these
    Tools,                  \* what the adapter publishes
    ReadOnly,               \* the tools it declares read only
    EffectMap,              \* the paths each tool declares it may touch
    SourceScenarios,        \* the scenarios a source run may be recorded under
    PostFix,                \* the corrected implementation, without an injected fault
    Seed,                   \* the state adapter.prepare puts the target in
    Beginnings,             \* states a source run may be armed in
    RequestIds,             \* request ids an agent may send, numbers
    Kinds,                  \* kinds a surface delta may be of
    Behave(_, _, _, _, _),  \* scenario, tool, target, request id, consent
    MaxCalls,               \* bound: invocations of the source run
    MaxSurface,             \* bound: surface events of the source run
    Evals                   \* replays

\* ids are numbers: an agent's are below the ones made up for it
FreshInRun(n) == 100 + n
FreshInReplay(n) == 200 + n

ASSUME EvalAssumption ==
    /\ PostFix \in SourceScenarios
    /\ ReadOnly \subseteq Tools
    /\ MaxCalls \in Nat /\ MaxSurface \in Nat
    /\ Seed \in Beginnings
    /\ RequestIds \subseteq 1..99 /\ None \notin RequestIds
    /\ \A k \in Contracts :
          /\ WellFormed(k) /\ ValidForTarget(k, Tools, {})
          /\ \A p \in k.policies : p.type = "maximum_mutations" => p.limit \in Nat

\* the workspace of the source run
Interactive == "interactive"

ASSUME WorkspaceAssumption == None \notin Evals /\ Interactive \notin Evals \cup {None}

VARIABLES
    run,        \* the source run: where it is, its evidence and its verdict
    target,     \* the target of each workspace, None where there is none
    case,       \* the row of evaluation_cases, None before it is cut
    row,        \* the row of evaluation_runs of each replay, None before _open
    eval,       \* each replay's own variables
    cleaned     \* eval workspaces whose cleaned_at is set

evalVars == <<run, target, case, row, eval, cleaned>>

----------------------------------------------------------------------------
\* evals/enums.py

EvalEnvironment == {"current", "reproduce_source"}

EvalStatus == {"passed", "failed", "error"}

ConfirmationStrategy == {"recorded_approval", "recorded_denial", "no_confirmation"}

EvalPoint ==
    {"idle", "begun", "prepared", "opened", "stepping", "reporting", "cleaning", "done", "gone"}

\* ran is history: the calls really made, and whether each moved the target
NoEval ==
    [pc |-> "idle", env |-> None, ws |-> None, before |-> None, last |-> None,
     events |-> <<>>, ran |-> <<>>, stopped |-> FALSE, refused |-> FALSE]

Fresh(state) == [state |-> state, seen |-> {}]

EvalTypeOK ==
    /\ run.pc \in {"armed", "sealed"}
    /\ \A i \in DOMAIN run.timeline : run.timeline[i].actor \in EventActor
    /\ DOMAIN target = {Interactive} \cup Evals
    /\ case # None => case.strategy \in ConfirmationStrategy
    /\ cleaned \subseteq Evals
    /\ \A e \in Evals :
          /\ eval[e].pc \in EvalPoint
          /\ eval[e].env \in EvalEnvironment \cup {None}
          /\ row[e] # None => row[e].status \in EvalStatus
          /\ (row[e] # None /\ row[e].result # None) =>
                row[e].result \in {"passed", "passed_with_warnings", "failed"}

EvalInit ==
    \E contract \in Contracts, scenario \in SourceScenarios, initial \in Beginnings :
        /\ \A p \in contract.preconditions : evaluate_precondition(p, initial) = "passed"
        /\ run = [pc |-> "armed", contract |-> contract, scenario |-> scenario,
                  initial |-> initial, timeline |-> <<>>, decisions |-> <<>>,
                  quiet |-> TRUE, result |-> None, findings |-> {}]
        /\ target = [w \in {Interactive} \cup Evals |->
                        IF w = Interactive THEN Fresh(initial) ELSE None]
        /\ case = None
        /\ row = [e \in Evals |-> None]
        /\ eval = [e \in Evals |-> NoEval]
        /\ cleaned = {}

----------------------------------------------------------------------------
\* The source run, by what its timeline keeps of it

CompletionEvent(actor, tool, corr, rid, reported, before, after) ==
    [RunEvent(IF reported = "raised" THEN "tool_invocation_failed"
              ELSE "tool_invocation_completed", actor, tool, corr)
        EXCEPT !.rid = rid, !.reported = IF reported = "raised" THEN None ELSE reported,
               !.before = before, !.after = after,
               !.effect = effect_context(EffectMap[tool], after)]

Started(tool, corr, rid) ==
    [RunEvent("tool_invocation_started", "agent", tool, corr) EXCEPT !.rid = rid]

\* the id an execution runs under: the agent's, or one made up for the call
RequestId(rid, fresh) == IF rid = None THEN fresh ELSE rid

\* One invocation, seen whole: its start, the decision a protected tool waits
\* for, the execution, the observation after it (which may fail) and its end.
Call(tool, rid, decision, observed) ==
    LET corr == Len(run.decisions) + 1
        protected == tool \in confirmed_tools(run.contract)
        refused == decision \in {"denied", "expired"}
        t == target[Interactive]
        id == RequestId(rid, FreshInRun(corr))
        r == Behave(run.scenario, tool, t, id, decision = "approved")
        after == IF observed THEN r.target.state ELSE None
        opening == <<Started(tool, corr, rid)>> \o
            (IF protected THEN <<RunEvent("confirmation_requested", "agent", tool, corr)>>
             ELSE <<>>)
        closing == CASE decision = "approved" ->
                          <<RunEvent("confirmation_approved", "human", tool, corr)>>
                     [] decision = "denied" ->
                          <<RunEvent("confirmation_denied", "human", tool, corr)>>
                     [] decision = "expired" ->
                          <<RunEvent("confirmation_expired", "harness", tool, corr)>>
                     [] OTHER -> <<>>
    IN /\ run.pc = "armed" /\ Len(run.decisions) < MaxCalls
       /\ protected <=> decision # None
       /\ refused => observed
       /\ run' = [run EXCEPT
             !.decisions = Append(@, [tool |-> tool, decision |-> decision]),
             !.quiet = @ /\ observed /\ r.reported # "raised",
             !.timeline = @ \o opening \o closing \o
                IF refused THEN <<RunEvent("tool_invocation_cancelled", "agent", tool, corr)>>
                ELSE <<CompletionEvent("agent", tool, corr, id, r.reported, t.state, after)>>]
       /\ target' = IF refused THEN target ELSE [target EXCEPT ![Interactive] = r.target]
       /\ UNCHANGED <<case, row, eval, cleaned>>

SurfaceEvents == {i \in DOMAIN run.timeline : run.timeline[i].type \in
                     {"tool_surface_captured", "tool_surface_changed"}}

\* a capture of the page's tools, the first of them the baseline; the service asks
\* for no status, so the verdict may be there already
Capture(kind) ==
    /\ Cardinality(SurfaceEvents) < MaxSurface
    /\ run' = [run EXCEPT !.timeline = Append(@,
          IF SurfaceEvents = {} THEN RunEvent("tool_surface_captured", "harness", None, None)
          ELSE [RunEvent("tool_surface_changed", "harness", None, None) EXCEPT !.kind = kind])]
    /\ UNCHANGED <<target, case, row, eval, cleaned>>

\* the verdict, whose steps are Verdict's Gate, Observe and Seal
Seal ==
    LET findings == AllFindings(Evaluation(run.contract, EffectMap, run.timeline,
                                           run.initial, target[Interactive].state))
    IN /\ run.pc = "armed"
       /\ \E i \in DOMAIN run.timeline : run.timeline[i].type \in TerminalEvents
       /\ run' = [run EXCEPT !.pc = "sealed", !.result = with_recorded_warnings(findings),
                             !.findings = findings]
       /\ UNCHANGED <<target, case, row, eval, cleaned>>

----------------------------------------------------------------------------
\* evals/minimize.py

requires_complete_state(contract) ==
    \E p \in contract.policies : p.type = "no_undeclared_changes"

\* the key of the target's state a path lies under
referenced_roots(contract) ==
    {p[2] : p \in {q \in declared_contract_paths(contract) : q[1] = "target" /\ Len(q) > 1}}

RootsOf(state) == {l[2] : l \in DOMAIN state}

minimize_fixture(state, contract) ==
    LET kept == RootsOf(state) \cap referenced_roots(contract) IN
    IF requires_complete_state(contract) \/ kept = {} THEN state
    ELSE [l \in {m \in DOMAIN state : m[2] \in kept} |-> state[l]]

policed(contract) ==
    {p.tool : p \in {q \in contract.policies : q.type \in
        {"requires_confirmation", "idempotent_by_request_id", "forbidden_tool"}}}

expected_calls(contract) ==
    IF contract.expected = None THEN {} ELSE {contract.expected.calls[n] : n \in DOMAIN contract.expected.calls}

\* the elements of a sequence at some of its indices, in order
InOrder(s, indices) == [n \in 1..Cardinality(indices) |-> s[Nth(indices, n - 1)]]

\* a read nothing names, after the last call that could have changed anything
prune_trajectory(steps, contract) ==
    LET mutations == {n \in DOMAIN steps : steps[n].tool \notin ReadOnly}
        last == IF mutations = {} THEN 0 ELSE Max(mutations)
        droppable(n) == /\ steps[n].tool \in ReadOnly
                        /\ steps[n].tool \notin expected_calls(contract) \cup policed(contract)
                        /\ n > last
    IN InOrder(steps, {n \in DOMAIN steps : ~droppable(n)})

----------------------------------------------------------------------------
\* eval_case_service.py

\* evals/models.py
TrajectoryStep(tool, rid) == [tool |-> tool, rid |-> rid]

RecordedDecision(tool, approved) == [tool |-> tool, approved |-> approved]

EnvironmentExpectation(result, classes) == [result |-> result, classes |-> classes]

\* the corrected target passes, the source's scenario gives what the source gave
EvalExpectations(source) ==
    [current |-> EnvironmentExpectation("passed", {}), reproduce_source |-> source]

\* _trajectory: the agent's starts, in order, with the arguments it sent
trajectory_of(tl) ==
    LET starts == InOrder(tl, Indices(tl, LAMBDA e :
                                  is_invocation_start(e) /\ e.actor = "agent"))
    IN [n \in DOMAIN starts |-> TrajectoryStep(starts[n].tool, starts[n].rid)]

\* _recorded_decisions, in order
recorded_decisions(tl) ==
    LET decided == InOrder(tl, Indices(tl, LAMBDA e : e.type \in
                        {"confirmation_approved", "confirmation_denied"}))
    IN [n \in DOMAIN decided |->
           RecordedDecision(decided[n].tool, decided[n].type = "confirmation_approved")]

\* _strategy_for
strategy_for(decisions) ==
    IF \E n \in DOMAIN decisions : decisions[n].approved THEN "recorded_approval"
    ELSE IF decisions # <<>> THEN "recorded_denial" ELSE "no_confirmation"

\* _recorded_surface: None when no baseline was captured
recorded_surface(tl) ==
    IF ~baseline_recorded(tl) THEN None
    ELSE InOrder(tl, observed_deltas(tl))

\* _critical, of the stored findings
critical(findings) ==
    {f.class : f \in {g \in findings :
        g.status = "failed" /\ g.severity = "critical" /\ g.class # None}}

\* build_case
build_case(r) ==
    LET decisions == recorded_decisions(r.timeline) IN
    [contract |-> r.contract,
     scenario |-> r.scenario,
     fixture |-> minimize_fixture(r.initial, r.contract),
     trajectory |-> prune_trajectory(trajectory_of(r.timeline), r.contract),
     strategy |-> strategy_for(decisions),
     decisions |-> decisions,
     surface |-> recorded_surface(r.timeline),
     expected |-> EvalExpectations(EnvironmentExpectation(r.result, critical(r.findings)))]

ELIGIBLE_SOURCE_RESULTS == {"failed", "passed_with_warnings"}

\* _eligible_run: a verdict, and one worth reproducing
eligible_run(r) == r.pc = "sealed" /\ r.result \in ELIGIBLE_SOURCE_RESULTS

\* _persist: a second cut of the same run returns the first
persist(built) == case' = IF case = None THEN built ELSE case

\* create_regression_eval, under the workspace's lock and in one transaction
Generate ==
    /\ eligible_run(run)
    /\ persist(build_case(run))
    /\ UNCHANGED <<run, target, row, eval, cleaned>>

----------------------------------------------------------------------------
\* evals/interaction.py, evals/models.py

\* grant_for: the first recorded decision on the tool
grant_for(c, tool) ==
    LET onTool == {n \in DOMAIN c.decisions : c.decisions[n].tool = tool} IN
    c.strategy = "recorded_approval" /\ onTool # {} /\ c.decisions[Min(onTool)].approved

POLICY_CRITICAL_CLASSIFICATIONS ==
    [requires_confirmation |-> "missing_confirmation",
     idempotent_by_request_id |-> "idempotency_violation",
     maximum_mutations |-> "idempotency_violation",
     forbidden_tool |-> "unexpected_tool",
     no_undeclared_changes |-> "undeclared_state_change",
     stable_tool_surface |-> "tool_surface_mutation"]

expectation_matches(expectation, result, classes) ==
    result = expectation.result /\ classes = expectation.classes

\* compare_replay_to_expectation: what was not evaluated is left out of both sides
matched(expectation, result, classes, unevaluated) ==
    LET excluded == {POLICY_CRITICAL_CLASSIFICATIONS[p] : p \in unevaluated} IN
    expectation_matches(EnvironmentExpectation(expectation.result, expectation.classes \ excluded),
                        result, classes \ excluded)

----------------------------------------------------------------------------
\* eval_runner.py

\* environments.py: scenario_for
scenario_for(env, c) == IF env = "current" THEN PostFix ELSE c.scenario

\* _require_matching_fixture: the restored state agrees at every key the case kept
fixture_matches(c, state) ==
    \A key \in RootsOf(c.fixture) :
        LET path == <<"target", key>> IN resolve(path, state) = resolve(path, c.fixture)

\* slip: a fresh id for every replayed step
fresh_request_id(step, n) == FreshInReplay(n)

\* _request_id
request_id(step, n) == RequestId(step.rid, FreshInReplay(n))

\* surface_events: the recorded baseline and deltas, under the eval actor.  They
\* follow the steps; the baseline is numbered before them, and only looked for.
surface_events(surface) ==
    IF surface = None THEN <<>>
    ELSE <<RunEvent("tool_surface_captured", "eval", None, None)>> \o
         [n \in DOMAIN surface |-> [surface[n] EXCEPT !.actor = "eval"]]

----------------------------------------------------------------------------
\* eval_run_service.py

\* _evaluate: the engine's assertions and policies over the replayed evidence
ReplayFindings(c, events, before, after) ==
    LET ev == Evaluation(c.contract, EffectMap, events, before, after)
    IN ev.assertions \cup ev.policies

replayed_classes(findings) ==
    {f.class : f \in {g \in findings : g.status = "failed" /\ g.class # None}}

EvalReport(status, result, classes) ==
    [status |-> status, result |-> result, classes |-> classes]

ErrorReport == EvalReport("error", None, {})

\* _judge of a replay that ran to its end and was observed
Judgement(c, env, events, before, after) ==
    LET findings == ReplayFindings(c, events, before, after)
        unevaluated == {f.check : f \in {g \in findings :
                            g.type = "policy" /\ g.status = "not_evaluated"}}
        result == aggregate(findings)
        classes == replayed_classes(findings)
    IN EvalReport(IF matched(c.expected[env], result, classes, unevaluated)
                  THEN "passed" ELSE "failed", result, classes)

Acting(e, pc) == eval[e].pc = pc

\* run_regression_eval reads the case; run() resolves its adapter
Begin(e, env) ==
    /\ Acting(e, "idle") /\ case # None
    /\ eval' = [eval EXCEPT ![e] = [NoEval EXCEPT !.pc = "begun", !.env = env]]
    /\ UNCHANGED <<run, target, case, row, cleaned>>

\* slips: a status the column has no word for, and a row that is green until judged
running_row ==
    [status |-> "running", result |-> None, classes |-> {}, completed |-> FALSE,
     logged |-> 0]

optimistic_row ==
    [status |-> "passed", result |-> None, classes |-> {}, completed |-> FALSE,
     logged |-> 0]

OpenRow ==
    [status |-> "error", result |-> None, classes |-> {}, completed |-> FALSE,
     logged |-> 0]

\* no adapter answers to the case's name: the row, and an error report to come
OpenUnregistered(e) ==
    /\ Acting(e, "begun")
    /\ row' = [row EXCEPT ![e] = OpenRow]
    /\ eval' = [eval EXCEPT ![e].pc = "reporting", ![e].refused = TRUE]
    /\ UNCHANGED <<run, target, case, cleaned>>

\* prepare_eval_workspace: a workspace of kind eval, owned by the one that asked
execution_workspace(e) == e

PrepareWorkspace(e) ==
    /\ Acting(e, "begun")
    /\ eval' = [eval EXCEPT ![e].pc = "prepared", ![e].ws = execution_workspace(e)]
    /\ UNCHANGED <<run, target, case, row, cleaned>>

\* _open: the row is born an error, and stays one if nothing finishes it
Open(e) ==
    /\ Acting(e, "prepared")
    /\ row' = [row EXCEPT ![e] = OpenRow]
    /\ eval' = [eval EXCEPT ![e].pc = "opened"]
    /\ UNCHANGED <<run, target, case, cleaned>>

\* restore: adapter.prepare, an observation, and the fixture it must show
Restore(e) ==
    /\ Acting(e, "opened")
    /\ target' = [target EXCEPT ![eval[e].ws] = Fresh(Seed)]
    /\ eval' = [eval EXCEPT ![e] =
          IF fixture_matches(case, Seed)
          THEN [@ EXCEPT !.pc = "stepping", !.before = Seed, !.last = Seed]
          ELSE [@ EXCEPT !.pc = "reporting", !.refused = TRUE]]
    /\ UNCHANGED <<run, case, row, cleaned>>

\* adapter.prepare raises, which restore turns into a refusal
RestoreFails(e) ==
    /\ Acting(e, "opened")
    /\ eval' = [eval EXCEPT ![e].pc = "reporting", ![e].refused = TRUE]
    /\ UNCHANGED <<run, target, case, row, cleaned>>

\* the observation after it raises, which nothing catches: the request ends there
RestoreUnseen(e) ==
    /\ Acting(e, "opened")
    /\ target' = [target EXCEPT ![eval[e].ws] = Fresh(Seed)]
    /\ eval' = [eval EXCEPT ![e].pc = "gone"]
    /\ UNCHANGED <<run, case, row, cleaned>>

StepsLeft(e) == Len(eval[e].ran) < Len(case.trajectory)

\* _record: the step's row of evaluation_events, in a transaction of its own
record_step(e) == row' = [row EXCEPT ![e].logged = @ + 1]

\* one step of replay_steps: the call, the observation that may fail, the event
Step(e, observed) ==
    LET n == Len(eval[e].ran) + 1
        step == case.trajectory[n]
        t == target[eval[e].ws]
        id == request_id(step, n)
        r == Behave(scenario_for(eval[e].env, case), step.tool, t, id,
                    grant_for(case, step.tool))
        after == IF observed THEN r.target.state ELSE None
        call == [tool |-> step.tool, rid |-> id, moved |-> r.target.state # t.state,
                 granted |-> grant_for(case, step.tool)]
    IN /\ Acting(e, "stepping") /\ StepsLeft(e) /\ ~eval[e].stopped
       /\ target' = [target EXCEPT ![eval[e].ws] = r.target]
       /\ IF r.reported = "raised" THEN UNCHANGED row ELSE record_step(e)
       /\ eval' = IF r.reported = "raised"
                  THEN [eval EXCEPT ![e].stopped = TRUE, ![e].ran = Append(@, call)]
                  ELSE [eval EXCEPT ![e].ran = Append(@, call),
                                    ![e].last = IF observed THEN after ELSE @,
                                    ![e].events = Append(@, CompletionEvent("eval", step.tool,
                                        n, id, r.reported, eval[e].last, after))]
       /\ UNCHANGED <<run, case, cleaned>>

\* the adapter has stopped publishing the step's tool, which refuses the whole replay
StepUnpublished(e) ==
    /\ Acting(e, "stepping") /\ StepsLeft(e) /\ ~eval[e].stopped
    /\ eval' = [eval EXCEPT ![e].pc = "reporting", ![e].refused = TRUE]
    /\ UNCHANGED <<run, target, case, row, cleaned>>

\* the UPDATE of _finish: status, result and report together
sealed_row(e, report) ==
    row' = [row EXCEPT ![e].completed = TRUE, ![e].status = report.status,
                       ![e].result = report.result, ![e].classes = report.classes]

\* the replay's last observation, _judge, and the first transaction of _finish
Finish(e, observed) ==
    LET whole == eval[e].events \o surface_events(case.surface)
        report == IF eval[e].stopped \/ ~observed THEN ErrorReport
                  ELSE Judgement(case, eval[e].env, whole, eval[e].before,
                                 target[eval[e].ws].state)
    IN /\ Acting(e, "stepping") /\ (eval[e].stopped \/ ~StepsLeft(e))
       /\ sealed_row(e, report)
       /\ eval' = [eval EXCEPT ![e].pc = "cleaning"]
       /\ UNCHANGED <<run, target, case, cleaned>>

\* _finish with an error report: nothing was replayed
FinishRefused(e) ==
    /\ Acting(e, "reporting")
    /\ sealed_row(e, ErrorReport)
    /\ eval' = [eval EXCEPT ![e].pc = IF eval[e].ws = None THEN "done" ELSE "cleaning"]
    /\ UNCHANGED <<run, target, case, cleaned>>

\* purge_eval_workspace_state, in a transaction of its own
Clean(e) ==
    /\ Acting(e, "cleaning")
    /\ cleaned' = cleaned \cup ({eval[e].ws} \ {Interactive})
    /\ eval' = [eval EXCEPT ![e].pc = "done"]
    /\ UNCHANGED <<run, target, case, row>>

\* the process stops between two of a replay's steps, and nothing resumes it
Crash(e) ==
    /\ eval[e].pc \notin {"idle", "done", "gone"}
    /\ eval' = [eval EXCEPT ![e].pc = "gone"]
    /\ UNCHANGED <<run, target, case, row, cleaned>>

EvalNext ==
    \/ \E tool \in Tools, rid \in RequestIds \cup {None}, observed \in BOOLEAN,
          decision \in {None, "approved", "denied", "expired"} :
          Call(tool, rid, decision, observed)
    \/ \E kind \in Kinds : Capture(kind)
    \/ Seal \/ Generate
    \/ \E e \in Evals, env \in EvalEnvironment : Begin(e, env)
    \/ \E e \in Evals :
          \/ OpenUnregistered(e) \/ PrepareWorkspace(e) \/ Open(e) \/ Restore(e)
          \/ RestoreFails(e) \/ RestoreUnseen(e) \/ StepUnpublished(e) \/ FinishRefused(e)
          \/ Clean(e) \/ Crash(e)
    \/ \E e \in Evals, observed \in BOOLEAN : Step(e, observed) \/ Finish(e, observed)

EvalSpec == EvalInit /\ [][EvalNext]_evalVars

----------------------------------------------------------------------------
\* Properties

Policy(contract, type) == {p \in contract.policies : p.type = type}

\* the calls of a replay that really moved its target
Movers(e) == {n \in DOMAIN eval[e].ran : eval[e].ran[n].moved}

MovesUnder(e, tool, rid) ==
    {n \in Movers(e) : eval[e].ran[n].tool = tool /\ eval[e].ran[n].rid = rid}

\* A call is compared with the state the call before it left (running_before),
\* unless that one's observation failed: then with an older state.
SeenBefore(e, n) == n = 1 \/ eval[e].events[n - 1].after # None

\* The moves of a request that a replay which passes has the evidence of: a limit
\* on all mutations leaves no call unobserved.
MovesShown(e, tool, rid) ==
    {n \in MovesUnder(e, tool, rid) :
        SeenBefore(e, n) \/ Policy(case.contract, "maximum_mutations") # {}}

GreenOfCurrent(e) == row[e] # None /\ row[e].status = "passed" /\ eval[e].env = "current"

(* A green replay against the current implementation earned it, whatever
   crashed, failed to answer or raced: its row was finished, every call of the
   case was really made, in order, in the replay's own workspace, every
   critical assertion holds of the state really left there, and no limit on
   mutations was really exceeded.  No idempotent request really took effect
   twice, of the calls that follow an observed one; and of all calls, where the
   contract limits mutations too.  And the workspace is cleaned only once the
   report is written, and is never the interactive one that the replay was
   asked from. *)
GreenIsEarned ==
    \A e \in Evals :
        /\ eval[e].ws # Interactive
        /\ e \in cleaned => row[e].completed
        /\ GreenOfCurrent(e) =>
              /\ row[e].completed /\ row[e].logged = Len(case.trajectory)
              /\ ~eval[e].refused /\ ~eval[e].stopped
              /\ eval[e].ws = e
              /\ [n \in DOMAIN eval[e].ran |-> eval[e].ran[n].tool] =
                    [n \in DOMAIN case.trajectory |-> case.trajectory[n].tool]
              /\ \A a \in case.contract.assertions :
                    a.severity = "critical" => evaluate_operator(a, Seed, target[e].state)
              /\ \A p \in Policy(case.contract, "maximum_mutations") :
                    Cardinality(Movers(e)) <= p.limit
              /\ \A p \in Policy(case.contract, "idempotent_by_request_id"), rid \in RequestIds :
                    Cardinality(MovesShown(e, p.tool, rid)) <= 1

(* What idempotent_by_request_id says of every call, "repeating one request ID may
   change canonical state at most once".  A replay that passes does not promise
   it: where an observation failed, the next call is compared with an older
   state, which a second effect may have restored. *)
EveryRequestOnce ==
    \A e \in Evals : GreenOfCurrent(e) =>
        \A p \in Policy(case.contract, "idempotent_by_request_id"), rid \in RequestIds :
            Cardinality(MovesUnder(e, p.tool, rid)) <= 1

\* the source was undisturbed and approved throughout, the replay observed throughout
LikeForLike(e) ==
    /\ row[e] # None /\ row[e].completed /\ row[e].result # None
    /\ eval[e].env = "reproduce_source"
    /\ run.quiet
    /\ \A n \in DOMAIN run.decisions : run.decisions[n].decision \in {None, "approved"}
    /\ \A i \in DOMAIN eval[e].events : eval[e].events[i].after # None

\* contracts whose every term a replay has the evidence for
Replayable(contract) ==
    /\ contract.expected = None
    /\ \A p \in contract.policies : p.type \in {"idempotent_by_request_id", "maximum_mutations"}
    /\ \A a \in contract.assertions : a.severity = "critical"

(* A case of a failure reproduces it.  Where the source run was undisturbed (no
   call raised and every observation was had), every question in it was
   approved, and the contract asks only what a replay has the evidence for, a
   replay under the source's own scenario that could be judged, with every
   observation had, comes out passed: pruning the calls, minimizing the fixture,
   reusing the request ids and granting the recorded approvals lost nothing of
   the failure. *)
Reproduces ==
    \A e \in Evals :
        LikeForLike(e) /\ Replayable(run.contract) => row[e].status = "passed"

(* What eval_runner.py says of every case, whatever its contract: "a replayed
   run must classify identically to its source". *)
ClassifiesAlike ==
    \A e \in Evals :
        LikeForLike(e) => row[e].result = run.result /\ row[e].classes = critical(run.findings)

================================================================================
