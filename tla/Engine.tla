-------------------------------- MODULE Engine --------------------------------
(***************************************************************************)
(* The verification engine: what a contract, a recorded timeline and two    *)
(* snapshots come to.  Everything here is a function of that evidence, as   *)
(* in the code, where a policy that reached out to a live target could not  *)
(* be replayed; the modules that record the evidence extend this one.       *)
(*                                                                          *)
(* A timeline is the sequence of a run's events, an event's index being its *)
(* sequence number.  The findings of an evaluation are a set of records;    *)
(* the term each one judges keeps two findings of one policy type apart.    *)
(***************************************************************************)
EXTENDS Observation, FiniteSetsExt

CONSTANT CheckOrder     \* check ids in lexical order, the last tie-break of sort_key

----------------------------------------------------------------------------
\* Events and vocabulary

EventActor == {"agent", "eval", "human", "harness"}

\* _ACTING_ACTORS of both modules, and ELIGIBLE_TRAJECTORY_ACTORS
ActingActors == {"agent", "eval"}

TerminalEvents ==
    {"tool_invocation_completed", "tool_invocation_failed", "tool_invocation_cancelled"}

\* RunEvent: the fields the engine reads.  A state hash is told apart by the
\* state it is of, so before and after hold that state (None: not recorded).
RunEvent(type, actor, tool, corr) ==
    [type |-> type, actor |-> actor, tool |-> tool, corr |-> corr, rid |-> None,
     reported |-> None, before |-> None, after |-> None, effect |-> None, kind |-> None]

is_invocation_start(e) == e.type = "tool_invocation_started"

reported_success(e) == e.reported = "success"

\* slip: an unrecorded hash read as a state that did not move
unrecorded_is_quiet(e) == e.before # None /\ e.after # None /\ e.before # e.after

\* changed_state: None when the event recorded no pair of hashes
changed_state(e) ==
    IF e.before = None \/ e.after = None THEN None ELSE e.before # e.after

Moved(e) == changed_state(e) = TRUE

Indices(tl, P(_)) == {i \in DOMAIN tl : P(tl[i])}

starts_for(tl, tool) ==
    Indices(tl, LAMBDA e : is_invocation_start(e) /\ e.tool = tool)

completions_for(tl, tool) ==
    Indices(tl, LAMBDA e : e.type = "tool_invocation_completed" /\ e.tool = tool)

----------------------------------------------------------------------------
\* engine/enums.py and engine/findings.py

FailureClassification ==
    {"tool_execution_error", "false_success_or_state_mismatch", "idempotency_violation",
     "missing_confirmation", "assertion_mismatch", "missing_expected_tool", "unexpected_tool",
     "trajectory_order_violation", "observation_unavailable", "undeclared_state_change",
     "tool_surface_mutation", "harness_error"}

Finding(check, type, status, severity, term) ==
    [check |-> check, type |-> type, status |-> status, severity |-> severity,
     term |-> term, class |-> None, path |-> None, paths |-> {}, causal |-> 0,
     exempt |-> {}, cause |-> None, warnings |-> 0]

\* Finding.failed
failed(f) == f.status \in {"failed", "observation_unavailable"}

SEVERITY_RANK == [critical |-> 3, warning |-> 2, info |-> 1]

CheckRank(f) == CHOOSE n \in DOMAIN CheckOrder : CheckOrder[n] = f.check

\* sort_key as a strict order; causal 0 is "attributed to no action", sorted last
SortsBefore(f, g) ==
    IF f.severity # g.severity THEN SEVERITY_RANK[f.severity] > SEVERITY_RANK[g.severity]
    ELSE IF (f.causal = 0) # (g.causal = 0) THEN g.causal = 0
    ELSE IF f.causal # g.causal THEN f.causal < g.causal
    ELSE CheckRank(f) < CheckRank(g)

\* primary_failure(order_failures(findings)), None when nothing failed
primary_failure(findings) ==
    LET failures == {f \in findings : failed(f)} IN
    IF failures = {} THEN None
    ELSE CHOOSE f \in failures : \A g \in failures : ~SortsBefore(g, f)

critical_classifications(findings) ==
    {f.class : f \in {g \in findings :
        failed(g) /\ g.severity = "critical" /\ g.class # None}}

FailuresOf(findings, severity) == {f \in findings : failed(f) /\ f.severity = severity}

\* aggregate: one layer's result
aggregate(findings) ==
    IF FailuresOf(findings, "critical") # {} THEN "failed"
    ELSE IF FailuresOf(findings, "warning") # {} THEN "passed_with_warnings"
    ELSE "passed"

----------------------------------------------------------------------------
\* contracts/models.py.  An expected value is a subtree (a function from leaves
\* to scalars), or the number changed_by and count_equals compare with.

TRANSITION_OPERATORS == {"unchanged", "changed_by"}

OPERATORS_REQUIRING_VALUE == {"equals", "not_equals", "changed_by", "count_equals"}

\* but for contains, which is left out
AssertionOperator ==
    {"equals", "not_equals", "exists", "absent", "unchanged", "changed_by", "count_equals"}

PolicyType ==
    {"requires_confirmation", "idempotent_by_request_id", "maximum_mutations",
     "forbidden_tool", "no_undeclared_changes", "stable_tool_surface"}

\* _check_value_presence
ValuePresence(term) == (term.value # None) <=> (term.op \in OPERATORS_REQUIRING_VALUE)

PreconditionOK(term) == term.op \notin TRANSITION_OPERATORS /\ ValuePresence(term)

confirmed_tools(contract) ==
    {p.tool : p \in {q \in contract.policies : q.type = "requires_confirmation"}}

referenced_tools(contract) ==
    (IF contract.expected = None THEN {} ELSE {contract.expected.calls[n] :
        n \in DOMAIN contract.expected.calls}) \cup
    {p.tool : p \in {q \in contract.policies : q.type \in
        {"requires_confirmation", "idempotent_by_request_id", "forbidden_tool"}}}

\* OutcomeContract._check_contract, the duplicate identifiers and the empty contract
WellFormed(contract) ==
    /\ contract.assertions # {} \/ contract.policies # {}
    /\ \A a, b \in contract.assertions : a.id = b.id => a = b
    /\ \A term \in contract.assertions : ValuePresence(term)
    /\ \A term \in contract.preconditions : PreconditionOK(term)

\* validate_against_target
ValidForTarget(contract, published, protected) ==
    /\ referenced_tools(contract) \subseteq published
    /\ (referenced_tools(contract) \cap protected) \subseteq confirmed_tools(contract)

\* engine/policies.py: declared_contract_paths
declared_contract_paths(contract) ==
    {t.path : t \in contract.preconditions} \cup {t.path : t \in contract.assertions}

----------------------------------------------------------------------------
\* engine/assertions.py

HoldsEquals(a, final) == found(a.path, final) /\ deep_equal(resolve(a.path, final), a.value)

HoldsNotEquals(a, final) ==
    found(a.path, final) /\ ~deep_equal(resolve(a.path, final), a.value)

HoldsUnchanged(a, initial, final) ==
    /\ found(a.path, initial) /\ found(a.path, final)
    /\ deep_equal(resolve(a.path, initial), resolve(a.path, final))

HoldsChangedBy(a, initial, final) ==
    /\ IsLeaf(a.path, initial) /\ IsLeaf(a.path, final)
    /\ as_exact(initial[a.path]) # None /\ as_exact(final[a.path]) # None
    /\ as_exact(final[a.path]) - as_exact(initial[a.path]) = a.value

HoldsCountEquals(a, final) ==
    /\ found(a.path, final) /\ ~IsLeaf(a.path, final)
    /\ Cardinality({l[Len(a.path) + 1] : l \in Below(a.path, final)}) = a.value

\* evaluate_operator, the operators the runs' contracts use (contains is left out)
evaluate_operator(a, initial, final) ==
    CASE a.op = "equals" -> HoldsEquals(a, final)
      [] a.op = "not_equals" -> HoldsNotEquals(a, final)
      [] a.op = "exists" -> found(a.path, final)
      [] a.op = "absent" -> ~found(a.path, final)
      [] a.op = "unchanged" -> HoldsUnchanged(a, initial, final)
      [] a.op = "changed_by" -> HoldsChangedBy(a, initial, final)
      [] a.op = "count_equals" -> HoldsCountEquals(a, final)

\* the snapshots the operator reads were taken
Observed(a, initial, final) ==
    final # None /\ (a.op \in TRANSITION_OPERATORS => initial # None)

AssertionFinding(a, status, class) ==
    [Finding(a.id, "assertion", status, a.severity, a)
        EXCEPT !.class = class, !.path = a.path]

evaluate_assertion(a, initial, final) ==
    IF ~Observed(a, initial, final)
    THEN AssertionFinding(a, "observation_unavailable", "observation_unavailable")
    ELSE IF evaluate_operator(a, initial, final) THEN AssertionFinding(a, "passed", None)
    ELSE AssertionFinding(a, "failed", "assertion_mismatch")

\* evaluate_precondition, whose context is the initial snapshot
evaluate_precondition(p, initial) ==
    IF initial = None THEN "observation_unavailable"
    ELSE IF evaluate_operator(p, <<>>, initial) THEN "passed" ELSE "failed"

----------------------------------------------------------------------------
\* engine/classification.py

\* terminal acting actions whose declared effect overlaps the path
Relevant(path, tl, effects) ==
    Indices(tl, LAMBDA e : /\ e.type \in TerminalEvents /\ e.actor \in ActingActors
                           /\ \E p \in effects[e.tool] : overlaps(p, path))

\* _last_relevant_action: 0 when no executed tool declared an effect there
last_relevant_action(path, tl, effects) ==
    LET relevant == Relevant(path, tl, effects) IN
    IF relevant = {} THEN 0 ELSE Max(relevant)

\* _effect_observation_mismatches: None when the event cannot answer
effect_observation_mismatches(a, e, initial) ==
    IF e.effect = None \/ (a.op \in TRANSITION_OPERATORS /\ initial = None) THEN None
    ELSE ~evaluate_operator(a, initial, e.effect)

ToolAction(i, e) == [kind |-> "tool_action", tool |-> e.tool, sequence |-> i]

NoCause == [kind |-> "none", tool |-> None, sequence |-> 0]

\* slip: a claim of success and a final mismatch are enough to accuse
ClaimedSuccess(a, e, initial) ==
    e.type = "tool_invocation_completed" /\ reported_success(e)

\* _classify_one's last condition: success was claimed and the observation taken
\* at once contradicts the assertion
Contradicted(a, e, initial) ==
    /\ e.type = "tool_invocation_completed" /\ reported_success(e)
    /\ effect_observation_mismatches(a, e, initial) = TRUE

\* _classify_one
classify_one(f, tl, effects, initial) ==
    IF f.status # "failed" \/ f.class # "assertion_mismatch" THEN f
    ELSE LET i == last_relevant_action(f.path, tl, effects) IN
         IF i = 0 THEN [f EXCEPT !.cause = NoCause]
         ELSE [f EXCEPT !.cause = ToolAction(i, tl[i]), !.causal = i,
                        !.class = IF Contradicted(f.term, tl[i], initial)
                                  THEN "false_success_or_state_mismatch" ELSE @]

ActingTerminals(tl) ==
    Indices(tl, LAMBDA e : e.type \in TerminalEvents /\ e.actor \in ActingActors)

tool_execution_layer(tl) ==
    LET ends == ActingTerminals(tl) IN
    IF ends = {} THEN "not_evaluated"
    ELSE IF \E i \in ends : tl[i].type = "tool_invocation_failed" THEN "failed"
    ELSE IF \E i \in ends : \/ tl[i].type = "tool_invocation_cancelled"
                            \/ tl[i].reported \in {"blocked_by_user", "blocked_by_expiry"}
    THEN "blocked_safely" ELSE "passed"

execution_findings(tl) ==
    {[Finding("tool_execution", "policy", "failed", "critical", i)
        EXCEPT !.class = "tool_execution_error", !.causal = i] :
     i \in {j \in ActingTerminals(tl) : tl[j].type = "tool_invocation_failed"}}

----------------------------------------------------------------------------
\* engine/trajectory.py

EligibleStarts(tl) ==
    Indices(tl, LAMBDA e : is_invocation_start(e) /\ e.actor \in ActingActors)

\* Counter(required) - Counter(observed) is not empty
Shortfall(calls, tl) ==
    \E tool \in {calls[n] : n \in DOMAIN calls} :
        Cardinality({n \in DOMAIN calls : calls[n] = tool}) >
            Cardinality({i \in EligibleStarts(tl) : tl[i].tool = tool})

\* _is_subsequence
is_subsequence(calls, tl) ==
    \E at \in [DOMAIN calls -> EligibleStarts(tl)] :
        /\ \A n \in DOMAIN calls : tl[at[n]].tool = calls[n]
        /\ \A m, n \in DOMAIN calls : m < n => at[m] < at[n]

\* _first_eligible_sequence
first_eligible(tl) == IF EligibleStarts(tl) = {} THEN 0 ELSE Min(EligibleStarts(tl))

evaluate_expected_tools(expected, tl) ==
    LET of(status, class) ==
            [Finding("expected_tools", "expected_tools", status, "critical", None)
                EXCEPT !.class = class, !.causal = IF class = None THEN 0 ELSE first_eligible(tl)]
    IN IF expected = None THEN of("not_evaluated", None)
       ELSE IF Shortfall(expected.calls, tl) THEN of("failed", "missing_expected_tool")
       ELSE IF expected.ordered /\ ~is_subsequence(expected.calls, tl)
       THEN of("failed", "trajectory_order_violation")
       ELSE of("passed", None)

----------------------------------------------------------------------------
\* engine/policies.py.  Every policy finding is critical, and its check id is
\* the policy's type.

PolicyFinding(policy, status, class, causal) ==
    [Finding(policy.type, "policy", status, "critical", policy)
        EXCEPT !.class = class, !.causal = causal]

Unavailable(policy, causal) ==
    PolicyFinding(policy, "observation_unavailable", "observation_unavailable", causal)

\* _needs_consent: the state moved, or the tool says it succeeded
needs_consent(e) == Moved(e) \/ reported_success(e)

\* an approval under the completion's own correlation id precedes it
approved_before(tl, i) ==
    \E j \in 1..(i - 1) : tl[j].type = "confirmation_approved" /\ tl[j].corr = tl[i].corr

\* _evaluate_requires_confirmation
evaluate_requires_confirmation(policy, tl) ==
    LET unconsented == {i \in completions_for(tl, policy.tool) :
                           needs_consent(tl[i]) /\ ~approved_before(tl, i)}
    IN IF starts_for(tl, policy.tool) = {} \/ unconsented = {}
       THEN PolicyFinding(policy, "passed", None, 0)
       ELSE PolicyFinding(policy, "failed", "missing_confirmation", Min(unconsented))

\* completions of the tool that carry a request id
Under(tl, tool, rid) == {i \in completions_for(tl, tool) : tl[i].rid = rid}

MovedOf(tl, indices) == {i \in indices : Moved(tl[i])}

UnknownOf(tl, indices) == {i \in indices : changed_state(tl[i]) = None}

\* the element of a set of sequence numbers that n of them precede
Nth(indices, n) == CHOOSE i \in indices : Cardinality({j \in indices : j < i}) = n

\* _evaluate_idempotency; request ids are numbers, so sorted() is their order
evaluate_idempotency(policy, tl) ==
    LET completions == completions_for(tl, policy.tool)
        repeated == {tl[i].rid : i \in {j \in completions : tl[j].rid # None /\
                        Cardinality(Under(tl, policy.tool, tl[j].rid)) > 1}}
        wrong == {rid \in repeated :
                     LET group == Under(tl, policy.tool, rid) IN
                     UnknownOf(tl, group) # {} \/ Cardinality(MovedOf(tl, group)) > 1}
    IN IF wrong = {} THEN PolicyFinding(policy, "passed", None, 0)
       ELSE LET group == Under(tl, policy.tool, Min(wrong)) IN
            IF UnknownOf(tl, group) # {} THEN Unavailable(policy, Min(group))
            ELSE PolicyFinding(policy, "failed", "idempotency_violation",
                               Nth(MovedOf(tl, group), 1))

\* _evaluate_maximum_mutations, over the completions of every tool
evaluate_maximum_mutations(policy, tl) ==
    LET completions == Indices(tl, LAMBDA e : e.type = "tool_invocation_completed")
        mutations == MovedOf(tl, completions)
    IN IF UnknownOf(tl, completions) # {}
       THEN Unavailable(policy, Min(UnknownOf(tl, completions)))
       ELSE IF Cardinality(mutations) > policy.limit
       THEN PolicyFinding(policy, "failed", "idempotency_violation",
                          Nth(mutations, policy.limit))
       ELSE PolicyFinding(policy, "passed", None, 0)

\* _evaluate_forbidden_tool: any actor's start
evaluate_forbidden_tool(policy, tl) ==
    IF starts_for(tl, policy.tool) = {} THEN PolicyFinding(policy, "passed", None, 0)
    ELSE PolicyFinding(policy, "failed", "unexpected_tool", Min(starts_for(tl, policy.tool)))

\* _adjacent_cause: the last action whose hashes moved, else the last human decision
adjacent_cause(tl) ==
    LET moved == MovedOf(tl, Indices(tl, LAMBDA e : e.type \in TerminalEvents))
        decisions == Indices(tl, LAMBDA e :
                        e.type \in {"confirmation_approved", "confirmation_denied"})
    IN IF moved # {} THEN ToolAction(Max(moved), tl[Max(moved)])
       ELSE IF decisions # {}
       THEN [kind |-> "human_confirmation", tool |-> None, sequence |-> Max(decisions)]
       ELSE NoCause

\* the declared effect prefixes of the tools that were started by an acting actor
ExecutedEffects(tl, effects) ==
    UNION {effects[tl[i].tool] : i \in EligibleStarts(tl)}

covered(path, prefixes) == \E p \in prefixes : overlaps(p, path)

\* _evaluate_no_undeclared_changes: the partition of the changed paths
evaluate_no_undeclared_changes(policy, tl, effects, declared, changed) ==
    IF changed = None THEN PolicyFinding(policy, "not_evaluated", None, 0)
    ELSE LET outside == {p \in changed :
                            ~covered(p, declared \cup ExecutedEffects(tl, effects))}
             waivers(p) == {n \in DOMAIN policy.allow : overlaps(policy.allow[n], p)}
             undeclared == {p \in outside : waivers(p) = {}}
             exempt == {policy.allow[Min(waivers(p))] : p \in outside \ undeclared}
         IN IF undeclared = {}
            THEN [PolicyFinding(policy, "passed", None, 0) EXCEPT !.exempt = exempt]
            ELSE [PolicyFinding(policy, "failed", "undeclared_state_change", 0)
                     EXCEPT !.paths = undeclared, !.exempt = exempt,
                            !.cause = adjacent_cause(tl)]

\* surface_evidence and identity_mismatches, read out of the timeline
baseline_recorded(tl) == \E i \in DOMAIN tl : tl[i].type = "tool_surface_captured"

observed_deltas(tl) ==
    {i \in DOMAIN tl : tl[i].type = "tool_surface_changed"}

identity_mismatches(tl) ==
    {tl[i].tool : i \in {j \in DOMAIN tl : tl[j].type = "tool_identity_mismatch"}}

\* StableToolSurfacePolicy.failing_delta_kinds by default
DefaultFailingKinds == {"added", "removed", "schema_change", "hint_change"}

SurfaceDeltaKind == DefaultFailingKinds \cup {"description_change"}

\* _evaluate_stable_tool_surface
evaluate_stable_tool_surface(policy, tl) ==
    LET failing == {i \in observed_deltas(tl) : tl[i].kind \in policy.kinds}
        warned == Cardinality(observed_deltas(tl) \ failing)
    IN IF ~baseline_recorded(tl) THEN Unavailable(policy, 0)
       ELSE IF identity_mismatches(tl) # {} \/ failing # {}
       THEN [PolicyFinding(policy, "failed", "tool_surface_mutation", 0)
                EXCEPT !.warnings = warned]
       ELSE [PolicyFinding(policy, "passed", None, 0) EXCEPT !.warnings = warned]

\* evaluate_policy
evaluate_policy(policy, tl, effects, declared, changed) ==
    CASE policy.type = "requires_confirmation" -> evaluate_requires_confirmation(policy, tl)
      [] policy.type = "idempotent_by_request_id" -> evaluate_idempotency(policy, tl)
      [] policy.type = "maximum_mutations" -> evaluate_maximum_mutations(policy, tl)
      [] policy.type = "forbidden_tool" -> evaluate_forbidden_tool(policy, tl)
      [] policy.type = "no_undeclared_changes" ->
            evaluate_no_undeclared_changes(policy, tl, effects, declared, changed)
      [] policy.type = "stable_tool_surface" -> evaluate_stable_tool_surface(policy, tl)

----------------------------------------------------------------------------
\* application/verification_service.py: _evaluate and Evaluation

ChangedPaths(initial, final) ==
    IF initial = None \/ final = None THEN None ELSE diff_states(initial, final)

Evaluation(contract, effects, tl, initial, final) ==
    [assertions |-> {classify_one(evaluate_assertion(a, initial, final), tl, effects, initial) :
                        a \in contract.assertions},
     trajectory |-> evaluate_expected_tools(contract.expected, tl),
     policies |-> {evaluate_policy(p, tl, effects, declared_contract_paths(contract),
                                   ChangedPaths(initial, final)) : p \in contract.policies},
     execution |-> execution_findings(tl),
     changes |-> ChangedPaths(initial, final)]

\* Evaluation.all
AllFindings(ev) == ev.assertions \cup {ev.trajectory} \cup ev.policies \cup ev.execution

\* slip: an unresolved check gives the row its own status
unresolved_row(findings) ==
    IF \E f \in findings : f.status = "observation_unavailable"
    THEN "observation_unavailable" ELSE aggregate(findings)

\* _with_recorded_warnings over aggregate: what _seal writes on the run's row
with_recorded_warnings(findings) ==
    IF aggregate(findings) = "passed" /\ \E f \in findings : f.warnings > 0
    THEN "passed_with_warnings" ELSE aggregate(findings)

----------------------------------------------------------------------------
\* reports/models.py

\* _layer_from
layer_from(f) == IF f.status \in {"passed", "not_evaluated"} THEN f.status ELSE "failed"

\* slip: the execution findings are left with the layer they came from
JudgedFindings(ev) == ev.assertions \cup ev.policies \cup {ev.trajectory}

\* the findings _compose hands over, grouped as compose_outcome_report takes them
ReportFindings(ev) == ev.assertions \cup (ev.policies \cup ev.execution) \cup {ev.trajectory}

\* CountsBlock
critical_failures(findings) == Cardinality(FailuresOf(findings, "critical"))

warning_count(findings) ==
    Cardinality(FailuresOf(findings, "warning")) +
    MapThenSumSet(LAMBDA f : f.warnings, findings)

tool_calls(tl) == Cardinality(Indices(tl, LAMBDA e : is_invocation_start(e) /\ e.actor = "agent"))

human_confirmations(tl) ==
    Cardinality(Indices(tl, LAMBDA e : e.type \in {"confirmation_approved", "confirmation_denied"}))

\* undeclared_changes_from, of the finding _undeclared_changes_block picks
undeclared_changes(ev) ==
    LET of == {f \in ev.policies : f.check = "no_undeclared_changes" /\ f.status # "not_evaluated"}
    IN IF ev.changes = None \/ of = {} THEN None
       ELSE LET f == CHOOSE g \in of : TRUE
                undeclared == Cardinality(f.paths)
            IN [changed |-> Cardinality(ev.changes), undeclared |-> undeclared,
                declared |-> Cardinality(ev.changes) - undeclared]

\* the layers' permitted values; model_tool_selection is never given one here
ALLOWED_LAYER_RESULTS ==
    [observed_trajectory |-> {"passed", "failed", "not_evaluated"},
     tool_execution |-> {"passed", "blocked_safely", "failed", "not_evaluated"},
     business_outcome |-> {"passed", "passed_with_warnings", "failed", "error", "not_evaluated"},
     safety_policy |-> {"passed", "failed", "error"}]

\* LayeredResult refuses to be built of anything else
LayersPermitted(layers) ==
    \A layer \in DOMAIN layers : layers[layer] \in ALLOWED_LAYER_RESULTS[layer]

\* compose_outcome_report of a verification run
compose_outcome_report(ev, tl) ==
    LET everything == ReportFindings(ev)
        primary == primary_failure(everything)
    IN [status |-> IF critical_failures(everything) > 0 THEN "failed"
                   ELSE IF warning_count(everything) > 0 THEN "passed_with_warnings"
                   ELSE "passed",
        primary |-> IF primary = None THEN None ELSE primary.class,
        layers |-> [observed_trajectory |-> layer_from(ev.trajectory),
                    tool_execution |-> tool_execution_layer(tl),
                    business_outcome |-> aggregate(ev.assertions),
                    safety_policy |-> aggregate(ev.policies \cup ev.execution)],
        undeclared |-> undeclared_changes(ev),
        tool_calls |-> tool_calls(tl),
        confirmations |-> human_confirmations(tl)]

================================================================================
