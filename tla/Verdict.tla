-------------------------------- MODULE Verdict --------------------------------
(***************************************************************************)
(* One run from its arming to its verdict: the evidence the harness records *)
(* while an agent calls tools, a human answers confirmations and the page   *)
(* shows its tool surface, and the verdict the engine draws from it.        *)
(*                                                                          *)
(* What is judged here is the evidence, so the model keeps beside it what   *)
(* really happened: which executions moved the target and what each left    *)
(* behind.  RunLifecycle models the handlers' interleaving in full; here a  *)
(* call is what the timeline shows of it: the observation and start, the    *)
(* decision and resumption, the execution, the observation and the end.     *)
(*                                                                          *)
(* The tools are not trusted.  An execution may leave the target in any     *)
(* state, and say of itself what it likes.                                  *)
(***************************************************************************)
EXTENDS Engine, SequencesExt

CONSTANTS
    Contracts,      \* the contract the run is armed with, one of these
    Tools,          \* what the target publishes
    EffectMap,      \* the paths each tool declares it may touch
    States,         \* canonical target states, as evaluation contexts
    Seed,           \* the state the target is armed in
    Surfaces,       \* target partitions of the tool surface the page may show
    Armed,          \* the surface the page shows when the run is armed
    Reports,        \* statuses a tool may report of itself
    Requests,       \* request ids an agent may send, numbers
    Calls,          \* bound: invocations of the run
    MaxEdits,       \* bound: changes of the target that no call makes
    MaxCaptures,    \* bound: surface captures
    Disturbed       \* whether the target may move under a call that is not its own

ASSUME VerdictAssumption ==
    /\ Requests \subseteq Nat
    /\ IsFiniteSet(Calls)
    /\ MaxEdits \in Nat /\ MaxCaptures \in Nat
    /\ Disturbed \in BOOLEAN
    /\ Seed \in States /\ Armed \in Surfaces
    /\ EffectMap \in [Tools -> SUBSET Seq(STRING)]
    /\ \A k \in Contracts : WellFormed(k) /\ ValidForTarget(k, Tools, {})

\* What the types of contracts/models.py say of a contract's parts
ASSUME ContractAssumption ==
    \A k \in Contracts :
        /\ IsFiniteSet(k.assertions) /\ IsFiniteSet(k.policies)
        /\ \A a \in k.assertions : /\ a.path \in Seq(STRING) /\ a.op \in AssertionOperator
                                   /\ a.severity \in DOMAIN SEVERITY_RANK
        /\ \A p \in k.policies : /\ p.type \in PolicyType
                                 /\ p.type = "maximum_mutations" => p.limit \in Nat

\* A state is a finite JSON document with something in it, read as Observation
\* reads one: no leaf lies below another.  A surface has finitely many tools.
ASSUME TargetAssumption ==
    /\ \A s \in States : /\ IsFiniteSet(DOMAIN s) /\ DOMAIN s \subseteq Seq(STRING) \ {<<>>}
                        /\ \A l, m \in DOMAIN s : is_ancestor_of(l, m) => l = m
    /\ \A s \in Surfaces : IsFiniteSet(DOMAIN s)

\* None is no value of any field that may be None
ASSUME NoneAssumption ==
    /\ None \notin BOOLEAN /\ None \notin FailureClassification /\ None \notin Calls
    /\ None \notin States /\ None \notin Tools /\ None \notin Requests
    /\ \A s, t \in States : diff_states(s, t) # None

VARIABLES
    contract,   \* the armed contract
    initial,    \* the snapshot of phase before
    target,     \* the target's state
    timeline,   \* the run's events
    call,       \* where each invocation is, and what it really did
    page,       \* the surface the page shows now
    captured,   \* the surfaces captured, in order
    edits,      \* how often the target moved under nobody's call
    judging,    \* what verify has read: the timeline at its gate, the final observation
    verdict     \* what the seal wrote: the evaluation, the row and the report

ruling == <<judging, verdict>>

vars == <<contract, initial, target, timeline, call, page, captured, edits, judging, verdict>>

----------------------------------------------------------------------------
\* a withdrawn call has no terminal event, and never will: the gate waits on it for good
CallPoint == {"idle", "awaiting", "approved", "open", "executed", "done", "withdrawn"}

\* moved and left are history: whether the execution moved the target, and to what
NoCall ==
    [pc |-> "idle", tool |-> None, rid |-> None, before |-> None, result |-> None,
     moved |-> FALSE, left |-> None, ended |-> 0]

Results == Reports \cup {"raised"}

MaybeState == States \cup {None}

\* the names a page may register, which need not be names the target publishes
Named == UNION {DOMAIN s : s \in Surfaces}

CallRecord ==
    [pc : CallPoint, tool : Tools \cup {None}, rid : Requests \cup {None},
     before : MaybeState, result : Results \cup {None}, moved : BOOLEAN,
     left : MaybeState, ended : Nat]

\* the events a run of this model records
EventType ==
    TerminalEvents \cup
    {"tool_invocation_started", "confirmation_requested", "confirmation_approved",
     "confirmation_denied", "confirmation_expired", "confirmation_cancelled",
     "tool_identity_mismatch", "tool_surface_captured", "tool_surface_changed"}

\* effect fragments
Effect == {effect_context(EffectMap[t], s) : t \in Tools, s \in MaybeState}

Event ==
    [type : EventType, actor : EventActor, tool : Tools \cup Named \cup {None},
     corr : Calls \cup {None}, rid : Requests \cup {None}, reported : Reports \cup {None},
     before : MaybeState, after : MaybeState,
     effect : Effect \cup {None}, kind : SurfaceDeltaKind \cup {None}]

TypeOK ==
    /\ contract \in Contracts
    /\ initial \in States
    /\ target \in States
    /\ timeline \in Seq(Event)
    /\ call \in [Calls -> CallRecord]
    /\ \A c \in Calls : call[c].ended <= Len(timeline)
    /\ page \in Surfaces
    /\ captured \in Seq(Surfaces) /\ Len(captured) <= MaxCaptures
    /\ edits \in 0..MaxEdits
    /\ judging \in [gated : BOOLEAN, events : Seq(Event), shown : Seq(Surfaces),
                    final : MaybeState]
    /\ judging.gated => \A c \in Calls : call[c].ended <= Len(judging.events)
    /\ verdict # None => verdict.row \in {"passed", "passed_with_warnings", "failed", "error"}

Init ==
    /\ contract \in Contracts
    /\ initial = Seed
    /\ \A p \in contract.preconditions : evaluate_precondition(p, initial) = "passed"
    /\ target = initial
    /\ timeline = <<>>
    /\ call = [c \in Calls |-> NoCall]
    /\ page = Armed
    /\ captured = <<>>
    /\ edits = 0
    /\ judging = [gated |-> FALSE, events |-> <<>>, shown |-> <<>>, final |-> None]
    /\ verdict = None

\* the run's status is still armed or running
Open == ~judging.gated

append(events) == timeline' = timeline \o events

\* no other call stands between its two observations
Quiet(c) ==
    Disturbed \/ \A d \in Calls \ {c} : call[d].pc \notin {"open", "executed"}

CallEvent(type, actor, c) == RunEvent(type, actor, call[c].tool, c)

----------------------------------------------------------------------------
\* The invocation

StartEvent(c, tool, rid) ==
    [RunEvent("tool_invocation_started", "agent", tool, c) EXCEPT !.rid = rid]

\* the first observation and _start of a tool that needs no confirmation
Start(c, tool, rid) ==
    /\ Open /\ call[c].pc = "idle" /\ Quiet(c)
    /\ tool \notin confirmed_tools(contract)
    /\ append(<<StartEvent(c, tool, rid)>>)
    /\ call' = [call EXCEPT ![c] = [NoCall EXCEPT !.pc = "open", !.tool = tool, !.rid = rid,
                                                  !.before = target]]
    /\ UNCHANGED <<contract, initial, target, page, captured, edits, ruling>>

\* _start of a protected tool: the start and the question, bound to what was seen
StartProtected(c, tool, rid) ==
    /\ Open /\ call[c].pc = "idle" /\ Quiet(c)
    /\ tool \in confirmed_tools(contract)
    /\ append(<<StartEvent(c, tool, rid),
                RunEvent("confirmation_requested", "agent", tool, c)>>)
    /\ call' = [call EXCEPT ![c] = [NoCall EXCEPT !.pc = "awaiting", !.tool = tool,
                                                  !.rid = rid, !.before = target]]
    /\ UNCHANGED <<contract, initial, target, page, captured, edits, ruling>>

\* _identity_mismatch: the page's definition is not the armed one
RefuseMismatch(c, tool) ==
    /\ Open /\ call[c].pc = "idle"
    /\ captured # <<>> /\ tool \in DOMAIN captured[1] \cap DOMAIN page
    /\ page[tool] # captured[1][tool]
    /\ append(<<RunEvent("tool_identity_mismatch", "harness", tool, c)>>)
    /\ call' = [call EXCEPT ![c].pc = "done"]
    /\ UNCHANGED <<contract, initial, target, page, captured, edits, ruling>>

Approve(c) ==
    /\ Open /\ call[c].pc = "awaiting"
    /\ append(<<CallEvent("confirmation_approved", "human", c)>>)
    /\ call' = [call EXCEPT ![c].pc = "approved"]
    /\ UNCHANGED <<contract, initial, target, page, captured, edits, ruling>>

\* a denial, or the window lapsing: the refusal, and the call's safe end
Refuse(c) ==
    /\ Open /\ call[c].pc = "awaiting"
    /\ \E refusal \in {<<"confirmation_denied", "human">>, <<"confirmation_expired", "harness">>} :
          append(<<CallEvent(refusal[1], refusal[2], c),
                   CallEvent("tool_invocation_cancelled", "agent", c)>>)
    /\ call' = [call EXCEPT ![c].pc = "done", ![c].ended = Len(timeline) + 2]
    /\ UNCHANGED <<contract, initial, target, page, captured, edits, ruling>>

\* the resuming request observes again; an approval of another state is cancelled
Resume(c) ==
    /\ Open /\ call[c].pc = "approved" /\ Quiet(c)
    /\ IF call[c].before = target
       THEN /\ call' = [call EXCEPT ![c].pc = "open"]
            /\ UNCHANGED timeline
       ELSE /\ append(<<[CallEvent("confirmation_cancelled", "harness", c)
                            EXCEPT !.before = target]>>)
            /\ call' = [call EXCEPT ![c].pc = "withdrawn"]
    /\ UNCHANGED <<contract, initial, target, page, captured, edits, ruling>>

\* adapter.execute: external to the harness, and not trusted
Execute(c, state, result) ==
    /\ Open /\ call[c].pc = "open"
    /\ target' = state
    /\ call' = [call EXCEPT ![c].pc = "executed", ![c].result = result,
                            ![c].moved = (state # target), ![c].left = state]
    /\ UNCHANGED <<contract, initial, timeline, page, captured, edits, ruling>>

\* _terminate's event: the self-report, the two hashes and the effect fragment
TerminalEvent(c, after) ==
    [CallEvent(IF call[c].result = "raised" THEN "tool_invocation_failed"
               ELSE "tool_invocation_completed", "agent", c)
        EXCEPT !.rid = call[c].rid,
               !.reported = IF call[c].result = "raised" THEN None ELSE call[c].result,
               !.before = call[c].before, !.after = after,
               !.effect = effect_context(EffectMap[call[c].tool], after)]

\* _terminate, after an observation that may not be had
Terminate(c, after) ==
    /\ Open /\ call[c].pc = "executed"
    /\ after \in {target, None}
    /\ append(<<TerminalEvent(c, after)>>)
    /\ call' = [call EXCEPT ![c].pc = "done", ![c].ended = Len(timeline) + 1]
    /\ UNCHANGED <<contract, initial, target, page, captured, edits, ruling>>

----------------------------------------------------------------------------
\* What happens around the calls

\* another writer of the target, at any time: a shopper, a background job
Edit(state) ==
    /\ edits < MaxEdits /\ state # target
    /\ Disturbed \/ \A c \in Calls : call[c].pc \notin {"open", "executed"}
    /\ target' = state
    /\ edits' = edits + 1
    /\ UNCHANGED <<contract, initial, timeline, call, page, captured, ruling>>

\* the page registers, removes or redefines target tools
Redefine(surface) ==
    /\ Len(captured) < MaxCaptures /\ surface # page
    /\ page' = surface
    /\ UNCHANGED <<contract, initial, target, timeline, call, captured, edits, ruling>>

DeltaEvent(delta) ==
    [RunEvent("tool_surface_changed", "harness", delta.tool, None) EXCEPT !.kind = delta.kind]

\* what a capture adds to the timeline: itself, and its deltas from the one before
CaptureEvents(surface) ==
    LET deltas == IF captured = <<>> THEN {}
                  ELSE diff_surfaces(captured[Len(captured)], surface)
        listed == SetToSeq(deltas)
    IN <<RunEvent("tool_surface_captured", "harness", None, None)>> \o
       [n \in DOMAIN listed |-> DeltaEvent(listed[n])]

\* SurfaceService.capture, which asks no run's status: verifying and sealed runs
\* go on recording what the page shows
Capture ==
    /\ Len(captured) < MaxCaptures
    /\ append(CaptureEvents(page))
    /\ captured' = Append(captured, page)
    /\ UNCHANGED <<contract, initial, target, call, page, edits, ruling>>

----------------------------------------------------------------------------
\* VerificationService.verify, in the transactions and the observation it takes

\* the gate: no call pending, some action ended; the run is verifying, and its
\* timeline is read
Gate ==
    /\ Open
    /\ \A c \in Calls : call[c].pc \in {"idle", "done"}
    /\ \E i \in DOMAIN timeline : timeline[i].type \in TerminalEvents
    /\ judging' = [gated |-> TRUE, events |-> timeline, shown |-> captured, final |-> None]
    /\ UNCHANGED <<contract, initial, target, timeline, call, page, captured, edits, verdict>>

\* the final observation, under no lock
Observe ==
    /\ judging.gated /\ judging.final = None /\ verdict = None
    /\ judging' = [judging EXCEPT !.final = target]
    /\ UNCHANGED <<contract, initial, target, timeline, call, page, captured, edits, verdict>>

\* _abandon_unobservable: the target did not answer, and the run ends with no verdict
Unobservable ==
    /\ judging.gated /\ judging.final = None /\ verdict = None
    /\ LET finding == [Finding("final_observation", "policy", "observation_unavailable",
                               "critical", None) EXCEPT !.class = "observation_unavailable"]
       IN verdict' = [findings |-> {finding}, row |-> "error", primary |-> None, report |-> None]
    /\ UNCHANGED <<contract, initial, target, timeline, call, page, captured, edits, judging>>

\* the evaluation of what the gate read and what was observed, and _seal: the row and
\* the report together
Seal ==
    /\ judging.gated /\ judging.final # None /\ verdict = None
    /\ LET ev == Evaluation(contract, EffectMap, judging.events, initial, judging.final)
           all == AllFindings(ev)
       IN verdict' = [findings |-> all, row |-> with_recorded_warnings(all),
                      primary |-> primary_failure(all),
                      report |-> compose_outcome_report(ev, judging.events)]
    /\ UNCHANGED <<contract, initial, target, timeline, call, page, captured, edits, judging>>

Next ==
    \/ \E c \in Calls, tool \in Tools, rid \in Requests :
          Start(c, tool, rid) \/ StartProtected(c, tool, rid)
    \/ \E c \in Calls, tool \in Tools : RefuseMismatch(c, tool)
    \/ \E c \in Calls : Approve(c) \/ Refuse(c) \/ Resume(c)
    \/ \E c \in Calls, state \in States, result \in Results : Execute(c, state, result)
    \/ \E c \in Calls, after \in States \cup {None} : Terminate(c, after)
    \/ \E state \in States : Edit(state)
    \/ \E surface \in Surfaces : Redefine(surface)
    \/ Capture
    \/ Gate \/ Observe \/ Unobservable \/ Seal

Spec == Init /\ [][Next]_vars

----------------------------------------------------------------------------
\* Properties

\* the run has a verdict, which an unobservable one has not
Sealed == verdict # None /\ verdict.row # "error"

Policy(type) == {p \in contract.policies : p.type = type}

\* executions that really moved the target
Movers == {c \in Calls : call[c].moved}

\* tools whose code was really asked to run, or would have been
Begun == {c \in Calls : call[c].pc # "idle" /\ call[c].tool # None}

\* leaves held by both snapshots whose value is not the same value
RewrittenLeaves ==
    {l \in DOMAIN initial \cap DOMAIN judging.final : ~SameValue(initial[l], judging.final[l])}

Accounted(path, policy) ==
    \/ covered(path, declared_contract_paths(contract))
    \/ \E c \in Begun : covered(path, EffectMap[call[c].tool])
    \/ covered(path, Range(policy.allow))

\* the two surfaces agree but for descriptions
SameTools(s, t) ==
    DOMAIN s = DOMAIN t /\ \A n \in DOMAIN s : s[n].schema = t[n].schema /\ s[n].hints = t[n].hints

(* A run that is not failed earned it, in what really happened and not only
   in what was recorded: a request id moved the target at most once under an
   idempotent tool, no more executions moved it than the limit, no value was
   rewritten that no term, executed tool or waiver accounts for, and every
   surface captured before the gate offered the armed one's tools, unless the
   contract chose to let some kind of change pass.  A missing observation, a
   tool that lies about itself, a raised call and whatever is recorded or moved
   between the gate and the seal are all among the ways it could be got wrong.
   What is captured from the gate on is recorded and not judged: see
   LateSurfacesJudged. *)
PassIsEarned ==
    Sealed /\ verdict.row # "failed" =>
        /\ \A p \in Policy("idempotent_by_request_id"), rid \in Requests :
              Cardinality({c \in Movers : call[c].tool = p.tool /\ call[c].rid = rid}) <= 1
        /\ \A p \in Policy("maximum_mutations") : Cardinality(Movers) <= p.limit
        /\ \A p \in Policy("no_undeclared_changes"), l \in RewrittenLeaves : Accounted(l, p)
        /\ \A p \in Policy("stable_tool_surface") :
              /\ judging.shown # <<>>
              /\ DefaultFailingKinds \subseteq p.kinds =>
                    \A n \in DOMAIN judging.shown : SameTools(judging.shown[1], judging.shown[n])

(* What a reader of the timeline may take the surface policy for, and the code
   does not give: that a run which passed shows no other tools on its whole
   timeline.  A capture that lands after the gate's read is on it too. *)
LateSurfacesJudged ==
    Sealed /\ verdict.row # "failed" =>
        \A p \in Policy("stable_tool_surface") :
            DefaultFailingKinds \subseteq p.kinds =>
                \A n \in DOMAIN captured : SameTools(captured[1], captured[n])

(* Blame is earned too: a tool named by a false-success, idempotency or
   attributed-cause finding really did it.  The state it left contradicts the
   assertion, one request id really moved the target twice, the action blamed
   for an undeclared change really moved the target; and no call the harness
   gated is ever reported as unconfirmed. *)
BlameIsEarned ==
    Sealed => \A f \in verdict.findings :
        /\ f.class = "false_success_or_state_mismatch" =>
              \E c \in Calls : /\ call[c].ended = f.causal
                               /\ ~evaluate_operator(f.term, initial, call[c].left)
        /\ f.class = "idempotency_violation" /\ f.check = "idempotent_by_request_id" =>
              \E rid \in Requests : Cardinality({c \in Movers : call[c].rid = rid}) > 1
        /\ (/\ f.type = "policy" /\ f.check = "no_undeclared_changes"
            /\ f.cause # None /\ f.cause.kind = "tool_action") =>
              \E c \in Movers : call[c].ended = f.cause.sequence
        /\ f.class # "missing_confirmation"

(* The run's row and its report tell one story: the status the seal writes from
   every finding is the status the report derives from the groups it is handed,
   both name the same failure first, a report that counts no undeclared change
   is not of a run failed for one, and the report's own validator never refuses
   the layers composed for it, which would lose the verdict in mid-seal. *)
RowMatchesReport ==
    Sealed =>
        /\ verdict.row = verdict.report.status
        /\ verdict.report.primary =
              (IF verdict.primary = None THEN None ELSE verdict.primary.class)
        /\ verdict.report.undeclared # None =>
              (verdict.report.undeclared.undeclared > 0 <=>
                 \E f \in verdict.findings : f.class = "undeclared_state_change")
        /\ LayersPermitted(verdict.report.layers)

================================================================================
