------------------------------ MODULE RunLifecycle ------------------------------
(***************************************************************************)
(* The outcome-run lifecycle of one workspace: arming, tool invocation with *)
(* the human confirmation gate, verification, surface capture and reset.    *)
(*                                                                          *)
(* A handler is a coroutine.  It does its database work in transactions     *)
(* (BEGIN IMMEDIATE under the workspace lock, rolled back by an exception)  *)
(* and holds nothing while it reads the clock, observes the target or calls *)
(* the adapter.  So one action here is one transaction, one read or one     *)
(* piece of target I/O, and handlers interleave between them.               *)
(*                                                                          *)
(* A timeline is a set of events: what the code asks of it is which events  *)
(* it holds, and by whom each was appended.  Identifiers are those of the   *)
(* request that made them: an invocation's correlation id and the           *)
(* confirmation it opens are both named by the request that started it.     *)
(***************************************************************************)
EXTENDS Transitions, Integers, FiniteSets

CONSTANTS
    Runs,            \* run ids the workspace may arm
    Requests,        \* invocation requests; also correlation and confirmation ids
    Resets,          \* workspace-reset requests
    Tools,           \* tools the target publishes
    Protected,       \* those the armed contract requires a confirmation for
    Args,            \* argument documents, told apart by arguments_hash
    States,          \* canonical target states, told apart by binding_hash
    Seed,            \* the state the target is reseeded to
    None,            \* no value
    Deciders,        \* bound: decisions under way at a time
    RunCeiling,      \* OUTCOME_RUNS_PER_WORKSPACE
    ArtifactRoom,    \* artifact rows the workspace may still record
    Faults           \* which of "crash" and "lock_timeout" may happen

ASSUME ConstantsAssumption ==
    /\ Protected \subseteq Tools
    /\ Seed \in States
    /\ Deciders \in Nat
    /\ RunCeiling \in Nat
    /\ ArtifactRoom \in Nat
    /\ Faults \subseteq {"crash", "lock_timeout"}

ASSUME NoneAssumption ==
    None \notin Runs \cup Requests \cup Tools \cup Args \cup States

VARIABLES
    status,      \* runs.status; "unarmed" before the row exists, "purged" after
    active,      \* workspaces.active_run_id
    log,         \* the events of each run
    conf,        \* confirmation_requests, one row per request that opened one
    deciding,    \* decisions whose read found the request pending
    req,         \* where each invocation request is, and what it has read
    verif,       \* where each run's verification is, and the events it judges
    reset,       \* where each workspace reset is
    target,      \* the target's canonical state
    granted,     \* history: confirmations a human approved
    mutated      \* history: requests that reached the adapter

vars == <<status, active, log, conf, deciding, req, verif, reset, target, granted, mutated>>

----------------------------------------------------------------------------
\* Records and vocabulary

RunStatus == RunState \cup {"unarmed", "purged"}

TerminalInvocationEvents ==
    {"tool_invocation_completed", "tool_invocation_failed", "tool_invocation_cancelled"}

EventTypes == TerminalInvocationEvents \cup
    {"run_armed", "tool_invocation_started", "tool_identity_mismatch",
     "confirmation_requested", "confirmation_approved", "confirmation_denied",
     "confirmation_cancelled", "confirmation_expired", "resource_limit_exceeded",
     "tool_surface_captured", "verification_started", "verification_completed",
     "run_cancelled"}

Event(type, corr, by) == [type |-> type, corr |-> corr, by |-> by]

Events == [type : EventTypes, corr : Requests \cup {None}, by : Requests \cup {None}]

ConfirmationStatus ==
    {"none", "pending", "approved", "denied", "expired", "cancelled", "consumed", "deleted"}

\* claimer is history: the resume whose conditional update spent the approval
Confirmations ==
    [status : ConfirmationStatus, run : Runs \cup {None}, tool : Tools \cup {None},
     args : Args \cup {None}, binding : States \cup {None}, window : {"open", "lapsed"},
     claimer : Requests \cup {None}]

NoConfirmation ==
    [status |-> "none", run |-> None, tool |-> None, args |-> None, binding |-> None,
     window |-> "open", claimer |-> None]

RequestPoint ==
    {"idle", "find", "observe", "start", "stale", "claim", "dispatch", "terminate", "done"}

RequestRecord ==
    [pc : RequestPoint, run : Runs \cup {None}, tool : Tools \cup {None},
     args : Args \cup {None}, resume : Requests \cup {None}, before : States \cup {None}]

NoRequest ==
    [pc |-> "idle", run |-> None, tool |-> None, args |-> None, resume |-> None,
     before |-> None]

Decisions == {"approved", "denied", "cancelled", "expired"}

\* slip: a refusal recorded under its status instead of its event type
RefusalStatus == [denied |-> "denied", cancelled |-> "cancelled", expired |-> "expired"]

\* _REFUSALS, and the expiry _refuse is also called with
RefusalEvent == [denied |-> "confirmation_denied", cancelled |-> "confirmation_cancelled",
                 expired |-> "confirmation_expired"]

TypeOK ==
    /\ status \in [Runs -> RunStatus]
    /\ active \in Runs \cup {None}
    /\ log \in [Runs -> SUBSET Events]
    /\ conf \in [Requests -> Confirmations]
    /\ deciding \subseteq Requests \X Decisions
    /\ req \in [Requests -> RequestRecord]
    /\ verif \in [Runs -> [pc : {"idle", "capture", "seal", "abandon"}, seen : SUBSET Events]]
    /\ reset \in [Resets -> {"idle", "reseed", "done"}]
    /\ target \in States
    /\ granted \subseteq Requests
    /\ mutated \subseteq Requests

Init ==
    /\ status = [r \in Runs |-> "unarmed"]
    /\ active = None
    /\ log = [r \in Runs |-> {}]
    /\ conf = [q \in Requests |-> NoConfirmation]
    /\ deciding = {}
    /\ req = [q \in Requests |-> NoRequest]
    /\ verif = [r \in Runs |-> [pc |-> "idle", seen |-> {}]]
    /\ reset = [z \in Resets |-> "idle"]
    /\ target = Seed
    /\ granted = {}
    /\ mutated = {}

----------------------------------------------------------------------------
\* What the transactions read

Exists(r) == status[r] \notin {"unarmed", "purged"}

\* EventRepository.append: refused by the foreign key once the run row is gone
append(r, events) == log' = [log EXCEPT ![r] = @ \cup events]

\* the lease FR-039 gives a nonterminal run
HoldsLease(r) == status[r] \in NONTERMINAL_RUN_STATES

\* _invocable_run
invocable_run(r) == status[r] \in INVOCABLE_RUN_STATES

\* correlations with a start event and, so far, no terminal event
InFlight(r) ==
    {c \in Requests :
        /\ \E e \in log[r] : e.type = "tool_invocation_started" /\ e.corr = c
        /\ ~ \E e \in log[r] : e.type \in TerminalInvocationEvents /\ e.corr = c}

PendingOf(r) == {c \in Requests : conf[c].status = "pending" /\ conf[c].run = r}

\* _live_approval: approved and not yet consumed
LiveApprovals(r, tool) ==
    {c \in Requests : conf[c].status = "approved" /\ conf[c].run = r /\ conf[c].tool = tool}

ArtifactRows == Cardinality({r \in Runs : status[r] \in VERDICT_RUN_STATES})

Goto(q, pc) == req' = [req EXCEPT ![q].pc = pc]

----------------------------------------------------------------------------
\* Guards the code writes as one statement, each after the slips that would
\* weaken it

\* slip: the arming transaction looks only at the pointer it is about to move
NoArmedRun == IF active = None THEN TRUE ELSE status[active] # "armed"

\* _require_no_active_run, inside the arming transaction
require_no_active_run == \A r \in Runs : ~ HoldsLease(r)

\* slip: the arguments of a resume are not compared
AnyArguments(c, args) == TRUE

\* _require_approved_arguments: the validated arguments hash to the approved ones
require_approved_arguments(c, args) == conf[c].args = args

\* slip: the claim ignores that the row was spent
ClaimDecided(c) == conf[c].status \in {"approved", "consumed"}

\* claim_approved: UPDATE ... WHERE status = 'approved', won by one caller
claim_approved(c) == conf[c].status = "approved"

\* slip: a decision overwrites a decided request
MarkDecided(c) == conf[c].status \in {"pending", "approved", "denied", "cancelled", "expired"}

\* mark: UPDATE ... WHERE status = 'pending', won by one caller
mark(c) == conf[c].status = "pending"

\* slip: only an unresolved confirmation blocks verification
NothingPending(r) == PendingOf(r) = {}

\* _require_nothing_in_flight
require_nothing_in_flight(r) == InFlight(r) = {} /\ PendingOf(r) = {}

\* _require_a_completed_action
require_a_completed_action(r) == \E e \in log[r] : e.type \in TerminalInvocationEvents

\* slip: the seal is not revalidated after the capture
SealAnything(r, to) == Exists(r)

\* _require_transition_still_legal, with the UPDATE's WHERE status = 'verifying'
require_transition_still_legal(r, to) ==
    Exists(r) /\ status[r] = "verifying" /\ validate_run_transition(status[r], to)

----------------------------------------------------------------------------
\* Arming: the third phase of RunService.arm, one transaction

arm(r) ==
    /\ status[r] = "unarmed"
    /\ require_no_active_run
    /\ Cardinality({p \in Runs : Exists(p)}) < RunCeiling
    /\ status' = [status EXCEPT ![r] = "armed"]
    /\ active' = r
    /\ append(r, {Event("run_armed", None, None)})
    /\ UNCHANGED <<conf, deciding, req, verif, reset, target, granted, mutated>>

----------------------------------------------------------------------------
\* Invocation: the steps of InvocationService.invoke

\* step 1, the read: the run must be open to actions
InvokeRead(q, r, tool, args) ==
    /\ req[q].pc = "idle"
    /\ invocable_run(r)
    /\ req' = [req EXCEPT ![q] = [NoRequest EXCEPT
                    !.pc = IF tool \in Protected THEN "find" ELSE "observe",
                    !.run = r, !.tool = tool, !.args = args]]
    /\ UNCHANGED <<status, active, log, conf, deciding, verif, reset, target, granted, mutated>>

\* the second read: a protected tool that holds a live approval is a resume.
\* Of several live approvals the code takes the latest decided; the model takes
\* any of them.  The start event _resumed_start looks up was committed with the
\* confirmation, so that read finds it.
FindApproval(q) ==
    /\ req[q].pc = "find"
    /\ LET live == LiveApprovals(req[q].run, req[q].tool)
       IN  \/ live = {} /\ Goto(q, "observe")
           \/ \E c \in live :
                IF require_approved_arguments(c, req[q].args)
                  THEN req' = [req EXCEPT ![q] = [@ EXCEPT !.pc = "observe", !.resume = c]]
                  ELSE Goto(q, "done")
    /\ UNCHANGED <<status, active, log, conf, deciding, verif, reset, target, granted, mutated>>

\* step 2: capture the state before the call, and revalidate a resume against it
Observe(q) ==
    /\ req[q].pc = "observe"
    /\ LET c == req[q].resume
       IN  req' = [req EXCEPT ![q] = [@ EXCEPT
                      !.before = target,
                      !.pc = IF c = None THEN "start"
                             ELSE IF conf[c].binding # target THEN "stale"
                             ELSE "claim"]]
    /\ UNCHANGED <<status, active, log, conf, deciding, verif, reset, target, granted, mutated>>

\* the capture raises, and nothing has been written
ObserveFails(q) ==
    /\ req[q].pc = "observe"
    /\ Goto(q, "done")
    /\ UNCHANGED <<status, active, log, conf, deciding, verif, reset, target, granted, mutated>>

\* _stale_approval: cancel the approval and say so, unless another resume spent it
StaleApproval(q) ==
    LET c == req[q].resume IN
    /\ req[q].pc = "stale"
    /\ IF conf[c].status = "approved"
         THEN /\ conf' = [conf EXCEPT ![c].status = "cancelled"]
              /\ append(req[q].run, {Event("confirmation_cancelled", c, q)})
         ELSE UNCHANGED <<conf, log>>
    /\ Goto(q, "done")
    /\ UNCHANGED <<status, active, deciding, verif, reset, target, granted, mutated>>

\* _start, the run no longer accepting actions
StartRefused(q) ==
    /\ req[q].pc = "start"
    /\ ~ invocable_run(req[q].run)
    /\ Goto(q, "done")
    /\ UNCHANGED <<status, active, log, conf, deciding, verif, reset, target, granted, mutated>>

\* _start, FR-008's boundary: the run goes to error and says why
TripEventBudget(q) ==
    LET r == req[q].run IN
    /\ req[q].pc = "start"
    /\ invocable_run(r)
    /\ status' = [status EXCEPT ![r] = "error"]
    /\ append(r, {Event("resource_limit_exceeded", None, None)})
    /\ Goto(q, "done")
    /\ UNCHANGED <<active, conf, deciding, verif, reset, target, granted, mutated>>

\* _start, the presented identity disagrees with the captured baseline
IdentityMismatch(q) ==
    LET r == req[q].run IN
    /\ req[q].pc = "start"
    /\ invocable_run(r)
    /\ \E e \in log[r] : e.type = "tool_surface_captured"
    /\ status' = [status EXCEPT ![r] = "running"]
    /\ append(r, {Event("tool_identity_mismatch", q, q)})
    /\ Goto(q, "done")
    /\ UNCHANGED <<active, conf, deciding, verif, reset, target, granted, mutated>>

\* _start of a tool that needs no confirmation
StartPlain(q) ==
    LET r == req[q].run IN
    /\ req[q].pc = "start"
    /\ req[q].tool \notin Protected
    /\ invocable_run(r)
    /\ status' = [status EXCEPT ![r] = "running"]
    /\ append(r, {Event("tool_invocation_started", q, q)})
    /\ Goto(q, "dispatch")
    /\ UNCHANGED <<active, conf, deciding, verif, reset, target, granted, mutated>>

\* _start of a protected tool: the start event, the pending confirmation bound to
\* what was observed, and the pause, in one transaction
StartProtected(q) ==
    LET r == req[q].run IN
    /\ req[q].pc = "start"
    /\ req[q].tool \in Protected
    /\ invocable_run(r)
    /\ status' = [status EXCEPT ![r] = "awaiting_confirmation"]
    /\ conf' = [conf EXCEPT ![q] = [NoConfirmation EXCEPT
                    !.status = "pending", !.run = r, !.tool = req[q].tool,
                    !.args = req[q].args, !.binding = req[q].before]]
    /\ append(r, {Event("tool_invocation_started", q, q),
                  Event("confirmation_requested", q, q)})
    /\ Goto(q, "done")
    /\ UNCHANGED <<active, deciding, verif, reset, target, granted, mutated>>

\* _claim_approval: the last step before a resume reaches the adapter
ClaimApproval(q) ==
    LET c == req[q].resume IN
    /\ req[q].pc = "claim"
    /\ IF claim_approved(c)
         THEN /\ conf' = [conf EXCEPT ![c] = [@ EXCEPT !.status = "consumed", !.claimer = q]]
              /\ Goto(q, "dispatch")
         ELSE /\ Goto(q, "done")
              /\ UNCHANGED conf
    /\ UNCHANGED <<status, active, log, deciding, verif, reset, target, granted, mutated>>

\* steps 4 and 5: adapter.execute, whatever it does to the target
Dispatch(q) ==
    /\ req[q].pc = "dispatch"
    /\ target' \in States
    /\ mutated' = mutated \cup {q}
    /\ Goto(q, "terminate")
    /\ UNCHANGED <<status, active, log, conf, deciding, verif, reset, granted>>

\* the correlation a request writes its events under
Corr(q) == IF req[q].resume = None THEN q ELSE req[q].resume

\* slip: a terminal event only for a run that is still open
TerminateIfOpen(q) ==
    /\ req[q].pc = "terminate"
    /\ IF invocable_run(req[q].run)
         THEN append(req[q].run, {Event("tool_invocation_completed", Corr(q), q)})
         ELSE UNCHANGED log
    /\ Goto(q, "done")
    /\ UNCHANGED <<status, active, conf, deciding, verif, reset, target, granted, mutated>>

\* step 6, _terminate: one terminal event, whatever the run's status is by now
Terminate(q) ==
    /\ req[q].pc = "terminate"
    /\ IF Exists(req[q].run)
         THEN \E outcome \in {"tool_invocation_completed", "tool_invocation_failed"} :
                append(req[q].run, {Event(outcome, Corr(q), q)})
         ELSE UNCHANGED log
    /\ Goto(q, "done")
    /\ UNCHANGED <<status, active, conf, deciding, verif, reset, target, granted, mutated>>

----------------------------------------------------------------------------
\* Decisions: DecisionService.decide and expire_lapsed

\* the confirmation's timeout passes
Lapse(c) ==
    /\ conf[c].status \in {"pending", "approved"}
    /\ conf[c].window = "open"
    /\ conf' = [conf EXCEPT ![c].window = "lapsed"]
    /\ UNCHANGED <<status, active, log, deciding, req, verif, reset, target, granted, mutated>>

\* decide, the read: a lapsed request is expired whatever was chosen
DecideRead(c, choice) ==
    /\ conf[c].status = "pending"
    /\ Cardinality(deciding) < Deciders
    /\ deciding' = deciding \cup {<<c, IF conf[c].window = "lapsed" THEN "expired" ELSE choice>>}
    /\ UNCHANGED <<status, active, log, conf, req, verif, reset, target, granted, mutated>>

\* expire_lapsed, the read a polling client makes
PollExpiry(c) ==
    /\ conf[c].status = "pending"
    /\ conf[c].window = "lapsed"
    /\ Cardinality(deciding) < Deciders
    /\ deciding' = deciding \cup {<<c, "expired">>}
    /\ UNCHANGED <<status, active, log, conf, req, verif, reset, target, granted, mutated>>

\* slip: a refusal forgets to let the run go
KeepWaiting(r) == UNCHANGED status

\* _release: out of awaiting_confirmation, if the run is still there
release(r) ==
    status' = IF status[r] = "awaiting_confirmation"
                THEN [status EXCEPT ![r] = "running"] ELSE status

\* _approve: the decision, recorded before anything is dispatched
Approve(c) ==
    /\ mark(c)
    /\ conf' = [conf EXCEPT ![c].status = "approved"]
    /\ granted' = granted \cup {c}
    /\ append(conf[c].run, {Event("confirmation_approved", c, None)})
    /\ release(conf[c].run)

\* _refuse: the safe block is the invocation's terminal event
Refuse(c, decision) ==
    /\ mark(c)
    /\ conf' = [conf EXCEPT ![c].status = decision]
    /\ append(conf[c].run, {Event(RefusalEvent[decision], c, None),
                            Event("tool_invocation_cancelled", c, None)})
    /\ release(conf[c].run)
    /\ UNCHANGED granted

\* the deciding transaction; the loser of a race changes nothing
Decide(c, decision) ==
    /\ <<c, decision>> \in deciding
    /\ deciding' = deciding \ {<<c, decision>>}
    /\ \/ decision = "approved" /\ Approve(c)
       \/ decision # "approved" /\ Refuse(c, decision)
       \/ ~ mark(c) /\ UNCHANGED <<status, conf, log, granted>>
    /\ UNCHANGED <<active, req, verif, reset, target, mutated>>

----------------------------------------------------------------------------
\* Verification: VerificationGate.begin and VerificationService.verify

\* the gate's transaction, which also reads the timeline that will be judged
VerifyGate(r) ==
    /\ status[r] = "running"
    /\ require_nothing_in_flight(r)
    /\ require_a_completed_action(r)
    /\ status' = [status EXCEPT ![r] = "verifying"]
    /\ verif' = [verif EXCEPT ![r] = [pc |-> "capture", seen |-> log[r]]]
    /\ UNCHANGED <<active, log, conf, deciding, req, reset, target, granted, mutated>>

\* the final observation, taken with nothing held; or it could not be taken
VerifyCapture(r) ==
    /\ verif[r].pc = "capture"
    /\ \E next \in {"seal", "abandon"} : verif' = [verif EXCEPT ![r].pc = next]
    /\ UNCHANGED <<status, active, log, conf, deciding, req, reset, target, granted, mutated>>

\* both endings write one transaction; only the seal also records an artifact,
\* and a full workspace rolls the verdict back with it
Conclude(r, from, verdicts, room) ==
    /\ verif[r].pc = from
    /\ verif' = [verif EXCEPT ![r].pc = "idle"]
    /\ \E verdict \in verdicts :
         IF require_transition_still_legal(r, verdict) /\ room
           THEN /\ status' = [status EXCEPT ![r] = verdict]
                /\ append(r, {Event("verification_started", None, None),
                              Event("verification_completed", None, None)})
           ELSE UNCHANGED <<status, log>>
    /\ UNCHANGED <<active, conf, deciding, req, reset, target, granted, mutated>>

\* _seal with the artifact row
Seal(r) == Conclude(r, "seal", VERDICT_RUN_STATES, ArtifactRows < ArtifactRoom)

\* slip: the observation failure escapes, as it would unwrapped
EscapingFailure(r) ==
    /\ verif[r].pc = "abandon"
    /\ verif' = [verif EXCEPT ![r].pc = "idle"]
    /\ UNCHANGED <<status, active, log, conf, deciding, req, reset, target, granted, mutated>>

\* _abandon_unobservable
Abandon(r) == Conclude(r, "abandon", {"error"}, TRUE)

----------------------------------------------------------------------------
\* Surface capture, reset, and what goes wrong around them

\* SurfaceService.capture: the run need only exist
CaptureSurface(r) ==
    /\ Exists(r)
    /\ append(r, {Event("tool_surface_captured", None, None)})
    /\ UNCHANGED <<status, active, conf, deciding, req, verif, reset, target, granted, mutated>>

\* WorkspaceService.reset, one transaction: pending confirmations and live runs
\* are cancelled, decided confirmations stay; a purge then deletes every
\* terminal run with its events and confirmations
ResetWorkspace(z, purge) ==
    LET Pending(c) == conf[c].status = "pending"
        statusAfter(r) == IF HoldsLease(r) THEN "cancelled" ELSE status[r]
        Purged(r) == purge /\ Exists(r) /\ statusAfter(r) \in TERMINAL_RUN_STATES
    IN
    /\ reset[z] = "idle"
    /\ status' = [r \in Runs |-> IF Purged(r) THEN "purged" ELSE statusAfter(r)]
    /\ conf' = [c \in Requests |->
                  IF conf[c].status # "none" /\ Purged(conf[c].run)
                    THEN [conf[c] EXCEPT !.status = "deleted"]
                  ELSE IF Pending(c) THEN [conf[c] EXCEPT !.status = "cancelled"]
                  ELSE conf[c]]
    /\ log' = [r \in Runs |->
                 IF Purged(r) THEN {}
                 ELSE log[r]
                   \cup {Event("confirmation_cancelled", c, None) :
                           c \in {d \in Requests : Pending(d) /\ conf[d].run = r}}
                   \cup (IF HoldsLease(r) THEN {Event("run_cancelled", None, None)} ELSE {})]
    /\ active' = None
    /\ reset' = [reset EXCEPT ![z] = "reseed"]
    /\ UNCHANGED <<deciding, req, verif, target, granted, mutated>>

\* ScenarioPreparer.prepare, after the reset committed; it may be skipped or fail
Reseed(z) ==
    /\ reset[z] = "reseed"
    /\ reset' = [reset EXCEPT ![z] = "done"]
    /\ target' \in {target, Seed}
    /\ UNCHANGED <<status, active, log, conf, deciding, req, verif, granted, mutated>>

\* locks.hold times out in front of a transaction: the handler raises
LockTimeout(q) ==
    /\ "lock_timeout" \in Faults
    /\ req[q].pc \in {"start", "stale", "claim", "terminate"}
    /\ Goto(q, "done")
    /\ UNCHANGED <<status, active, log, conf, deciding, verif, reset, target, granted, mutated>>

\* the process stops and is started again: what is committed stays, every
\* handler under way is gone, and nothing is recovered at start-up
Crash ==
    /\ "crash" \in Faults
    /\ req' = [q \in Requests |-> IF req[q].pc = "idle" THEN req[q]
                                  ELSE [req[q] EXCEPT !.pc = "done"]]
    /\ deciding' = {}
    /\ verif' = [r \in Runs |-> [verif[r] EXCEPT !.pc = "idle"]]
    /\ reset' = [z \in Resets |-> IF reset[z] = "reseed" THEN "done" ELSE reset[z]]
    /\ UNCHANGED <<status, active, log, conf, target, granted, mutated>>

----------------------------------------------------------------------------
Invoke(q) ==
    \/ \E r \in Runs, tool \in Tools, args \in Args : InvokeRead(q, r, tool, args)
    \/ FindApproval(q)
    \/ Observe(q)
    \/ ObserveFails(q)
    \/ StaleApproval(q)
    \/ StartRefused(q)
    \/ TripEventBudget(q)
    \/ IdentityMismatch(q)
    \/ StartPlain(q)
    \/ StartProtected(q)
    \/ ClaimApproval(q)
    \/ Dispatch(q)
    \/ Terminate(q)
    \/ LockTimeout(q)

Confirm(c) ==
    \/ Lapse(c)
    \/ \E choice \in Decisions \ {"expired"} : DecideRead(c, choice)
    \/ PollExpiry(c)
    \/ \E decision \in Decisions : Decide(c, decision)

Verify(r) == VerifyGate(r) \/ VerifyCapture(r) \/ Seal(r) \/ Abandon(r)

Next ==
    \/ \E r \in Runs : arm(r) \/ Verify(r) \/ CaptureSurface(r)
    \/ \E q \in Requests : Invoke(q) \/ Confirm(q)
    \/ \E z \in Resets : (\E purge \in BOOLEAN : ResetWorkspace(z, purge)) \/ Reseed(z)
    \/ Crash

Spec == Init /\ [][Next]_vars
----------------------------------------------------------------------------
\* Safety

\* A protected tool reaches the adapter only on a human's approval of that run,
\* tool and argument set, given for the very state the resume observed before it
\* dispatched, and only through the claim that spent that approval.
ConsentBound ==
    \A q \in mutated : req[q].tool \in Protected =>
        /\ req[q].resume \in granted
        /\ LET c == conf[req[q].resume]
           IN  /\ <<c.run, c.tool, c.args>> = <<req[q].run, req[q].tool, req[q].args>>
               /\ c.binding = req[q].before
               /\ c.claimer = q

\* Between its claim and its terminal event, or with its call already made
Committed(q) == req[q].pc \in {"dispatch", "terminate"} \/ q \in mutated

\* What a confirmation row says of its past: it is opened by the last step of the
\* request it is named after, approved by a human, claimed when it is consumed.
RowInv(c) ==
    /\ req[c].pc # "done" => conf[c] = NoConfirmation
    /\ conf[c].status = "approved" => c \in granted
    /\ conf[c].claimer # None => conf[c].status \in {"consumed", "deleted"}
    /\ c \in granted => conf[c].status \notin {"none", "pending"}

\* What a request that holds an approval knows of it: the row it found was approved
\* for its run, tool and arguments; once it claims, for the state it observed too.
RequestInv(q) ==
    /\ req[q].pc \in {"idle", "find", "start"} => req[q].resume = None
    /\ req[q].pc \in {"stale", "claim"} => req[q].resume # None
    /\ q \in mutated => req[q].pc \in {"terminate", "done"}
    /\ req[q].resume # None =>
         /\ req[q].resume \in granted
         /\ conf[req[q].resume].run = req[q].run
         /\ conf[req[q].resume].tool = req[q].tool
         /\ conf[req[q].resume].args = req[q].args
         /\ req[q].pc = "claim" \/ Committed(q) => conf[req[q].resume].binding = req[q].before
         /\ Committed(q) => conf[req[q].resume].claimer = q
    /\ Committed(q) /\ req[q].tool \in Protected => req[q].resume # None

\* The inductive invariant behind ConsentBound and ApprovedOnce.
ConsentInv == \A q \in Requests : RowInv(q) /\ RequestInv(q)

\* One approval stands behind one mutation, however many resumes race for it.
ApprovedOnce ==
    \A p, q \in mutated :
        req[p].resume # None /\ req[p].resume = req[q].resume => p = q

\* Every path of an invocation converges on at most one terminal event: no
\* correlation is closed twice, by a resume and a refusal or by two resumes.
OneTerminal ==
    \A r \in Runs : \A d, e \in log[r] :
        d.type \in TerminalInvocationEvents /\ e.type \in TerminalInvocationEvents
            /\ d.corr = e.corr => d = e

\* At most one run holds the lease, and it is the one the workspace points at.
OneLiveRun == \A r \in Runs : HoldsLease(r) => active = r

\* While a verdict is being reached, and once it has been, no request of that
\* run is still between its start and its terminal event, and none can spend
\* an approval: the final observation describes one settled moment.
QuietVerdict ==
    \A r \in Runs : status[r] \in {"verifying"} \cup VERDICT_RUN_STATES =>
        /\ \A tool \in Tools : LiveApprovals(r, tool) = {}
        /\ \A q \in Requests :
             req[q].run = r => req[q].pc \notin {"dispatch", "terminate"}

\* A run waits for a human exactly while one of its confirmations is pending,
\* and never on two at once.
AwaitingOne ==
    \A r \in Runs : Cardinality(PendingOf(r)) =
        (IF status[r] = "awaiting_confirmation" THEN 1 ELSE 0)

\* What the row, the confirmations, the requests in flight and the timeline say of a
\* run is one story: each call is closed once, the run waits for exactly the
\* confirmation that is pending, and nothing of it moves under its verdict.
RunSettled == OneTerminal /\ AwaitingOne /\ QuietVerdict

\* A verdict is reached only out of verifying, and no terminal run moves again,
\* not even under a verification that was overtaken by a reset: what is left to
\* it is to be purged.
VerdictsFinal ==
    [][\A r \in Runs :
        /\ status[r] \in TERMINAL_RUN_STATES => status'[r] \in {status[r], "purged"}
        /\ status[r] # status'[r] /\ status'[r] \in VERDICT_RUN_STATES
             => status[r] = "verifying" /\ log[r] \cap log'[r] = log[r]]_vars

----------------------------------------------------------------------------
\* Liveness.  A handler that was accepted runs to its end (asyncio schedules
\* every ready task), the clock advances, and the page that shows a run polls it.

InvokeStep(q) ==
    \/ FindApproval(q) \/ Observe(q) \/ ObserveFails(q) \/ StaleApproval(q)
    \/ StartRefused(q) \/ TripEventBudget(q) \/ IdentityMismatch(q)
    \/ StartPlain(q) \/ StartProtected(q)
    \/ ClaimApproval(q) \/ Dispatch(q) \/ Terminate(q)

Fairness ==
    /\ \A q \in Requests :
         /\ WF_vars(InvokeStep(q))
         /\ WF_vars(Lapse(q))
         /\ WF_vars(PollExpiry(q))
         /\ WF_vars(\E decision \in Decisions : Decide(q, decision))
    /\ \A r \in Runs : WF_vars(VerifyCapture(r) \/ Seal(r) \/ Abandon(r))
    /\ \A z \in Resets : WF_vars(Reseed(z))

FairSpec == Spec /\ Fairness

\* No run waits forever on a human: a decision, a polled expiry or a reset ends it.
DecisionArrives ==
    \A r \in Runs : status[r] = "awaiting_confirmation" ~> status[r] # "awaiting_confirmation"

\* No run stays in verifying, the state no request but a reset can leave.
VerificationEnds == \A r \in Runs : status[r] = "verifying" ~> status[r] # "verifying"

\* A call that is about to reach the adapter is reported on its run's timeline,
\* unless a purge removed the timeline.
DispatchReported ==
    \A q \in Requests : req[q].pc = "dispatch" ~>
        \E r \in Runs :
            /\ req[q].run = r
            /\ \/ status[r] = "purged"
               \/ \E e \in log[r] :
                    e.type \in TerminalInvocationEvents /\ e.corr = Corr(q) /\ e.by = q

----------------------------------------------------------------------------
\* What comments and docs say of the lifecycle and the code does not keep

\* invocation_service.py: "every one of those paths converges on a single terminal
\* append".  On a live run, an invocation whose consent was refused or withdrawn
\* has its terminal event.
WithdrawnCallsClosed ==
    \A c \in Requests :
        conf[c].status \in {"denied", "expired", "cancelled"} /\ HoldsLease(conf[c].run)
            => c \notin InFlight(conf[c].run)

\* limits.py, FR-008: "atomically move the active run to `error`, ..., reject
\* further target actions".  Nothing is dispatched for a run that is in error
\* when its approval is claimed.
StoppedRunRefusesActions ==
    [][\A c \in Requests : conf[c].status = "approved" /\ conf'[c].status = "consumed" =>
        status[conf[c].run] # "error"]_vars

\* memory/constitution.md: a confirmation is "bound to the workspace, run, action,
\* arguments, and expiry".  No approval is spent after its window closed.
ApprovalUnexpired ==
    [][\A c \in Requests : conf[c].status = "approved" /\ conf'[c].status = "consumed" =>
        conf[c].window = "open"]_vars

==================================================================================
