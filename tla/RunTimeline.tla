------------------------------- MODULE RunTimeline -------------------------------
(***************************************************************************)
(* How many events a run's timeline holds, and which guidance phase the     *)
(* workspace last recorded.  FR-008 gives a run EVENTS_PER_RUN events; the   *)
(* budget is tested in one place, the start of an invocation, which holds   *)
(* back a reservation for the verdict.  Every other writer of the timeline  *)
(* appends without asking.                                                  *)
(*                                                                          *)
(* The counters are those of the workspace's latest run.  What each event   *)
(* says is left out (RunLifecycle has it); how many each transaction writes *)
(* is exact, a guidance handoff included only when the phase moves.         *)
(***************************************************************************)
EXTENDS Transitions, Integers

CONSTANTS
    EVENTS_PER_RUN,      \* FR-008's ceiling
    Assertions,          \* assertions of the armed contract
    Policies,            \* policies of the armed contract
    Calls,               \* bound: invocations of the run under way at a time
    CaptureLimit         \* bound: events that surface captures write

ASSUME BudgetAssumption ==
    /\ EVENTS_PER_RUN \in Nat
    /\ Assertions \in Nat
    /\ Policies \in Nat
    /\ Calls \in Nat
    /\ CaptureLimit \in Nat

\* contracts/limits.py: at most 25 assertions and 10 policies, against 250 events
ASSUME ContractAssumption == Assertions + Policies + 4 <= EVENTS_PER_RUN

VARIABLES
    status,      \* of the latest run; "none" before the first
    active,      \* workspaces.active_run_id is that run
    phase,       \* the phase of the workspace's latest guidance row
    used,        \* events on the run's timeline
    captured,    \* history: those that surface captures wrote
    calls,       \* invocations dispatched and not yet terminated
    approvals,   \* approved confirmations nobody has resumed
    orphans,     \* invocations whose approval was withdrawn as stale
    ended,       \* terminal invocation events
    failures     \* those that are tool_invocation_failed

timelineVars == <<status, active, phase, used, captured, calls, approvals, orphans, ended, failures>>

counters == <<calls, approvals, orphans, ended, failures>>

WorkspacePhase ==
    RunState \cup {"none", "contract_ready", "eval_ready", "eval_running"}

TimelineTypeOK ==
    /\ status \in RunState \cup {"none"}
    /\ active \in BOOLEAN
    /\ phase \in WorkspacePhase
    /\ used \in Nat
    /\ captured \in Nat
    /\ calls \in Nat
    /\ approvals \in Nat
    /\ orphans \in Nat
    /\ ended \in Nat
    /\ failures \in Nat

TimelineInit ==
    /\ status = "none"
    /\ active = FALSE
    /\ phase = "none"
    /\ used = 0
    /\ captured = 0
    /\ calls = 0
    /\ approvals = 0
    /\ orphans = 0
    /\ ended = 0
    /\ failures = 0

----------------------------------------------------------------------------
\* Budgets and handoffs

ORDINARY_EVENTS_PER_RUN == EVENTS_PER_RUN - 1

VERIFICATION_FIXED_EVENTS == 3

CONFIRMATION_EVENT_RESERVATION == 2

\* _verification_reservation
verification_reservation == VERIFICATION_FIXED_EVENTS + Assertions + Policies

\* slip: the reservation for the verdict is not held back
UnreservedBudget(reserved) == ORDINARY_EVENTS_PER_RUN - used

\* event_budget_remaining
event_budget_remaining(reserved) == ORDINARY_EVENTS_PER_RUN - reserved - used

Live == status \in NONTERMINAL_RUN_STATES

\* invocations with a start event and no terminal one, the pending one aside
UnderWay == calls + approvals + orphans

\* GuidanceRecorder.transition: one event on the timeline when the phase moves
handoff(from, to) == IF from = to THEN 0 ELSE 1

\* the run moves to `to`, which is handed off, and writes `events` besides
MoveTo(to, events) ==
    /\ status' = to
    /\ phase' = to
    /\ used' = used + events + handoff(phase, to)

----------------------------------------------------------------------------
\* ContractService.select records the phase the workspace is in, on no timeline:
\* its run's, or the regression case's if the run has one, or contract_ready
SelectContract ==
    /\ ~ Live
    /\ phase' \in IF ~ active THEN {"contract_ready"}
                  ELSE IF status \in {"failed", "passed_with_warnings"}
                    THEN {status, "eval_ready", "eval_running"}
                  ELSE {status}
    /\ UNCHANGED <<status, active, used, captured, counters>>

\* RunService._write: run_armed, the first snapshot, and the handoff to the agent
Arm ==
    /\ ~ Live
    /\ status' = "armed"
    /\ active' = TRUE
    /\ phase' = "armed"
    /\ used' = 2 + handoff(phase, "armed")
    /\ captured' = 0
    /\ calls' = 0
    /\ approvals' = 0
    /\ orphans' = 0
    /\ ended' = 0
    /\ failures' = 0

\* InvocationService._start, a tool that needs no confirmation
StartPlain ==
    /\ status \in INVOCABLE_RUN_STATES
    /\ event_budget_remaining(verification_reservation) > 0
    /\ UnderWay < Calls
    /\ MoveTo("running", 1)
    /\ calls' = calls + 1
    /\ UNCHANGED <<active, captured, approvals, orphans, ended, failures>>

\* _start of a protected tool: the start, the request and, from armed, two handoffs
StartProtected ==
    /\ status \in INVOCABLE_RUN_STATES
    /\ event_budget_remaining(verification_reservation + CONFIRMATION_EVENT_RESERVATION) > 0
    /\ UnderWay < Calls
    /\ status' = "awaiting_confirmation"
    /\ phase' = "awaiting_confirmation"
    /\ used' = used + handoff(phase, "running") + 2 + 1
    /\ UNCHANGED <<active, captured, counters>>

\* _start, the identity the page presents is not the one captured
IdentityMismatch ==
    /\ status \in INVOCABLE_RUN_STATES
    /\ captured > 0
    /\ event_budget_remaining(verification_reservation) > 0
    /\ MoveTo("running", 1)
    /\ UNCHANGED <<active, captured, counters>>

\* trip_if_event_budget_exhausted: the boundary event, and no handoff
Trip ==
    /\ status \in INVOCABLE_RUN_STATES
    /\ event_budget_remaining(verification_reservation + CONFIRMATION_EVENT_RESERVATION) <= 0
    /\ status' = "error"
    /\ used' = used + 1
    /\ UNCHANGED <<active, phase, captured, counters>>

\* DecisionService._approve
Approve ==
    /\ status = "awaiting_confirmation"
    /\ MoveTo("running", 1)
    /\ approvals' = approvals + 1
    /\ UNCHANGED <<active, captured, calls, orphans, ended, failures>>

\* slip: the run is released and the handoff back to the agent is forgotten
RefuseSilently ==
    /\ status = "awaiting_confirmation"
    /\ status' = "running"
    /\ used' = used + 2
    /\ ended' = ended + 1
    /\ UNCHANGED <<active, phase, captured, calls, approvals, orphans, failures>>

\* DecisionService._refuse: the decision, and the invocation's terminal event
Refuse ==
    /\ status = "awaiting_confirmation"
    /\ MoveTo("running", 2)
    /\ ended' = ended + 1
    /\ UNCHANGED <<active, captured, calls, approvals, orphans, failures>>

\* slip: a resume that does not ask whether an approval is left
ClaimAnyway ==
    /\ status = "running"
    /\ approvals' = approvals - 1
    /\ calls' = calls + 1
    /\ UNCHANGED <<status, active, phase, used, captured, orphans, ended, failures>>

\* _claim_approval writes no event; the call is under way
Claim ==
    /\ approvals > 0
    /\ approvals' = approvals - 1
    /\ calls' = calls + 1
    /\ UNCHANGED <<status, active, phase, used, captured, orphans, ended, failures>>

\* _stale_approval: a cancellation and no terminal event
Stale ==
    /\ approvals > 0
    /\ approvals' = approvals - 1
    /\ orphans' = orphans + 1
    /\ used' = used + 1
    /\ UNCHANGED <<status, active, phase, captured, calls, ended, failures>>

\* _terminate, whatever has become of the run
Terminate ==
    /\ calls > 0
    /\ calls' = calls - 1
    /\ used' = used + 1
    /\ ended' = ended + 1
    /\ failures' \in {failures, failures + 1}
    /\ UNCHANGED <<status, active, phase, captured, approvals, orphans>>

\* SurfaceService.capture: one event for the capture and, after the baseline, one
\* for each delta from the capture before
Capture ==
    /\ status # "none"
    /\ \E deltas \in 0..CaptureLimit :
         /\ captured = 0 => deltas = 0
         /\ captured + 1 + deltas <= CaptureLimit
         /\ used' = used + 1 + deltas
         /\ captured' = captured + 1 + deltas
    /\ UNCHANGED <<status, active, phase, counters>>

\* VerificationGate.begin: an open call and an unspent approval are both a start
\* without a terminal event; the move to verifying is not handed off
Gate ==
    /\ status = "running"
    /\ UnderWay = 0
    /\ ended > 0
    /\ status' = "verifying"
    /\ UNCHANGED <<active, phase, used, captured, counters>>

\* _seal: verification_started, snapshot_captured, one event per finding (each
\* assertion, the trajectory, each policy, each failed call), verification_completed
SealEvents == 2 + Assertions + 1 + Policies + failures + 1

Seal ==
    /\ status = "verifying"
    /\ \E verdict \in VERDICT_RUN_STATES : MoveTo(verdict, SealEvents)
    /\ UNCHANGED <<active, captured, counters>>

\* _abandon_unobservable
Abandon ==
    /\ status = "verifying"
    /\ MoveTo("error", 3)
    /\ UNCHANGED <<active, captured, counters>>

\* WorkspaceService.reset: the pending request and the live run are cancelled on
\* the timeline, the pointer is cleared, and nothing is handed off
Reset ==
    /\ status' = IF Live THEN "cancelled" ELSE status
    /\ active' = FALSE
    /\ used' = used + (IF Live THEN 1 ELSE 0)
                    + (IF status = "awaiting_confirmation" THEN 1 ELSE 0)
    /\ UNCHANGED <<phase, captured, counters>>

TimelineNext ==
    \/ SelectContract \/ Arm
    \/ StartPlain \/ StartProtected \/ IdentityMismatch \/ Trip
    \/ Approve \/ Refuse \/ Claim \/ Stale \/ Terminate
    \/ Capture
    \/ Gate \/ Seal \/ Abandon
    \/ Reset

TimelineSpec == TimelineInit /\ [][TimelineNext]_timelineVars

----------------------------------------------------------------------------
\* Properties

\* What a run is still owed: a pending request its decision, perhaps a terminal
\* event, and the handoff back; an approval its withdrawal or its call's report; a
\* call under way its report.
Owed == calls + approvals + (IF status = "awaiting_confirmation" THEN 3 ELSE 0)

Pending == IF status = "awaiting_confirmation" THEN 1 ELSE 0

\* A live run, with everything it is owed paid, stays within what the last admitted
\* start left it; once the run has ended, within that and what its ending wrote.
\* Surface captures are counted apart: they ask no budget.
BudgetInv ==
    /\ UnderWay + Pending <= Calls
    /\ captured <= used
    /\ Live => used - captured + Owed
                 <= EVENTS_PER_RUN - verification_reservation + Calls + 2
    /\ used - captured + Owed <= EVENTS_PER_RUN + Calls + 4 + failures

\* FR-008's ceiling is overrun by no more than the verdict's two unreserved events,
\* one decision, the calls under way at the last admitted start, the findings of
\* failed calls, and what surface captures wrote.
OverrunBounded == used <= EVENTS_PER_RUN + Calls + 4 + failures + captured

\* Whose turn it is, as last recorded, is where the live run is: no transaction that
\* moves a run between actors forgets the handoff, and none is lost because an
\* earlier run of the workspace ended in the same phase.  The gate alone moves the
\* run silently, to verifying.
GuidanceCurrent ==
    Live => phase = IF status = "verifying" THEN "running" ELSE status
==================================================================================
