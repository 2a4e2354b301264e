--------------------------- MODULE RunLifecycleProofs ---------------------------
(***************************************************************************)
(* Proofs about RunLifecycle, for any sets of runs, requests, tools,        *)
(* arguments and target states: its types, what consent is bound to, the    *)
(* workspace's lease, the refinement of ApproveOnce, and what is settled    *)
(* when a run has its verdict.                                              *)
(***************************************************************************)
EXTENDS RunRefinesApproveOnce, FiniteSetTheorems, TLAPS

\* An event of the vocabulary, correlated and attributed to requests or to nobody,
\* is an event a timeline may hold.
LEMMA EventIsTyped ==
    ASSUME NEW type \in EventTypes, NEW c \in Requests \cup {None},
           NEW by \in Requests \cup {None}
    PROVE  Event(type, c, by) \in Events
  BY DEF Event, Events

\* EventRepository.append keeps timelines typed when what it appends is.
LEMMA AppendTyped ==
    ASSUME log \in [Runs -> SUBSET Events], NEW r, NEW E \in SUBSET Events, append(r, E)
    PROVE  log' \in [Runs -> SUBSET Events]
  BY DEF append

\* Moving a request to another point of the handler keeps its record typed.
LEMMA GotoTyped ==
    ASSUME req \in [Requests -> RequestRecord], NEW q \in Requests,
           NEW pc \in RequestPoint, Goto(q, pc)
    PROVE  req' \in [Requests -> RequestRecord]
  BY DEF Goto, RequestRecord

\* The updates the transactions make to a confirmation row keep it typed.
LEMMA ConfirmationTyped ==
    ASSUME NEW c \in Confirmations, NEW s \in ConfirmationStatus, NEW q \in Requests
    PROVE  /\ [c EXCEPT !.status = s] \in Confirmations
           /\ [c EXCEPT !.window = "lapsed"] \in Confirmations
           /\ [c EXCEPT !.status = s, !.claimer = q] \in Confirmations
<1>1. [c EXCEPT !.status = s] \in Confirmations
  BY DEF Confirmations
<1>2. [c EXCEPT !.window = "lapsed"] \in Confirmations
  BY DEF Confirmations
<1>3. \A d \in Confirmations : [d EXCEPT !.claimer = q] \in Confirmations
  BY DEF Confirmations
<1> QED BY <1>1, <1>2, <1>3

\* The updates a handler makes to its own record keep it typed.
LEMMA RequestTyped ==
    ASSUME NEW rec \in RequestRecord, NEW pc \in RequestPoint, NEW c \in Requests,
           NEW state \in States
    PROVE  /\ [rec EXCEPT !.pc = pc] \in RequestRecord
           /\ [rec EXCEPT !.pc = pc, !.resume = c] \in RequestRecord
           /\ [rec EXCEPT !.before = state, !.pc = pc] \in RequestRecord
<1>1. \A d \in RequestRecord : [d EXCEPT !.pc = pc] \in RequestRecord
  BY DEF RequestRecord
<1>2. \A d \in RequestRecord : [d EXCEPT !.resume = c] \in RequestRecord
  BY DEF RequestRecord
<1>3. [rec EXCEPT !.before = state] \in RequestRecord
  BY DEF RequestRecord
<1> QED BY <1>1, <1>2, <1>3

\* The states the lifecycle writes are states of the table.
LEMMA StatusesTyped ==
    {"armed", "running", "awaiting_confirmation", "verifying", "error", "cancelled", "purged"}
        \cup VERDICT_RUN_STATES \subseteq RunStatus
  BY DEF RunStatus, RunState, RUN_TRANSITIONS, VERDICT_RUN_STATES

\* The type invariant is kept by every step.
LEMMA TypeStep == TypeOK /\ [Next]_vars => TypeOK'
<1> SUFFICES ASSUME TypeOK, [Next]_vars PROVE TypeOK'
  OBVIOUS
<1> USE ConstantsAssumption DEF TypeOK
<1>1. ASSUME NEW r \in Runs, arm(r) PROVE TypeOK'
  <2>1. Event("run_armed", None, None) \in Events
    BY EventIsTyped DEF EventTypes
  <2>2. log' \in [Runs -> SUBSET Events]
    BY <1>1, <2>1, AppendTyped DEF arm
  <2> QED BY <1>1, <2>2, StatusesTyped DEF arm
<1>2. ASSUME NEW q \in Requests, Invoke(q) PROVE TypeOK'
  <2>1. ASSUME NEW r \in Runs, NEW tool \in Tools, NEW args \in Args,
               InvokeRead(q, r, tool, args)
        PROVE TypeOK'
    BY <2>1 DEF InvokeRead, NoRequest, RequestRecord, RequestPoint
  <2>2. CASE FindApproval(q)
    <3>1. CASE Goto(q, "observe") \/ Goto(q, "done")
      <4>1. req' \in [Requests -> RequestRecord]
        BY <3>1, GotoTyped DEF RequestPoint
      <4> QED BY <2>2, <4>1 DEF FindApproval
    <3>2. ASSUME NEW c \in Requests,
                 req' = [req EXCEPT ![q] = [@ EXCEPT !.pc = "observe", !.resume = c]]
          PROVE TypeOK'
      <4>1. req' \in [Requests -> RequestRecord]
        BY <3>2, RequestTyped DEF RequestPoint
      <4> QED BY <2>2, <4>1 DEF FindApproval
    <3> QED BY <2>2, <3>1, <3>2 DEF FindApproval, LiveApprovals
  <2>3. CASE Observe(q)
    <3>1. req' \in [Requests -> RequestRecord]
      BY <2>3, RequestTyped DEF Observe, RequestPoint
    <3> QED BY <2>3, <3>1 DEF Observe
  <2>4. CASE ObserveFails(q) \/ StartRefused(q) \/ LockTimeout(q)
    <3>1. Goto(q, "done")
      BY <2>4 DEF ObserveFails, StartRefused, LockTimeout
    <3>2. req' \in [Requests -> RequestRecord]
      BY <3>1, GotoTyped DEF RequestPoint
    <3> QED BY <2>4, <3>2 DEF ObserveFails, StartRefused, LockTimeout
  <2>5. CASE StaleApproval(q)
    <3>1. req' \in [Requests -> RequestRecord]
      BY <2>5, GotoTyped DEF StaleApproval, RequestPoint
    <3>2. conf' \in [Requests -> Confirmations]
      BY <2>5 DEF StaleApproval, Confirmations, ConfirmationStatus
    <3>3. Event("confirmation_cancelled", req[q].resume, q) \in Events
      BY EventIsTyped DEF EventTypes, RequestRecord
    <3>4. log' \in [Runs -> SUBSET Events]
      BY <2>5, <3>3, AppendTyped DEF StaleApproval
    <3> QED BY <2>5, <3>1, <3>2, <3>4 DEF StaleApproval
  <2>6. CASE TripEventBudget(q) \/ IdentityMismatch(q) \/ StartPlain(q)
    <3>1. req' \in [Requests -> RequestRecord]
      BY <2>6, GotoTyped DEF TripEventBudget, IdentityMismatch, StartPlain, RequestPoint
    <3>2. /\ Event("resource_limit_exceeded", None, None) \in Events
          /\ Event("tool_identity_mismatch", q, q) \in Events
          /\ Event("tool_invocation_started", q, q) \in Events
      BY EventIsTyped DEF EventTypes
    <3>3. log' \in [Runs -> SUBSET Events]
      BY <2>6, <3>2, AppendTyped DEF TripEventBudget, IdentityMismatch, StartPlain
    <3>4. status' \in [Runs -> RunStatus]
      BY <2>6, StatusesTyped DEF TripEventBudget, IdentityMismatch, StartPlain
    <3> QED BY <2>6, <3>1, <3>3, <3>4 DEF TripEventBudget, IdentityMismatch, StartPlain
  <2>7. CASE StartProtected(q)
    <3>1. req' \in [Requests -> RequestRecord]
      BY <2>7, GotoTyped DEF StartProtected, RequestPoint
    <3>2. conf' \in [Requests -> Confirmations]
      BY <2>7 DEF StartProtected, NoConfirmation, Confirmations, ConfirmationStatus,
                  RequestRecord
    <3>3. /\ Event("tool_invocation_started", q, q) \in Events
          /\ Event("confirmation_requested", q, q) \in Events
      BY EventIsTyped DEF EventTypes
    <3>4. log' \in [Runs -> SUBSET Events]
      BY <2>7, <3>3, AppendTyped DEF StartProtected
    <3>5. status' \in [Runs -> RunStatus]
      BY <2>7, StatusesTyped DEF StartProtected
    <3> QED BY <2>7, <3>1, <3>2, <3>4, <3>5 DEF StartProtected
  <2>8. CASE ClaimApproval(q)
    <3>1. req' \in [Requests -> RequestRecord]
      BY <2>8, GotoTyped DEF ClaimApproval, RequestPoint
    <3>2. conf' \in [Requests -> Confirmations]
      <4>1. \A c \in Requests :
              [conf[c] EXCEPT !.status = "consumed", !.claimer = q] \in Confirmations
        BY ConfirmationTyped DEF ConfirmationStatus
      <4>2. \/ conf' = conf
            \/ conf' = [conf EXCEPT ![req[q].resume] =
                            [@ EXCEPT !.status = "consumed", !.claimer = q]]
        BY <2>8 DEF ClaimApproval
      <4>3. CASE req[q].resume \in Requests
        BY <4>1, <4>2, <4>3
      <4>4. CASE req[q].resume \notin Requests
        BY <4>2, <4>4
      <4> QED BY <4>3, <4>4
    <3> QED BY <2>8, <3>1, <3>2 DEF ClaimApproval
  <2>9. CASE Dispatch(q)
    <3>1. req' \in [Requests -> RequestRecord]
      BY <2>9, GotoTyped DEF Dispatch, RequestPoint
    <3> QED BY <2>9, <3>1 DEF Dispatch
  <2>10. CASE Terminate(q)
    <3>1. req' \in [Requests -> RequestRecord]
      BY <2>10, GotoTyped DEF Terminate, RequestPoint
    <3>2. Corr(q) \in Requests \cup {None}
      BY DEF Corr, RequestRecord
    <3>3. \A outcome \in {"tool_invocation_completed", "tool_invocation_failed"} :
            Event(outcome, Corr(q), q) \in Events
      BY <3>2, EventIsTyped DEF EventTypes, TerminalInvocationEvents
    <3>4. log' \in [Runs -> SUBSET Events]
      BY <2>10, <3>3, AppendTyped DEF Terminate
    <3> QED BY <2>10, <3>1, <3>4 DEF Terminate
  <2> QED
    BY <1>2, <2>1, <2>2, <2>3, <2>4, <2>5, <2>6, <2>7, <2>8, <2>9, <2>10 DEF Invoke
<1>3. ASSUME NEW c \in Requests, Confirm(c) PROVE TypeOK'
  <2>1. CASE Lapse(c)
    <3>1. conf' \in [Requests -> Confirmations]
      BY <2>1, ConfirmationTyped DEF Lapse, ConfirmationStatus
    <3> QED BY <2>1, <3>1 DEF Lapse
  <2>2. CASE PollExpiry(c) \/ \E choice \in Decisions \ {"expired"} : DecideRead(c, choice)
    <3>1. deciding' \subseteq Requests \X Decisions
      BY <2>2 DEF PollExpiry, DecideRead, Decisions
    <3> QED BY <2>2, <3>1 DEF PollExpiry, DecideRead
  <2>3. ASSUME NEW d \in Decisions, Decide(c, d) PROVE TypeOK'
    <3>1. deciding' \subseteq Requests \X Decisions
      BY <2>3 DEF Decide
    <3>2. CASE Approve(c)
      <4>1. conf' \in [Requests -> Confirmations]
        BY <3>2 DEF Approve, Confirmations, ConfirmationStatus
      <4>2. Event("confirmation_approved", c, None) \in Events
        BY EventIsTyped DEF EventTypes
      <4>3. log' \in [Runs -> SUBSET Events]
        BY <3>2, <4>2, AppendTyped DEF Approve
      <4>4. status' \in [Runs -> RunStatus]
        BY <3>2, StatusesTyped DEF Approve, release
      <4> QED BY <2>3, <3>1, <3>2, <4>1, <4>3, <4>4 DEF Decide, Approve
    <3>3. CASE d # "approved" /\ Refuse(c, d)
      <4>1. conf' \in [Requests -> Confirmations]
        BY <3>3 DEF Refuse, Confirmations, ConfirmationStatus, Decisions
      <4>2. /\ Event(RefusalEvent[d], c, None) \in Events
            /\ Event("tool_invocation_cancelled", c, None) \in Events
        <5>1. RefusalEvent[d] \in EventTypes
          BY <3>3 DEF RefusalEvent, EventTypes, Decisions
        <5> QED BY <5>1, EventIsTyped DEF EventTypes, TerminalInvocationEvents
      <4>3. log' \in [Runs -> SUBSET Events]
        BY <3>3, <4>2, AppendTyped DEF Refuse
      <4>4. status' \in [Runs -> RunStatus]
        BY <3>3, StatusesTyped DEF Refuse, release
      <4> QED BY <2>3, <3>1, <3>3, <4>1, <4>3, <4>4 DEF Decide, Refuse
    <3> QED BY <2>3, <3>1, <3>2, <3>3 DEF Decide
  <2> QED BY <1>3, <2>1, <2>2, <2>3 DEF Confirm
<1>4. ASSUME NEW r \in Runs, Verify(r) PROVE TypeOK'
  <2>1. CASE VerifyGate(r)
    BY <2>1, StatusesTyped DEF VerifyGate
  <2>2. CASE VerifyCapture(r)
    BY <2>2 DEF VerifyCapture
  <2>3. ASSUME NEW from, NEW verdicts \in SUBSET (VERDICT_RUN_STATES \cup {"error"}),
               NEW room, Conclude(r, from, verdicts, room)
        PROVE TypeOK'
    <3>1. /\ Event("verification_started", None, None) \in Events
          /\ Event("verification_completed", None, None) \in Events
      BY EventIsTyped DEF EventTypes
    <3>2. log' \in [Runs -> SUBSET Events]
      BY <2>3, <3>1, AppendTyped DEF Conclude
    <3>3. status' \in [Runs -> RunStatus]
      BY <2>3, StatusesTyped DEF Conclude
    <3> QED BY <2>3, <3>2, <3>3 DEF Conclude
  <2> QED BY <1>4, <2>1, <2>2, <2>3 DEF Verify, Seal, Abandon
<1>5. ASSUME NEW r \in Runs, CaptureSurface(r) PROVE TypeOK'
  <2>1. Event("tool_surface_captured", None, None) \in Events
    BY EventIsTyped DEF EventTypes
  <2>2. log' \in [Runs -> SUBSET Events]
    BY <1>5, <2>1, AppendTyped DEF CaptureSurface
  <2> QED BY <1>5, <2>2 DEF CaptureSurface
<1>6. ASSUME NEW z \in Resets, NEW purge \in BOOLEAN, ResetWorkspace(z, purge)
      PROVE TypeOK'
  <2>1. status' \in [Runs -> RunStatus]
    BY <1>6, StatusesTyped DEF ResetWorkspace
  <2>2. conf' \in [Requests -> Confirmations]
    <3>1. \A c \in Requests : \A s \in ConfirmationStatus :
            [conf[c] EXCEPT !.status = s] \in Confirmations
      BY ConfirmationTyped
    <3>2. {"deleted", "cancelled"} \subseteq ConfirmationStatus
      BY DEF ConfirmationStatus
    <3>3. \A c \in Requests :
            \/ conf'[c] = conf[c]
            \/ \E s \in {"deleted", "cancelled"} : conf'[c] = [conf[c] EXCEPT !.status = s]
      BY <1>6 DEF ResetWorkspace
    <3>4. conf' = [c \in Requests |-> conf'[c]]
      BY <1>6 DEF ResetWorkspace
    <3>5. ASSUME NEW c \in Requests PROVE conf'[c] \in Confirmations
      <4>1. CASE conf'[c] = conf[c]
        BY <4>1
      <4>2. ASSUME NEW s \in {"deleted", "cancelled"}, conf'[c] = [conf[c] EXCEPT !.status = s]
            PROVE conf'[c] \in Confirmations
        BY <3>1, <3>2, <4>2
      <4> QED BY <3>3, <4>1, <4>2
    <3> QED BY <3>4, <3>5
  <2>3. /\ \A c \in Requests : Event("confirmation_cancelled", c, None) \in Events
        /\ Event("run_cancelled", None, None) \in Events
    BY EventIsTyped DEF EventTypes
  <2>4. log' \in [Runs -> SUBSET Events]
    BY <1>6, <2>3 DEF ResetWorkspace
  <2> QED BY <1>6, <2>1, <2>2, <2>4 DEF ResetWorkspace
<1>7. ASSUME NEW z \in Resets, Reseed(z) PROVE TypeOK'
  BY <1>7 DEF Reseed
<1>8. CASE Crash
  <2>1. req' \in [Requests -> RequestRecord]
    <3>1. \A q \in Requests : [req[q] EXCEPT !.pc = "done"] \in RequestRecord
      BY RequestTyped DEF RequestPoint
    <3> QED BY <1>8, <3>1 DEF Crash
  <2>2. verif' \in [Runs -> [pc : {"idle", "capture", "seal", "abandon"},
                             seen : SUBSET Events]]
    <3>1. \A r \in Runs : [verif[r] EXCEPT !.pc = "idle"] \in
             [pc : {"idle", "capture", "seal", "abandon"}, seen : SUBSET Events]
      OBVIOUS
    <3> QED BY <1>8, <3>1 DEF Crash
  <2> QED BY <1>8, <2>1, <2>2 DEF Crash
<1>9. CASE UNCHANGED vars
  BY <1>9 DEF vars
<1> QED BY <1>1, <1>2, <1>3, <1>4, <1>5, <1>6, <1>7, <1>8, <1>9 DEF Next

\* The lifecycle keeps its types: what database rows, timelines and the handlers
\* under way may hold, whatever interleaving, crash or reset happens.
THEOREM Typed == Spec => []TypeOK
<1>1. Init => TypeOK
  BY ConstantsAssumption, NoneAssumption
     DEF Init, TypeOK, RunStatus, NoConfirmation, Confirmations, ConfirmationStatus,
         NoRequest, RequestRecord, RequestPoint
<1> QED BY <1>1, TypeStep, PTL DEF Spec

\* A step that only ends request q, or sends it on from its second read to the
\* observation, disturbs nobody's consent.
LEMMA GotoConsent ==
    ASSUME TypeOK, ConsentInv, NEW q \in Requests, NEW pc \in {"observe", "done"},
           Goto(q, pc), pc = "observe" => req[q].pc = "find",
           UNCHANGED <<conf, granted, mutated>>
    PROVE  ConsentInv'
<1> USE DEF TypeOK, RequestRecord, RequestPoint
<1>1. /\ \A p \in Requests \ {q} : req'[p] = req[p]
      /\ req'[q].pc = pc
      /\ req'[q].run = req[q].run /\ req'[q].tool = req[q].tool /\ req'[q].args = req[q].args
      /\ req'[q].resume = req[q].resume /\ req'[q].before = req[q].before
  BY DEF Goto
<1>2. ASSUME NEW c \in Requests PROVE RowInv(c)'
  BY <1>1 DEF ConsentInv, RowInv
<1>3. ASSUME NEW p \in Requests PROVE RequestInv(p)'
  <2>1. CASE p = q
    BY <1>1, <2>1 DEF ConsentInv, RequestInv, Committed
  <2>2. CASE p # q
    BY <1>1, <2>2 DEF ConsentInv, RequestInv, Committed
  <2> QED BY <2>1, <2>2
<1> QED BY <1>2, <1>3 DEF ConsentInv

\* The consent invariant depends on the requests, the rows and the two histories only.
LEMMA FrameConsent ==
    ASSUME ConsentInv, UNCHANGED <<req, conf, granted, mutated>>
    PROVE  ConsentInv'
  BY DEF ConsentInv, RowInv, RequestInv, Committed

\* Confirmation rows may change their status and their window without disturbing a
\* request, as long as no row becomes approved unasked, none is reopened and the
\* claim on a consumed row stays with it.
LEMMA RowsConsent ==
    ASSUME TypeOK, ConsentInv, UNCHANGED <<req, mutated>>,
           granted \subseteq granted', granted' \subseteq Requests,
           \A c \in Requests :
             \/ conf'[c] = conf[c] /\ (c \in granted' => c \in granted)
             \/ /\ conf[c].status # "none"
                /\ conf'[c].run = conf[c].run /\ conf'[c].tool = conf[c].tool
                /\ conf'[c].args = conf[c].args /\ conf'[c].binding = conf[c].binding
                /\ conf'[c].claimer = conf[c].claimer
                /\ conf'[c].status # "none"
                /\ conf'[c].status = "pending" => c \notin granted'
                /\ conf'[c].status = "approved" => c \in granted'
                /\ conf[c].status = "consumed" => conf'[c].status \in {"consumed", "deleted"}
                /\ conf[c].status = "deleted" => conf'[c].status = "deleted"
    PROVE  ConsentInv'
<1>1. ASSUME NEW c \in Requests PROVE RowInv(c)'
  BY DEF ConsentInv, RowInv, NoConfirmation
<1>2. ASSUME NEW q \in Requests PROVE RequestInv(q)'
  <2>1. CASE req[q].resume = None
    BY <2>1 DEF ConsentInv, RequestInv, Committed
  <2>2. CASE req[q].resume # None
    <3>1. req[q].resume \in Requests
      BY <2>2 DEF TypeOK, RequestRecord
    <3> QED BY <2>2, <3>1 DEF ConsentInv, RequestInv, Committed
  <2> QED BY <2>1, <2>2
<1> QED BY <1>1, <1>2 DEF ConsentInv

\* The consent invariant is kept by every step.
LEMMA ConsentStep == TypeOK /\ ConsentInv /\ [Next]_vars => ConsentInv'
<1> SUFFICES ASSUME TypeOK, ConsentInv, [Next]_vars PROVE ConsentInv'
  OBVIOUS
<1>1. ASSUME NEW q \in Requests, Invoke(q) PROVE ConsentInv'
  <2>1. ASSUME NEW r \in Runs, NEW tool \in Tools, NEW args \in Args,
               InvokeRead(q, r, tool, args)
        PROVE ConsentInv'
    <3>1. /\ \A p \in Requests \ {q} : req'[p] = req[p]
          /\ req'[q].pc \in {"find", "observe"} /\ req'[q].resume = None
          /\ req[q].pc = "idle"
          /\ UNCHANGED <<conf, granted, mutated>>
      BY <2>1 DEF InvokeRead, NoRequest, TypeOK
    <3>2. ASSUME NEW c \in Requests PROVE RowInv(c)'
      BY <3>1 DEF ConsentInv, RowInv
    <3>3. ASSUME NEW p \in Requests PROVE RequestInv(p)'
      BY <3>1 DEF ConsentInv, RequestInv, Committed
    <3> QED BY <3>2, <3>3 DEF ConsentInv
  <2>2. CASE FindApproval(q)
    <3>1. CASE Goto(q, "observe") \/ Goto(q, "done")
      BY <2>2, <3>1, GotoConsent DEF FindApproval
    <3>2. ASSUME NEW c \in LiveApprovals(req[q].run, req[q].tool),
                 require_approved_arguments(c, req[q].args),
                 req' = [req EXCEPT ![q] = [@ EXCEPT !.pc = "observe", !.resume = c]]
          PROVE ConsentInv'
      <4>1. /\ \A p \in Requests \ {q} : req'[p] = req[p]
            /\ req'[q].pc = "observe" /\ req'[q].resume = c
            /\ req'[q].run = req[q].run /\ req'[q].tool = req[q].tool
            /\ req'[q].args = req[q].args
            /\ req[q].pc = "find"
            /\ UNCHANGED <<conf, granted, mutated>>
        BY <2>2, <3>2 DEF FindApproval, TypeOK, RequestRecord
      <4>2. /\ c \in Requests /\ conf[c].status = "approved" /\ conf[c].run = req[q].run
            /\ conf[c].tool = req[q].tool /\ conf[c].args = req[q].args
        BY <3>2 DEF LiveApprovals, require_approved_arguments
      <4>3. ASSUME NEW d \in Requests PROVE RowInv(d)'
        BY <4>1 DEF ConsentInv, RowInv
      <4>4. ASSUME NEW p \in Requests PROVE RequestInv(p)'
        <5>1. CASE p = q
          BY <4>1, <4>2, <5>1 DEF ConsentInv, RequestInv, RowInv, Committed
        <5>2. CASE p # q
          BY <4>1, <5>2 DEF ConsentInv, RequestInv, Committed
        <5> QED BY <5>1, <5>2
      <4> QED BY <4>3, <4>4 DEF ConsentInv
    <3> QED BY <2>2, <3>1, <3>2 DEF FindApproval
  <2>3. CASE Observe(q)
    <3>1. /\ \A p \in Requests \ {q} : req'[p] = req[p]
          /\ req'[q].run = req[q].run /\ req'[q].tool = req[q].tool
          /\ req'[q].args = req[q].args /\ req'[q].resume = req[q].resume
          /\ req'[q].before = target
          /\ req'[q].pc = IF req[q].resume = None THEN "start"
                          ELSE IF conf[req[q].resume].binding # target THEN "stale" ELSE "claim"
          /\ req[q].pc = "observe"
          /\ UNCHANGED <<conf, granted, mutated>>
      BY <2>3 DEF Observe, TypeOK, RequestRecord
    <3>2. ASSUME NEW c \in Requests PROVE RowInv(c)'
      BY <3>1 DEF ConsentInv, RowInv
    <3>3. ASSUME NEW p \in Requests PROVE RequestInv(p)'
      <4>1. CASE p = q
        BY <3>1, <4>1 DEF ConsentInv, RequestInv, Committed
      <4>2. CASE p # q
        BY <3>1, <4>2 DEF ConsentInv, RequestInv, Committed
      <4> QED BY <4>1, <4>2
    <3> QED BY <3>2, <3>3 DEF ConsentInv
  <2>4. CASE \/ ObserveFails(q) \/ StartRefused(q) \/ LockTimeout(q)
             \/ TripEventBudget(q) \/ IdentityMismatch(q) \/ Terminate(q)
    <3>1. Goto(q, "done") /\ UNCHANGED <<conf, granted, mutated>>
      BY <2>4 DEF ObserveFails, StartRefused, LockTimeout, TripEventBudget, IdentityMismatch,
                  Terminate
    <3> QED BY <3>1, GotoConsent
  <2>5. CASE StaleApproval(q)
    <3>1. Goto(q, "done") /\ UNCHANGED <<granted, mutated>>
      BY <2>5 DEF StaleApproval
    <3>2. CASE UNCHANGED conf
      BY <3>1, <3>2, GotoConsent
    <3>3. CASE conf[req[q].resume].status = "approved"
      <4> DEFINE c == req[q].resume
      <4>1. c \in Requests /\ req[q].pc = "stale"
        BY <2>5 DEF StaleApproval, ConsentInv, RequestInv, TypeOK, RequestRecord
      <4>2. /\ \A d \in Requests \ {c} : conf'[d] = conf[d]
            /\ conf'[c].status = "cancelled" /\ conf'[c].run = conf[c].run
            /\ conf'[c].tool = conf[c].tool /\ conf'[c].args = conf[c].args
            /\ conf'[c].binding = conf[c].binding /\ conf'[c].claimer = conf[c].claimer
        BY <2>5, <3>3, <4>1 DEF StaleApproval, TypeOK, Confirmations
      <4>3. /\ \A p \in Requests \ {q} : req'[p] = req[p]
            /\ req'[q].pc = "done"
            /\ req'[q].run = req[q].run /\ req'[q].tool = req[q].tool
            /\ req'[q].args = req[q].args /\ req'[q].resume = req[q].resume
            /\ req'[q].before = req[q].before
        BY <3>1 DEF Goto, TypeOK, RequestRecord
      <4>4. ASSUME NEW d \in Requests PROVE RowInv(d)'
        BY <3>1, <3>3, <4>1, <4>2, <4>3 DEF ConsentInv, RowInv, NoConfirmation
      <4>5. ASSUME NEW p \in Requests PROVE RequestInv(p)'
        <5>1. CASE p = q
          BY <3>1, <4>1, <4>2, <4>3, <5>1 DEF ConsentInv, RequestInv, Committed
        <5>2. CASE p # q /\ req[p].resume = None
          BY <3>1, <4>3, <5>2 DEF ConsentInv, RequestInv, Committed
        <5>3. CASE p # q /\ req[p].resume # None
          <6>1. req[p].resume \in Requests
            BY <5>3 DEF TypeOK, RequestRecord
          <6> QED BY <3>1, <4>1, <4>2, <4>3, <5>3, <6>1 DEF ConsentInv, RequestInv, Committed
        <5> QED BY <5>1, <5>2, <5>3
      <4> QED BY <4>4, <4>5 DEF ConsentInv
    <3> QED BY <2>5, <3>2, <3>3 DEF StaleApproval
  <2>6. CASE StartPlain(q)
    <3>1. /\ \A p \in Requests \ {q} : req'[p] = req[p]
          /\ req'[q].tool = req[q].tool /\ req'[q].resume = req[q].resume
          /\ req'[q].pc = "dispatch"
          /\ req[q].pc = "start" /\ req[q].tool \notin Protected
          /\ UNCHANGED <<conf, granted, mutated>>
      BY <2>6 DEF StartPlain, Goto, TypeOK, RequestRecord
    <3>2. ASSUME NEW c \in Requests PROVE RowInv(c)'
      BY <3>1 DEF ConsentInv, RowInv
    <3>3. ASSUME NEW p \in Requests PROVE RequestInv(p)'
      <4>1. CASE p = q
        BY <3>1, <4>1 DEF ConsentInv, RequestInv, Committed
      <4>2. CASE p # q
        BY <3>1, <4>2 DEF ConsentInv, RequestInv, Committed
      <4> QED BY <4>1, <4>2
    <3> QED BY <3>2, <3>3 DEF ConsentInv
  <2>7. CASE StartProtected(q)
    <3>1. /\ \A p \in Requests \ {q} : req'[p] = req[p] /\ conf'[p] = conf[p]
          /\ req'[q].resume = req[q].resume /\ req'[q].pc = "done"
          /\ req[q].pc = "start"
          /\ UNCHANGED <<granted, mutated>>
      BY <2>7 DEF StartProtected, Goto, TypeOK, RequestRecord
    <3>2. conf'[q].status = "pending" /\ conf'[q].claimer = None
      BY <2>7 DEF StartProtected, NoConfirmation, TypeOK
    <3>3. q \notin granted
      BY <3>1 DEF ConsentInv, RowInv, NoConfirmation
    <3>4. ASSUME NEW c \in Requests PROVE RowInv(c)'
      BY <3>1, <3>2, <3>3 DEF ConsentInv, RowInv
    <3>5. ASSUME NEW p \in Requests PROVE RequestInv(p)'
      <4>1. CASE p = q
        BY <3>1, <4>1 DEF ConsentInv, RequestInv, Committed
      <4>2. CASE p # q /\ req[p].resume = None
        BY <3>1, <4>2 DEF ConsentInv, RequestInv, Committed
      <4>3. CASE p # q /\ req[p].resume # None
        <5>1. req[p].resume \in Requests \ {q}
          BY <3>3, <4>3 DEF ConsentInv, RequestInv, TypeOK, RequestRecord
        <5> QED BY <3>1, <4>3, <5>1 DEF ConsentInv, RequestInv, Committed
      <4> QED BY <4>1, <4>2, <4>3
    <3> QED BY <3>4, <3>5 DEF ConsentInv
  <2>8. CASE ClaimApproval(q)
    <3> DEFINE c == req[q].resume
    <3>1. c \in Requests /\ req[q].pc = "claim" /\ UNCHANGED <<granted, mutated>>
      BY <2>8 DEF ClaimApproval, ConsentInv, RequestInv, TypeOK, RequestRecord
    <3>2. CASE Goto(q, "done") /\ UNCHANGED conf
      BY <3>1, <3>2, GotoConsent
    <3>3. CASE claim_approved(c)
      <4>1. /\ \A d \in Requests \ {c} : conf'[d] = conf[d]
            /\ conf'[c].status = "consumed" /\ conf'[c].run = conf[c].run
            /\ conf'[c].tool = conf[c].tool /\ conf'[c].args = conf[c].args
            /\ conf'[c].binding = conf[c].binding /\ conf'[c].claimer = q
            /\ conf[c].status = "approved"
        <5>1. conf' = [conf EXCEPT ![c] = [@ EXCEPT !.status = "consumed", !.claimer = q]]
          BY <2>8, <3>3 DEF ClaimApproval
        <5>2. conf[c] \in Confirmations /\ c \in DOMAIN conf
          BY <3>1 DEF TypeOK
        <5>3. /\ \A d \in Requests \ {c} : conf'[d] = conf[d]
              /\ conf'[c] = [conf[c] EXCEPT !.status = "consumed", !.claimer = q]
          BY <3>1, <5>1, <5>2 DEF TypeOK
        <5> QED BY <3>3, <5>2, <5>3 DEF claim_approved, Confirmations
      <4>2. /\ \A p \in Requests \ {q} : req'[p] = req[p]
            /\ req'[q].pc = "dispatch"
            /\ req'[q].run = req[q].run /\ req'[q].tool = req[q].tool
            /\ req'[q].args = req[q].args /\ req'[q].resume = c
            /\ req'[q].before = req[q].before
        BY <2>8, <3>3 DEF ClaimApproval, Goto, TypeOK, RequestRecord
      <4>3. ASSUME NEW d \in Requests PROVE RowInv(d)'
        BY <3>1, <4>1, <4>2 DEF ConsentInv, RowInv, NoConfirmation
      <4>4. ASSUME NEW p \in Requests PROVE RequestInv(p)'
        <5>1. CASE p = q
          BY <3>1, <4>1, <4>2, <5>1 DEF ConsentInv, RequestInv, Committed
        <5>2. CASE p # q /\ req[p].resume = None
          BY <3>1, <4>2, <5>2 DEF ConsentInv, RequestInv, Committed
        <5>3. CASE p # q /\ req[p].resume # None
          <6>1. req[p].resume \in Requests /\ conf[c].claimer = None
            BY <3>1, <4>1, <5>3 DEF ConsentInv, RowInv, TypeOK, RequestRecord
          <6>2. Committed(p) => req[p].resume # c
            BY <3>1, <5>3, <6>1, NoneAssumption DEF ConsentInv, RequestInv
          <6> QED BY <3>1, <4>1, <4>2, <5>3, <6>1, <6>2 DEF ConsentInv, RequestInv, Committed
        <5> QED BY <5>1, <5>2, <5>3
      <4> QED BY <4>3, <4>4 DEF ConsentInv
    <3> QED BY <2>8, <3>2, <3>3 DEF ClaimApproval
  <2>9. CASE Dispatch(q)
    <3>1. /\ \A p \in Requests \ {q} : req'[p] = req[p]
          /\ req'[q].pc = "terminate" /\ req[q].pc = "dispatch"
          /\ req'[q].run = req[q].run /\ req'[q].tool = req[q].tool
          /\ req'[q].args = req[q].args /\ req'[q].resume = req[q].resume
          /\ req'[q].before = req[q].before
          /\ mutated' = mutated \cup {q}
          /\ UNCHANGED <<conf, granted>>
      BY <2>9 DEF Dispatch, Goto, TypeOK, RequestRecord
    <3>2. ASSUME NEW c \in Requests PROVE RowInv(c)'
      BY <3>1 DEF ConsentInv, RowInv
    <3>3. ASSUME NEW p \in Requests PROVE RequestInv(p)'
      <4>1. CASE p = q
        BY <3>1, <4>1 DEF ConsentInv, RequestInv, Committed
      <4>2. CASE p # q
        BY <3>1, <4>2 DEF ConsentInv, RequestInv, Committed
      <4> QED BY <4>1, <4>2
    <3> QED BY <3>2, <3>3 DEF ConsentInv
  <2> QED BY <1>1, <2>1, <2>2, <2>3, <2>4, <2>5, <2>6, <2>7, <2>8, <2>9 DEF Invoke
<1>2. ASSUME NEW c \in Requests, Confirm(c) PROVE ConsentInv'
  <2>1. CASE Lapse(c)
    <3>1. \A d \in Requests \ {c} : conf'[d] = conf[d]
      BY <2>1 DEF Lapse, TypeOK
    <3>2. /\ conf'[c].status = conf[c].status /\ conf'[c].run = conf[c].run
          /\ conf'[c].tool = conf[c].tool /\ conf'[c].args = conf[c].args
          /\ conf'[c].binding = conf[c].binding /\ conf'[c].claimer = conf[c].claimer
          /\ conf[c].status \in {"pending", "approved"}
      BY <2>1 DEF Lapse, TypeOK, Confirmations
    <3>3. UNCHANGED <<req, mutated, granted>>
      BY <2>1 DEF Lapse
    <3>4. /\ conf[c].status = "pending" => c \notin granted
          /\ conf[c].status = "approved" => c \in granted
      BY DEF ConsentInv, RowInv
    <3> QED BY <3>1, <3>2, <3>3, <3>4, RowsConsent DEF TypeOK
  <2>2. CASE PollExpiry(c) \/ \E choice \in Decisions \ {"expired"} : DecideRead(c, choice)
    BY <2>2, FrameConsent DEF PollExpiry, DecideRead
  <2>3. ASSUME NEW d \in Decisions, Decide(c, d) PROVE ConsentInv'
    <3>1. CASE Approve(c)
      <4>1. /\ \A b \in Requests \ {c} : conf'[b] = conf[b]
            /\ conf'[c].status = "approved" /\ conf'[c].run = conf[c].run
            /\ conf'[c].tool = conf[c].tool /\ conf'[c].args = conf[c].args
            /\ conf'[c].binding = conf[c].binding /\ conf'[c].claimer = conf[c].claimer
            /\ conf[c].status = "pending"
            /\ granted' = granted \cup {c} /\ UNCHANGED <<req, mutated>>
        BY <2>3, <3>1 DEF Approve, Decide, mark, TypeOK, Confirmations
      <4> QED BY <4>1, RowsConsent DEF TypeOK
    <3>2. CASE d # "approved" /\ Refuse(c, d)
      <4>1. /\ \A b \in Requests \ {c} : conf'[b] = conf[b]
            /\ conf'[c].status = d /\ conf'[c].run = conf[c].run
            /\ conf'[c].tool = conf[c].tool /\ conf'[c].args = conf[c].args
            /\ conf'[c].binding = conf[c].binding /\ conf'[c].claimer = conf[c].claimer
            /\ conf[c].status = "pending" /\ UNCHANGED <<req, mutated, granted>>
        BY <2>3, <3>2 DEF Refuse, Decide, mark, TypeOK, Confirmations
      <4> QED BY <3>2, <4>1, RowsConsent DEF TypeOK, Decisions
    <3>3. CASE UNCHANGED <<conf, granted>>
      BY <2>3, <3>3, FrameConsent DEF Decide
    <3> QED BY <2>3, <3>1, <3>2, <3>3 DEF Decide
  <2> QED BY <1>2, <2>1, <2>2, <2>3 DEF Confirm
<1>3. ASSUME NEW z \in Resets, NEW purge \in BOOLEAN, ResetWorkspace(z, purge)
      PROVE ConsentInv'
  <2>1. UNCHANGED <<req, mutated, granted>>
    BY <1>3 DEF ResetWorkspace
  <2>2. \A c \in Requests :
          \/ conf'[c] = conf[c]
          \/ conf[c].status # "none" /\ conf'[c] = [conf[c] EXCEPT !.status = "deleted"]
          \/ conf[c].status = "pending" /\ conf'[c] = [conf[c] EXCEPT !.status = "cancelled"]
    BY <1>3 DEF ResetWorkspace
  <2>3. ASSUME NEW c \in Requests, NEW s \in {"deleted", "cancelled"},
               conf'[c] = [conf[c] EXCEPT !.status = s]
        PROVE /\ conf'[c].status = s /\ conf'[c].run = conf[c].run
              /\ conf'[c].tool = conf[c].tool /\ conf'[c].args = conf[c].args
              /\ conf'[c].binding = conf[c].binding /\ conf'[c].claimer = conf[c].claimer
    BY <2>3 DEF TypeOK, Confirmations
  <2>4. \A c \in Requests :
          \/ conf'[c] = conf[c]
          \/ /\ conf[c].status # "none" /\ conf'[c].run = conf[c].run
             /\ conf'[c].tool = conf[c].tool /\ conf'[c].args = conf[c].args
             /\ conf'[c].binding = conf[c].binding /\ conf'[c].claimer = conf[c].claimer
             /\ \/ conf'[c].status = "deleted"
                \/ conf[c].status = "pending" /\ conf'[c].status = "cancelled"
    <3> SUFFICES ASSUME NEW c \in Requests, conf'[c] # conf[c]
                 PROVE  /\ conf[c].status # "none" /\ conf'[c].run = conf[c].run
                        /\ conf'[c].tool = conf[c].tool /\ conf'[c].args = conf[c].args
                        /\ conf'[c].binding = conf[c].binding
                        /\ conf'[c].claimer = conf[c].claimer
                        /\ \/ conf'[c].status = "deleted"
                           \/ conf[c].status = "pending" /\ conf'[c].status = "cancelled"
      OBVIOUS
    <3>1. CASE conf[c].status # "none" /\ conf'[c] = [conf[c] EXCEPT !.status = "deleted"]
      BY <2>3, <3>1
    <3>2. CASE conf[c].status = "pending" /\ conf'[c] = [conf[c] EXCEPT !.status = "cancelled"]
      BY <2>3, <3>2
    <3> QED BY <2>2, <3>1, <3>2
  <2> QED BY <2>1, <2>4, RowsConsent DEF TypeOK
<1>4. CASE Crash
  <2>1. /\ \A q \in Requests :
             /\ req'[q].pc = IF req[q].pc = "idle" THEN "idle" ELSE "done"
             /\ req'[q].run = req[q].run /\ req'[q].tool = req[q].tool
             /\ req'[q].args = req[q].args /\ req'[q].resume = req[q].resume
             /\ req'[q].before = req[q].before
        /\ UNCHANGED <<conf, granted, mutated>>
    BY <1>4 DEF Crash, TypeOK, RequestRecord
  <2>2. ASSUME NEW c \in Requests PROVE RowInv(c)'
    BY <2>1 DEF ConsentInv, RowInv
  <2>3. ASSUME NEW q \in Requests PROVE RequestInv(q)'
    BY <2>1 DEF ConsentInv, RequestInv, Committed
  <2> QED BY <2>2, <2>3 DEF ConsentInv
<1>5. CASE UNCHANGED vars
  BY <1>5, FrameConsent DEF vars
<1>6. ASSUME NEW r \in Runs, arm(r) \/ Verify(r) \/ CaptureSurface(r) PROVE ConsentInv'
  BY <1>6, FrameConsent
     DEF arm, Verify, VerifyGate, VerifyCapture, Seal, Abandon, Conclude, CaptureSurface
<1>7. ASSUME NEW z \in Resets, Reseed(z) PROVE ConsentInv'
  BY <1>7, FrameConsent DEF Reseed
<1> QED BY <1>1, <1>2, <1>3, <1>4, <1>5, <1>6, <1>7 DEF Next

\* The consent invariant holds in every behaviour.
LEMMA ConsentHolds == Spec => []ConsentInv
<1>1. Init => ConsentInv
  BY DEF Init, ConsentInv, RowInv, RequestInv, Committed, NoRequest, NoConfirmation
<1> QED BY <1>1, ConsentStep, Typed, PTL DEF Spec

\* Consent holds in every behaviour, for any number of requests racing to resume, any
\* crash, lock timeout, decision and reset: a protected call reaches the adapter only
\* on a human approval of its run, tool, arguments and observed state, which it
\* claimed itself.
THEOREM ConsentIsBound == Spec => []ConsentBound
<1>1. TypeOK /\ ConsentInv => ConsentBound
  BY NoneAssumption
     DEF TypeOK, ConsentInv, RequestInv, Committed, ConsentBound, RequestRecord
<1> QED BY <1>1, ConsentHolds, Typed, PTL

\* "Approve once": however many requests race, one approval stands behind at most one
\* call that reached the adapter.
THEOREM ApprovalSpentOnce == Spec => []ApprovedOnce
<1>1. TypeOK /\ ConsentInv => ApprovedOnce
  BY DEF TypeOK, ConsentInv, RequestInv, Committed, ApprovedOnce, RequestRecord
<1> QED BY <1>1, ConsentHolds, Typed, PTL

----------------------------------------------------------------------------
\* How the lease moves

\* The table's terminal and nonterminal states, spelled out.
LEMMA StateSets ==
    /\ TERMINAL_RUN_STATES =
         {"proposed", "passed", "passed_with_warnings", "failed", "error", "cancelled"}
    /\ NONTERMINAL_RUN_STATES =
         {"armed", "proposing", "capturing", "running", "awaiting_confirmation", "verifying"}
<1>1. RunState = {"proposed", "passed", "passed_with_warnings", "failed", "error", "cancelled",
                  "armed", "proposing", "capturing", "running", "awaiting_confirmation",
                  "verifying"}
  BY DEF RunState, RUN_TRANSITIONS
<1>2. \A s \in {"proposed", "passed", "passed_with_warnings", "failed", "error", "cancelled"} :
          is_terminal(s)
  BY DEF is_terminal, RUN_TRANSITIONS
<1>3. \A s \in {"armed", "proposing", "capturing", "running", "awaiting_confirmation", "verifying"} :
          ~ is_terminal(s)
  BY DEF is_terminal, RUN_TRANSITIONS
<1> QED BY <1>1, <1>2, <1>3 DEF TERMINAL_RUN_STATES, NONTERMINAL_RUN_STATES

\* A live run moves to another state of the table; to a verdict only out of verifying,
\* over a timeline that keeps what it had.
Advance(r, s) ==
    /\ HoldsLease(r)
    /\ s \in RunState
    /\ status' = [status EXCEPT ![r] = s]
    /\ active' = active
    /\ s \in VERDICT_RUN_STATES => status[r] = "verifying" /\ log[r] \subseteq log'[r]

\* A start or a decision moves the run it names, if that is a run at all, out of a live
\* state, and to none that is a verdict.
LEMMA NamedRunAdvances ==
    ASSUME TypeOK, NEW r \in Runs \cup {None}, NEW s \in {"running", "awaiting_confirmation", "error"},
           status[r] \in {"armed", "running", "awaiting_confirmation"},
           status' = [status EXCEPT ![r] = s], active' = active
    PROVE  UNCHANGED <<status, active>> \/ \E p \in Runs, state \in RunState : Advance(p, state)
<1>1. CASE r = None
  BY <1>1, NoneAssumption DEF TypeOK
<1>2. CASE r \in Runs
  <2>1. s \in RunState /\ s \notin VERDICT_RUN_STATES
    BY DEF RunState, RUN_TRANSITIONS, VERDICT_RUN_STATES
  <2>2. Advance(r, s)
    BY <2>1, StateSets DEF Advance, HoldsLease
  <2> QED BY <1>2, <2>1, <2>2
<1> QED BY <1>1, <1>2

\* The lease moves in four ways: not at all, by arming, by a reset, or with one live run.
LEMMA LeaseStep ==
    ASSUME TypeOK, [Next]_vars
    PROVE  \/ UNCHANGED <<status, active>>
           \/ \E r \in Runs : arm(r)
           \/ \E z \in Resets, purge \in BOOLEAN : ResetWorkspace(z, purge)
           \/ \E r \in Runs, s \in RunState : Advance(r, s)
<1> DEFINE Moves == UNCHANGED <<status, active>> \/ \E r \in Runs, s \in RunState : Advance(r, s)
<1>1. ASSUME NEW q \in Requests, Invoke(q) PROVE Moves
  <2>1. CASE TripEventBudget(q)
    BY <2>1, NamedRunAdvances
       DEF TripEventBudget, invocable_run, INVOCABLE_RUN_STATES, TypeOK, RequestRecord
  <2>2. CASE IdentityMismatch(q) \/ StartPlain(q)
    BY <2>2, NamedRunAdvances
       DEF IdentityMismatch, StartPlain, invocable_run, INVOCABLE_RUN_STATES, TypeOK, RequestRecord
  <2>3. CASE StartProtected(q)
    BY <2>3, NamedRunAdvances
       DEF StartProtected, invocable_run, INVOCABLE_RUN_STATES, TypeOK, RequestRecord
  <2> QED BY <1>1, <2>1, <2>2, <2>3
          DEF Invoke, InvokeRead, FindApproval, Observe, ObserveFails, StaleApproval, StartRefused,
              ClaimApproval, Dispatch, Terminate, LockTimeout
<1>2. ASSUME NEW c \in Requests, Confirm(c) PROVE Moves
  <2>1. ASSUME NEW d \in Decisions, Decide(c, d) PROVE Moves
    <3>1. CASE release(conf[c].run) /\ active' = active
      <4>1. CASE status[conf[c].run] = "awaiting_confirmation"
        BY <3>1, <4>1, NamedRunAdvances DEF release, TypeOK, Confirmations
      <4> QED BY <3>1, <4>1 DEF release
    <3> QED BY <2>1, <3>1 DEF Decide, Approve, Refuse
  <2> QED BY <1>2, <2>1 DEF Confirm, Lapse, DecideRead, PollExpiry
<1>3. ASSUME NEW r \in Runs, Verify(r) PROVE Moves
  <2>1. CASE VerifyGate(r)
    <3>1. Advance(r, "verifying") /\ "verifying" \in RunState
      BY <2>1, StateSets
         DEF VerifyGate, Advance, HoldsLease, RunState, RUN_TRANSITIONS, VERDICT_RUN_STATES
    <3> QED BY <3>1
  <2>2. ASSUME NEW from, NEW verdicts, NEW room, Conclude(r, from, verdicts, room) PROVE Moves
    <3>1. PICK verdict \in verdicts :
            IF require_transition_still_legal(r, verdict) /\ room
              THEN /\ status' = [status EXCEPT ![r] = verdict]
                   /\ append(r, {Event("verification_started", None, None),
                                 Event("verification_completed", None, None)})
              ELSE UNCHANGED <<status, log>>
      BY <2>2 DEF Conclude
    <3>2. active' = active
      BY <2>2 DEF Conclude
    <3>3. CASE require_transition_still_legal(r, verdict) /\ room
      <4>1. verdict \in RunState /\ status[r] = "verifying"
        BY <3>3 DEF require_transition_still_legal, validate_run_transition, validate, RunState
      <4>2. log[r] \subseteq log'[r]
        BY <3>1, <3>3 DEF append, TypeOK
      <4>3. Advance(r, verdict)
        BY <3>1, <3>2, <3>3, <4>1, <4>2, StateSets DEF Advance, HoldsLease
      <4> QED BY <4>1, <4>3
    <3> QED BY <3>1, <3>2, <3>3
  <2> QED BY <1>3, <2>1, <2>2 DEF Verify, VerifyCapture, Seal, Abandon
<1>4. ASSUME NEW r \in Runs, CaptureSurface(r) PROVE Moves
  BY <1>4 DEF CaptureSurface
<1>5. ASSUME NEW z \in Resets, Reseed(z) PROVE Moves
  BY <1>5 DEF Reseed
<1>6. CASE Crash \/ UNCHANGED vars
  BY <1>6 DEF Crash, vars
<1> QED BY <1>1, <1>2, <1>3, <1>4, <1>5, <1>6 DEF Next

\* What a reset leaves of a run: a live one is cancelled, and whatever is terminal may be
\* purged.
LEMMA ResetLeaves ==
    ASSUME TypeOK, NEW z \in Resets, NEW purge \in BOOLEAN, ResetWorkspace(z, purge), NEW r \in Runs
    PROVE  /\ HoldsLease(r) => status'[r] \in {"cancelled", "purged"}
           /\ ~ HoldsLease(r) => status'[r] \in {status[r], "purged"}
  BY DEF ResetWorkspace, TypeOK

\* However many requests arm, act, verify and reset, the run in flight is the one the
\* workspace points at.
THEOREM LeaseIsSingle == Spec => []OneLiveRun
<1>1. Init => OneLiveRun
  BY StateSets DEF Init, OneLiveRun, HoldsLease
<1>2. ASSUME TypeOK, OneLiveRun, [Next]_vars PROVE OneLiveRun'
  <2>1. CASE UNCHANGED <<status, active>>
    BY <1>2, <2>1 DEF OneLiveRun, HoldsLease
  <2>2. ASSUME NEW r \in Runs, arm(r) PROVE OneLiveRun'
    BY <1>2, <2>2 DEF arm, require_no_active_run, OneLiveRun, HoldsLease, TypeOK
  <2>3. ASSUME NEW z \in Resets, NEW purge \in BOOLEAN, ResetWorkspace(z, purge) PROVE OneLiveRun'
    BY <1>2, <2>3, ResetLeaves, StateSets DEF OneLiveRun, HoldsLease
  <2>4. ASSUME NEW r \in Runs, NEW s \in RunState, Advance(r, s) PROVE OneLiveRun'
    BY <1>2, <2>4 DEF Advance, OneLiveRun, HoldsLease, TypeOK
  <2> QED BY <1>2, <2>1, <2>2, <2>3, <2>4, LeaseStep
<1> QED BY <1>1, <1>2, Typed, PTL DEF Spec

\* A verdict is reached only out of verifying, over what the timeline held, and no
\* terminal run moves again but to be purged: not by a verification, a decision or a
\* start that a reset overtook.
THEOREM VerdictsAreFinal == Spec => VerdictsFinal
<1> DEFINE Kept(r) ==
      /\ status[r] \in TERMINAL_RUN_STATES => status'[r] \in {status[r], "purged"}
      /\ status[r] # status'[r] /\ status'[r] \in VERDICT_RUN_STATES
           => status[r] = "verifying" /\ log[r] \cap log'[r] = log[r]
<1>1. ASSUME TypeOK, [Next]_vars, NEW r \in Runs PROVE Kept(r)
  <2>1. CASE UNCHANGED <<status, active>>
    BY <2>1
  <2>2. ASSUME NEW p \in Runs, arm(p) PROVE Kept(r)
    BY <1>1, <2>2, StateSets DEF arm, TypeOK, VERDICT_RUN_STATES
  <2>3. ASSUME NEW z \in Resets, NEW purge \in BOOLEAN, ResetWorkspace(z, purge) PROVE Kept(r)
    BY <1>1, <2>3, ResetLeaves, StateSets DEF HoldsLease, VERDICT_RUN_STATES
  <2>4. ASSUME NEW p \in Runs, NEW s \in RunState, Advance(p, s) PROVE Kept(r)
    <3>1. CASE p = r
      BY <1>1, <2>4, <3>1, StateSets DEF Advance, HoldsLease, TypeOK
    <3>2. CASE p # r
      BY <1>1, <2>4, <3>2 DEF Advance, TypeOK
    <3> QED BY <3>1, <3>2
  <2> QED BY <1>1, <2>1, <2>2, <2>3, <2>4, LeaseStep
<1>2. TypeOK /\ [Next]_vars => [\A r \in Runs : Kept(r)]_vars
  BY <1>1
<1> QED BY <1>2, Typed, PTL DEF Spec, VerdictsFinal

----------------------------------------------------------------------------
\* The refinement of ApproveOnce

\* The calls that reached the adapter on one confirmation.
CallsOn(c) == {q \in mutated : req[q].resume = c}

\* The refinement mapping, by its parts.
stages == [c \in Requests |-> Stage(c)]
calls == [c \in Requests |-> Cardinality(CallsOn(c))]

ConsentMove == Consent!Next \/ UNCHANGED <<stages, calls>>

\* What a stage says, row by row.
LEMMA StageReads ==
    ASSUME NEW c
    PROVE  /\ CallsOn(c) # {} => Stage(c) = "mutated"
           /\ CallsOn(c) = {} /\ conf[c].claimer # None => Stage(c) = "spent"
           /\ CallsOn(c) = {} /\ conf[c].claimer = None =>
                /\ conf[c].status = "none" => Stage(c) = "unasked"
                /\ conf[c].status = "pending" => Stage(c) = "asked"
                /\ conf[c].status = "approved" => Stage(c) = "granted"
                /\ conf[c].status \notin {"none", "pending", "approved"} => Stage(c) = "closed"
BY DEF Stage, CallsOn

\* The same of the next state.
LEMMA StageWillRead ==
    ASSUME NEW c
    PROVE  /\ CallsOn(c)' # {} => Stage(c)' = "mutated"
           /\ CallsOn(c)' = {} /\ conf'[c].claimer # None => Stage(c)' = "spent"
           /\ CallsOn(c)' = {} /\ conf'[c].claimer = None =>
                /\ conf'[c].status = "none" => Stage(c)' = "unasked"
                /\ conf'[c].status = "pending" => Stage(c)' = "asked"
                /\ conf'[c].status = "approved" => Stage(c)' = "granted"
                /\ conf'[c].status \notin {"none", "pending", "approved"} => Stage(c)' = "closed"
BY DEF Stage, CallsOn

\* A row that nobody claimed stands behind no call.
LEMMA UnclaimedUncalled ==
    ASSUME TypeOK, ConsentInv, NEW c \in Requests, conf[c].claimer = None
    PROVE  CallsOn(c) = {}
<1>1. \A q \in mutated : q \in Requests /\ q # None
  BY NoneAssumption DEF TypeOK
<1> QED BY <1>1, NoneAssumption DEF ConsentInv, RequestInv, Committed, CallsOn

\* A row that is approved, pending or not there yet was claimed by nobody.
LEMMA OpenUnclaimed ==
    ASSUME ConsentInv, NEW c \in Requests, conf[c].status \notin {"consumed", "deleted"}
    PROVE  conf[c].claimer = None
BY DEF ConsentInv, RowInv

\* No call is made, and the requests that made one keep the confirmation they used.
NoCall ==
    /\ UNCHANGED mutated
    /\ \A q \in mutated : req'[q].resume = req[q].resume

\* Where no call reaches the adapter, no count of calls changes.
LEMMA NoCallCounts ==
    ASSUME NoCall
    PROVE  /\ \A c : CallsOn(c)' = CallsOn(c)
           /\ calls' = calls
<1>1. \A c : CallsOn(c)' = CallsOn(c)
  BY DEF NoCall, CallsOn
<1> QED BY <1>1 DEF calls

\* A step that neither calls nor moves a row's status or claim is none of the protocol.
LEMMA RowsStill ==
    ASSUME NoCall,
           \A c \in Requests : conf'[c].status = conf[c].status /\ conf'[c].claimer = conf[c].claimer
    PROVE  ConsentMove
<1>1. \A c \in Requests : Stage(c)' = Stage(c)
  BY NoCallCounts, StageReads, StageWillRead
<1> QED BY <1>1, NoCallCounts DEF ConsentMove, stages

\* One row moves, and every other confirmation stays at its stage.
LEMMA OneRowMoves ==
    ASSUME NoCall, NEW c \in Requests, \A d \in Requests \ {c} : conf'[d] = conf[d]
    PROVE  stages' = [stages EXCEPT ![c] = Stage(c)']
<1>1. \A d \in Requests \ {c} : Stage(d)' = Stage(d)
  BY NoCallCounts, StageReads, StageWillRead
<1> QED BY <1>1 DEF stages

\* Rows that are pending or approved are withdrawn, any number at once; a row that is
\* deleted after that keeps its stage.
LEMMA RowsWithdrawn ==
    ASSUME TypeOK, ConsentInv, NoCall,
           \A c \in Requests :
             \/ conf'[c].status = conf[c].status /\ conf'[c].claimer = conf[c].claimer
             \/ /\ conf[c].status # "none"
                /\ conf'[c].status \in {"denied", "expired", "cancelled", "deleted"}
                /\ conf'[c].claimer = conf[c].claimer
    PROVE  ConsentMove
<1> DEFINE C == {c \in Requests : Stage(c)' # Stage(c)}
<1>1. ASSUME NEW c \in C
      PROVE  Stage(c) \in {"asked", "granted"} /\ Stage(c)' = "closed"
  <2>1. conf'[c].claimer = conf[c].claimer /\ CallsOn(c)' = CallsOn(c)
    BY NoCallCounts
  <2>2. CallsOn(c) = {} /\ conf[c].claimer = None
    BY <2>1, StageReads, StageWillRead
  <2> QED BY <2>1, <2>2, StageReads, StageWillRead
<1>2. stages' = [c \in Requests |-> IF c \in C THEN "closed" ELSE stages[c]]
  BY <1>1 DEF stages
<1>3. \A c \in C : stages[c] \in {"asked", "granted"}
  BY <1>1 DEF stages
<1>4. calls' = calls
  BY NoCallCounts
<1> HIDE DEF C
<1>5. C \in SUBSET Requests
  BY DEF C
<1>6. Consent!Withdraw(C)
  BY <1>2, <1>3, <1>4 DEF Consent!Withdraw, stages, calls, CallsOn
<1> QED BY <1>5, <1>6 DEF ConsentMove, Consent!Next

\* One row moves from one stage to the next, and no call is made.
LEMMA RowAdvances ==
    ASSUME NoCall, NEW c \in Requests, \A d \in Requests \ {c} : conf'[d] = conf[d],
           \/ Stage(c) = "unasked" /\ Stage(c)' = "asked"
           \/ Stage(c) = "asked" /\ Stage(c)' = "granted"
           \/ Stage(c) = "granted" /\ Stage(c)' = "spent"
    PROVE  ConsentMove
<1>1. stages' = [stages EXCEPT ![c] = Stage(c)'] /\ stages[c] = Stage(c)
  BY OneRowMoves DEF stages
<1>2. calls' = calls
  BY NoCallCounts
<1>3. Consent!Ask(c) \/ Consent!Grant(c) \/ Consent!Spend(c)
  BY <1>1, <1>2
     DEF Consent!Ask, Consent!Grant, Consent!Spend, Consent!Move, stages, calls, CallsOn
<1> QED BY <1>3 DEF ConsentMove, Consent!Next

\* A request moves on with the confirmation it resumes, if any.
LEMMA KeepsResume ==
    ASSUME TypeOK, NEW q \in Requests, NEW pc, Goto(q, pc), UNCHANGED mutated
    PROVE  NoCall
<1>1. \A p \in Requests : req'[p].resume = req[p].resume
  BY DEF Goto, TypeOK, RequestRecord
<1> QED BY <1>1 DEF NoCall, TypeOK

\* adapter.execute on a claimed approval is the one mutation made on it.
LEMMA DispatchMutates ==
    ASSUME TypeOK, ConsentInv, NEW q \in Requests, Dispatch(q)
    PROVE  ConsentMove
<1>1. /\ \A p \in Requests : req'[p].resume = req[p].resume
      /\ mutated' = mutated \cup {q} /\ conf' = conf /\ req[q].pc = "dispatch"
  BY DEF Dispatch, Goto, TypeOK, RequestRecord
<1>2. q \notin mutated /\ mutated \subseteq Requests
  BY <1>1 DEF ConsentInv, RequestInv, TypeOK
<1>3. \A c : CallsOn(c)' = IF c = req[q].resume THEN CallsOn(c) \cup {q} ELSE CallsOn(c)
  BY <1>1, <1>2 DEF CallsOn
<1>4. \A d \in Requests : d # req[q].resume => Stage(d)' = Stage(d)
  BY <1>1, <1>3, StageReads, StageWillRead
<1>5. CASE req[q].resume = None
  <2>1. \A c \in Requests : c # req[q].resume
    BY <1>5, NoneAssumption
  <2>2. UNCHANGED <<stages, calls>>
    BY <1>3, <1>4, <2>1 DEF stages, calls
  <2> QED BY <2>2 DEF ConsentMove
<1>6. CASE req[q].resume # None
  <2>1. PICK c \in Requests : c = req[q].resume
    BY <1>6 DEF TypeOK, RequestRecord
  <2>2. conf[c].claimer = q /\ q # None
    BY <1>1, <1>6, <2>1, NoneAssumption DEF ConsentInv, RequestInv, Committed
  <2>3. CallsOn(c) = {}
    <3>1. \A p \in CallsOn(c) : conf[c].claimer = p
      BY <1>2, <1>6, <2>1 DEF CallsOn, ConsentInv, RequestInv, Committed
    <3> QED BY <1>2, <2>2, <3>1 DEF CallsOn
  <2>4. Stage(c) = "spent"
    BY <2>2, <2>3, StageReads
  <2>5. CallsOn(c)' = {q}
    BY <1>3, <2>1, <2>3
  <2>6. Stage(c)' = "mutated"
    BY <2>5, StageWillRead
  <2>7. stages[c] = "spent" /\ stages' = [stages EXCEPT ![c] = "mutated"]
    BY <1>4, <2>1, <2>4, <2>6 DEF stages
  <2>8. Cardinality(CallsOn(c)) = 0 /\ Cardinality(CallsOn(c)') = 1
    BY <2>3, <2>5, FS_EmptySet, FS_Singleton
  <2>9. calls[c] = 0 /\ calls' = [calls EXCEPT ![c] = 1]
    BY <1>3, <2>1, <2>8 DEF calls
  <2>10. calls' = [calls EXCEPT ![c] = calls[c] + 1]
    BY <2>9
  <2>11. Consent!Mutate(c)
    BY <2>7, <2>10 DEF Consent!Mutate, Consent!Move, stages, calls, CallsOn
  <2> QED BY <2>11 DEF ConsentMove, Consent!Next
<1> QED BY <1>5, <1>6

\* Every step of the lifecycle is a step of the consent protocol, or leaves it alone.
LEMMA ConsentSimulated ==
    ASSUME TypeOK, ConsentInv, [Next]_vars
    PROVE  ConsentMove
<1>1. ASSUME NEW q \in Requests, Invoke(q) PROVE ConsentMove
  <2>1. ASSUME NEW r, NEW tool, NEW args, InvokeRead(q, r, tool, args) PROVE ConsentMove
    <3>1. q \notin mutated /\ mutated \subseteq Requests
      BY <2>1 DEF InvokeRead, ConsentInv, RequestInv, TypeOK
    <3>2. NoCall
      BY <2>1, <3>1 DEF InvokeRead, NoCall, TypeOK
    <3> QED BY <2>1, <3>2, RowsStill DEF InvokeRead
  <2>2. CASE FindApproval(q)
    <3>1. q \notin mutated /\ mutated \subseteq Requests
      BY <2>2 DEF FindApproval, ConsentInv, RequestInv, TypeOK
    <3>2. /\ UNCHANGED <<mutated, conf>>
          /\ \A p \in Requests \ {q} : req'[p] = req[p]
      BY <2>2 DEF FindApproval, Goto, TypeOK
    <3>3. NoCall
      BY <3>1, <3>2 DEF NoCall
    <3> QED BY <3>2, <3>3, RowsStill
  <2>3. CASE Observe(q)
    <3>1. \A p \in Requests : req'[p].resume = req[p].resume
      BY <2>3 DEF Observe, TypeOK, RequestRecord
    <3>2. NoCall /\ UNCHANGED conf
      BY <2>3, <3>1 DEF Observe, NoCall, TypeOK
    <3> QED BY <3>2, RowsStill
  <2>4. CASE \/ ObserveFails(q) \/ StartRefused(q) \/ LockTimeout(q) \/ StartPlain(q)
             \/ TripEventBudget(q) \/ IdentityMismatch(q) \/ Terminate(q)
    <3>1. (\E pc \in {"done", "dispatch"} : Goto(q, pc)) /\ UNCHANGED <<conf, mutated>>
      BY <2>4 DEF ObserveFails, StartRefused, LockTimeout, TripEventBudget, IdentityMismatch,
                  Terminate, StartPlain
    <3>2. NoCall
      BY <3>1, KeepsResume
    <3> QED BY <3>1, <3>2, RowsStill
  <2>5. CASE StaleApproval(q)
    <3>1. NoCall
      BY <2>5, KeepsResume DEF StaleApproval
    <3>2. CASE conf[req[q].resume].status = "approved"
      <4>1. conf' = [conf EXCEPT ![req[q].resume].status = "cancelled"]
        BY <2>5, <3>2 DEF StaleApproval
      <4>2. \A c \in Requests :
              \/ conf'[c].status = conf[c].status /\ conf'[c].claimer = conf[c].claimer
              \/ /\ conf[c].status # "none" /\ conf'[c].status = "cancelled"
                 /\ conf'[c].claimer = conf[c].claimer
        BY <3>2, <4>1 DEF TypeOK, Confirmations
      <4> QED BY <3>1, <4>2, RowsWithdrawn
    <3>3. CASE conf[req[q].resume].status # "approved"
      BY <2>5, <3>1, <3>3, RowsStill DEF StaleApproval
    <3> QED BY <3>2, <3>3
  <2>6. CASE StartProtected(q)
    <3>1. NoCall
      BY <2>6, KeepsResume DEF StartProtected
    <3>2. /\ \A d \in Requests \ {q} : conf'[d] = conf[d]
          /\ conf'[q].status = "pending" /\ conf'[q].claimer = None
      BY <2>6 DEF StartProtected, NoConfirmation, TypeOK
    <3>3. conf[q].status = "none" /\ conf[q].claimer = None
      BY <2>6 DEF StartProtected, ConsentInv, RowInv, NoConfirmation
    <3>4. CallsOn(q) = {} /\ CallsOn(q)' = {}
      BY <3>1, <3>3, UnclaimedUncalled, NoCallCounts
    <3> QED BY <3>1, <3>2, <3>3, <3>4, StageReads, StageWillRead, RowAdvances
  <2>7. CASE ClaimApproval(q)
    <3>1. NoCall
      BY <2>7, KeepsResume DEF ClaimApproval
    <3>2. CASE claim_approved(req[q].resume)
      <4>1. PICK c \in Requests : c = req[q].resume
        BY <2>7 DEF ClaimApproval, ConsentInv, RequestInv, TypeOK, RequestRecord
      <4>2. conf' = [conf EXCEPT ![c] = [@ EXCEPT !.status = "consumed", !.claimer = q]]
        BY <2>7, <3>2, <4>1 DEF ClaimApproval
      <4>3. /\ \A d \in Requests \ {c} : conf'[d] = conf[d]
            /\ conf'[c] = [conf[c] EXCEPT !.status = "consumed", !.claimer = q]
            /\ conf[c] \in Confirmations
        BY <4>2 DEF TypeOK
      <4>4. conf'[c].claimer = q /\ q # None
        BY <4>3, NoneAssumption DEF Confirmations
      <4>5. conf[c].status = "approved" /\ conf[c].claimer = None
        BY <3>2, <4>1, OpenUnclaimed DEF claim_approved
      <4>6. CallsOn(c) = {} /\ CallsOn(c)' = {}
        BY <3>1, <4>5, UnclaimedUncalled, NoCallCounts
      <4> QED BY <3>1, <4>3, <4>4, <4>5, <4>6, StageReads, StageWillRead, RowAdvances
    <3>3. CASE ~ claim_approved(req[q].resume)
      BY <2>7, <3>1, <3>3, RowsStill DEF ClaimApproval
    <3> QED BY <3>2, <3>3
  <2> QED BY <1>1, <2>1, <2>2, <2>3, <2>4, <2>5, <2>6, <2>7, DispatchMutates DEF Invoke
<1>2. ASSUME NEW c \in Requests, Confirm(c) PROVE ConsentMove
  <2>1. NoCall
    BY <1>2 DEF Confirm, Lapse, DecideRead, PollExpiry, Decide, NoCall
  <2>2. CASE Lapse(c)
    <3>1. \A d \in Requests : conf'[d].status = conf[d].status /\ conf'[d].claimer = conf[d].claimer
      BY <2>2 DEF Lapse, TypeOK, Confirmations
    <3> QED BY <2>1, <3>1, RowsStill
  <2>3. ASSUME NEW d \in Decisions, Decide(c, d) PROVE ConsentMove
    <3>1. CASE Approve(c)
      <4>1. /\ \A b \in Requests \ {c} : conf'[b] = conf[b]
            /\ conf'[c].status = "approved" /\ conf'[c].claimer = conf[c].claimer
            /\ conf[c].status = "pending"
        BY <3>1 DEF Approve, mark, TypeOK, Confirmations
      <4>2. conf[c].claimer = None
        BY <4>1, OpenUnclaimed
      <4>3. CallsOn(c) = {} /\ CallsOn(c)' = {}
        BY <2>1, <4>2, UnclaimedUncalled, NoCallCounts
      <4> QED BY <2>1, <4>1, <4>2, <4>3, StageReads, StageWillRead, RowAdvances
    <3>2. CASE d # "approved" /\ Refuse(c, d)
      <4>1. \A b \in Requests :
              \/ conf'[b] = conf[b]
              \/ /\ conf[b].status # "none" /\ conf'[b].status = d
                 /\ conf'[b].claimer = conf[b].claimer
        BY <3>2 DEF Refuse, mark, TypeOK, Confirmations
      <4> QED BY <2>1, <3>2, <4>1, RowsWithdrawn DEF Decisions
    <3>3. CASE UNCHANGED conf
      BY <2>1, <3>3, RowsStill
    <3> QED BY <2>3, <3>1, <3>2, <3>3 DEF Decide
  <2>4. CASE UNCHANGED conf
    BY <2>1, <2>4, RowsStill
  <2> QED BY <1>2, <2>2, <2>3, <2>4 DEF Confirm, DecideRead, PollExpiry
<1>3. ASSUME NEW z \in Resets, NEW purge \in BOOLEAN, ResetWorkspace(z, purge) PROVE ConsentMove
  <2>1. NoCall
    BY <1>3 DEF ResetWorkspace, NoCall
  <2>2. \A c \in Requests :
          \/ conf'[c] = conf[c]
          \/ conf[c].status # "none" /\ conf'[c] = [conf[c] EXCEPT !.status = "deleted"]
          \/ conf[c].status = "pending" /\ conf'[c] = [conf[c] EXCEPT !.status = "cancelled"]
    BY <1>3 DEF ResetWorkspace
  <2>3. \A c \in Requests : \A s \in {"deleted", "cancelled"} :
          /\ [conf[c] EXCEPT !.status = s].status = s
          /\ [conf[c] EXCEPT !.status = s].claimer = conf[c].claimer
    BY DEF TypeOK, Confirmations
  <2>4. \A c \in Requests :
          \/ conf'[c] = conf[c]
          \/ /\ conf[c].status # "none" /\ conf'[c].status \in {"deleted", "cancelled"}
             /\ conf'[c].claimer = conf[c].claimer
    BY <2>2, <2>3
  <2> QED BY <2>1, <2>4, RowsWithdrawn
<1>4. CASE Crash
  <2>1. \A q \in Requests : req'[q].resume = req[q].resume
    BY <1>4 DEF Crash, TypeOK, RequestRecord
  <2>2. NoCall /\ UNCHANGED conf
    BY <1>4, <2>1 DEF Crash, NoCall, TypeOK
  <2> QED BY <2>2, RowsStill
<1>5. CASE UNCHANGED <<req, conf, mutated>>
  BY <1>5, RowsStill DEF NoCall
<1>6. ASSUME NEW r \in Runs, arm(r) \/ Verify(r) \/ CaptureSurface(r) PROVE ConsentMove
  BY <1>5, <1>6
     DEF arm, Verify, VerifyGate, VerifyCapture, Seal, Abandon, Conclude, CaptureSurface
<1> QED BY <1>1, <1>2, <1>3, <1>4, <1>5, <1>6 DEF Next, Reseed, vars

\* The run lifecycle implements ApproveOnce: whatever races, crashes and resets happen,
\* consent is asked for, granted by a human, withdrawn or spent once, and what is spent
\* stands behind at most one mutation.
THEOREM LifecycleApprovesOnce == Spec => ImplementsApproveOnce
<1>1. Init => Consent!Init
  <2> SUFFICES ASSUME Init PROVE Consent!Init
    OBVIOUS
  <2>1. \A c \in Requests : CallsOn(c) = {} /\ conf[c].status = "none" /\ conf[c].claimer = None
    BY DEF Init, CallsOn, NoConfirmation
  <2>2. \A c \in Requests : Stage(c) = "unasked"
    BY <2>1, StageReads
  <2>3. \A c \in Requests : Cardinality(CallsOn(c)) = 0
    BY <2>1, FS_EmptySet
  <2> QED BY <2>2, <2>3 DEF Consent!Init, CallsOn
<1>2. TypeOK /\ ConsentInv /\ [Next]_vars => [Consent!Next]_<<stages, calls>>
  BY ConsentSimulated DEF ConsentMove
<1> QED BY <1>1, <1>2, Typed, ConsentHolds, PTL
        DEF Spec, ImplementsApproveOnce, Consent!Spec, stages, calls, CallsOn

----------------------------------------------------------------------------
\* One story of a run

Dispatched == {"dispatch", "terminate"}
UnderVerdict == {"verifying"} \cup VERDICT_RUN_STATES

\* A consent that may still be spent belongs to a call that is open on its run's timeline.
RowInFlight(c) ==
    /\ conf[c].status # "none" => conf[c].run \in Runs
    /\ conf[c].status \in {"pending", "approved"} => c \in InFlight(conf[c].run)

\* A request that reaches the adapter holds a call open, unless its timeline was purged.
CallInFlight(q) ==
    /\ req[q].pc # "idle" => req[q].run \in Runs
    /\ req[q].pc \in Dispatched /\ status[req[q].run] # "purged" =>
           Corr(q) \in InFlight(req[q].run)

\* What is closed was opened by a request that has ended.
ClosedBehind(r) ==
    \A e \in log[r] : e.type \in TerminalInvocationEvents =>
        e.corr \in Requests /\ req[e.corr].pc = "done"

\* AwaitingOne, without counting.
Waits(r) ==
    /\ status[r] = "awaiting_confirmation" => \E c \in Requests : PendingOf(r) = {c}
    /\ status[r] # "awaiting_confirmation" => PendingOf(r) = {}

\* QuietVerdict of one run, for approvals of any tool.
Quiet(r) ==
    status[r] \in UnderVerdict =>
        /\ \A c \in Requests : conf[c].run = r => conf[c].status # "approved"
        /\ \A q \in Requests : req[q].run = r => req[q].pc \notin Dispatched

TimelineInv ==
    /\ OneTerminal
    /\ \A q \in Requests : RowInFlight(q) /\ CallInFlight(q)
    /\ \A r \in Runs : ClosedBehind(r)

\* The inductive invariant behind RunSettled.
SettledInv == TimelineInv /\ \A r \in Runs : Waits(r) /\ Quiet(r)

\* What a step may do to a timeline, a row and a request without closing or opening a call.
LogSteady(r) ==
    \/ /\ log[r] \subseteq log'[r]
       /\ \A e \in log'[r] : e.type \in TerminalInvocationEvents => e \in log[r]
    \/ /\ log'[r] = {} /\ status'[r] = "purged"
       /\ \A c \in Requests : conf'[c].run = r => conf'[c].status \notin {"pending", "approved"}

RowSteady(c) ==
    /\ conf'[c].status # "none" => conf[c].status # "none" /\ conf'[c].run = conf[c].run
    /\ conf'[c].status \in {"pending", "approved"} => conf[c].status \in {"pending", "approved"}

CallSteady(q) ==
    /\ req[q].pc = "done" => req'[q].pc = "done"
    /\ req'[q].pc # "idle" => req'[q].run \in Runs
    /\ req'[q].pc \in Dispatched =>
         /\ req[q].pc \in Dispatched
         /\ req'[q].run = req[q].run /\ req'[q].resume = req[q].resume

\* What stays open on a timeline that is steady.
LEMMA StaysInFlight ==
    ASSUME NEW r, LogSteady(r), NEW c \in InFlight(r)
    PROVE  c \in InFlight(r)' \/ log'[r] = {}
BY DEF LogSteady, InFlight

\* Timelines stay sound while calls are opened on them, rows move and requests move on.
LEMMA TimelineFrame ==
    ASSUME TypeOK, TimelineInv,
           \A r \in Runs : LogSteady(r),
           \A r \in Runs : status[r] = "purged" => status'[r] = "purged",
           \A c \in Requests : RowSteady(c) \/ RowInFlight(c)',
           \A q \in Requests : CallSteady(q) \/ (CallInFlight(q)' /\ req[q].pc # "done")
    PROVE  TimelineInv'
<1>1. OneTerminal'
  BY DEF TimelineInv, OneTerminal, LogSteady
<1>2. ASSUME NEW c \in Requests, RowSteady(c) PROVE RowInFlight(c)'
  <2>1. conf'[c].status # "none" => conf'[c].run \in Runs /\ conf'[c].run = conf[c].run
    BY <1>2 DEF RowSteady, TimelineInv, RowInFlight
  <2>2. ASSUME conf'[c].status \in {"pending", "approved"}
        PROVE  c \in InFlight(conf[c].run)'
    <3>1. c \in InFlight(conf[c].run) /\ conf[c].run \in Runs /\ conf'[c].run = conf[c].run
      BY <1>2, <2>1, <2>2 DEF RowSteady, TimelineInv, RowInFlight
    <3>2. PICK r \in Runs : r = conf[c].run
      BY <3>1
    <3>3. LogSteady(r) /\ c \in InFlight(r) /\ conf'[c].run = r
      BY <3>1, <3>2
    <3>4. c \in InFlight(r)'
      BY <2>2, <3>3 DEF LogSteady, InFlight
    <3> QED BY <3>1, <3>2, <3>4 DEF InFlight
  <2> QED BY <2>1, <2>2 DEF RowInFlight, InFlight
<1>3. ASSUME NEW q \in Requests, CallSteady(q) PROVE CallInFlight(q)'
  <2>1. req'[q].pc # "idle" => req'[q].run \in Runs
    BY <1>3 DEF CallSteady
  <2>2. ASSUME req'[q].pc \in Dispatched, status'[req'[q].run] # "purged"
        PROVE  Corr(q)' \in InFlight(req[q].run)'
    <3>1. /\ req[q].pc \in Dispatched /\ req'[q].run = req[q].run
          /\ Corr(q)' = Corr(q) /\ req[q].run \in Runs
      BY <1>3, <2>1, <2>2 DEF CallSteady, Corr, Dispatched
    <3>2. PICK r \in Runs : r = req[q].run
      BY <3>1
    <3>3. PICK c \in InFlight(r) : c = Corr(q)
      BY <2>2, <3>1, <3>2 DEF TimelineInv, CallInFlight
    <3>4. c \in InFlight(r)'
      BY <2>2, <3>1, <3>2, <3>3 DEF LogSteady, InFlight
    <3> QED BY <3>1, <3>2, <3>3, <3>4 DEF InFlight
  <2> QED BY <1>3, <2>1, <2>2 DEF CallInFlight, CallSteady, InFlight
<1>4. \A q \in Requests : req[q].pc = "done" => req'[q].pc = "done"
  BY DEF CallSteady
<1>5. \A r \in Runs : ClosedBehind(r)'
  BY <1>4 DEF TimelineInv, ClosedBehind, LogSteady
<1> QED BY <1>1, <1>2, <1>3, <1>5 DEF TimelineInv

\* A call that is open, and that no other request and no live consent stands behind, is
\* closed.
LEMMA TimelineCloses ==
    ASSUME TypeOK, TimelineInv, NEW r \in Runs, NEW d \in InFlight(r),
           NEW e \in Events, e.type \in TerminalInvocationEvents, e.corr = d,
           NEW E, \A x \in E : x.type \notin TerminalInvocationEvents,
           append(r, E \cup {e}), UNCHANGED status \/ release(r),
           req'[d].pc = "done",
           \A c \in Requests : RowSteady(c),
           \A q \in Requests : CallSteady(q),
           conf'[d].status \notin {"pending", "approved"},
           \A q \in Requests : req'[q].pc \in Dispatched => Corr(q)' # d
    PROVE  TimelineInv'
<1>1. log'[r] = log[r] \cup E \cup {e} /\ \A x \in Runs \ {r} : log'[x] = log[x]
  BY DEF append, TypeOK
<1>2. d \in Requests /\ \A x \in log[r] : x.type \in TerminalInvocationEvents => x.corr # d
  BY DEF InFlight
<1>3. \A x \in Runs : status'[x] # "purged" => status[x] # "purged"
  BY DEF release, TypeOK
<1>4. OneTerminal'
  BY <1>1, <1>2 DEF TimelineInv, OneTerminal
<1>5. \A x \in Runs, c \in Requests \ {d} : c \in InFlight(x) => c \in InFlight(x)'
  BY <1>1 DEF InFlight
<1>6. ASSUME NEW c \in Requests PROVE RowInFlight(c)'
  <2>1. conf'[c].status # "none" => conf'[c].run \in Runs /\ conf'[c].run = conf[c].run
    BY DEF RowSteady, TimelineInv, RowInFlight
  <2>2. ASSUME conf'[c].status \in {"pending", "approved"}
        PROVE  c \in InFlight(conf[c].run)'
    <3>1. PICK x \in Runs : x = conf[c].run /\ x = conf'[c].run
      BY <2>1, <2>2
    <3>2. c \in InFlight(x) /\ c # d
      BY <2>2, <3>1 DEF RowSteady, TimelineInv, RowInFlight
    <3>3. c \in InFlight(x)'
      BY <1>5, <3>2
    <3> QED BY <3>1, <3>3 DEF InFlight
  <2> QED BY <2>1, <2>2 DEF RowInFlight, InFlight
<1>7. ASSUME NEW q \in Requests PROVE CallInFlight(q)'
  <2>1. req'[q].pc # "idle" => req'[q].run \in Runs
    BY DEF CallSteady
  <2>2. ASSUME req'[q].pc \in Dispatched, status'[req'[q].run] # "purged"
        PROVE  Corr(q)' \in InFlight(req[q].run)'
    <3>1. PICK x \in Runs : x = req'[q].run
      BY <2>1, <2>2 DEF Dispatched
    <3>2. req[q].pc \in Dispatched /\ req[q].run = x /\ Corr(q)' = Corr(q)
      BY <2>2, <3>1 DEF CallSteady, Corr
    <3>3. PICK c \in InFlight(x) : c = Corr(q)
      BY <1>3, <2>2, <3>1, <3>2 DEF TimelineInv, CallInFlight
    <3>4. c \in Requests \ {d}
      BY <2>2, <3>2, <3>3 DEF InFlight
    <3>5. c \in InFlight(x)'
      BY <1>5, <3>3, <3>4
    <3> QED BY <3>1, <3>2, <3>3, <3>5 DEF InFlight
  <2> QED BY <2>1, <2>2 DEF CallInFlight, InFlight
<1>8. \A x \in Runs : ClosedBehind(x)'
  BY <1>1, <1>2 DEF TimelineInv, ClosedBehind, CallSteady
<1> QED BY <1>4, <1>6, <1>7, <1>8 DEF TimelineInv

\* A run goes on waiting, or not, while its pending confirmations are what they were.
LEMMA WaitsFrame ==
    ASSUME NEW r \in Runs, Waits(r),
           status'[r] = "awaiting_confirmation" <=> status[r] = "awaiting_confirmation",
           \A c \in Requests : conf'[c].status = "pending" /\ conf'[c].run = r
                           <=> conf[c].status = "pending" /\ conf[c].run = r
    PROVE  Waits(r)'
<1>1. PendingOf(r)' = PendingOf(r)
  BY DEF PendingOf
<1> QED BY <1>1 DEF Waits

\* A verdict stays quiet while nobody dispatches for it or approves anything of it.
LEMMA QuietFrame ==
    ASSUME NEW r \in Runs, Quiet(r), status'[r] \in UnderVerdict => status[r] \in UnderVerdict,
           \A c \in Requests : conf'[c].run = r /\ conf'[c].status = "approved" =>
                               conf[c].run = r /\ conf[c].status = "approved",
           \A q \in Requests : req'[q].run = r /\ req'[q].pc \in Dispatched =>
                               req[q].run = r /\ req[q].pc \in Dispatched
    PROVE  Quiet(r)'
BY DEF Quiet

\* A step that opens no call, closes none, and decides nothing.
LEMMA SettledFrame ==
    ASSUME TypeOK, SettledInv,
           \A r \in Runs : LogSteady(r),
           \A r \in Runs : status[r] = "purged" => status'[r] = "purged",
           \A r \in Runs : /\ status'[r] = "awaiting_confirmation" <=> status[r] = "awaiting_confirmation"
                           /\ status'[r] \in UnderVerdict => status[r] \in UnderVerdict,
           \A c \in Requests : \/ conf'[c] = conf[c]
                               \/ /\ conf'[c].run = conf[c].run
                                  /\ conf'[c].status = conf[c].status
                               \/ /\ conf'[c].run = conf[c].run
                                  /\ conf[c].status \notin {"none", "pending"}
                                  /\ conf'[c].status \notin {"none", "pending", "approved"},
           \A q \in Requests : CallSteady(q)
    PROVE  SettledInv'
<1>1. \A c \in Requests : RowSteady(c)
  BY DEF RowSteady
<1>2. TimelineInv'
  BY <1>1, TimelineFrame DEF SettledInv
<1>3. \A r \in Runs : Waits(r)'
  BY WaitsFrame DEF SettledInv
<1>4. \A r \in Runs : Quiet(r)'
  BY QuietFrame DEF SettledInv, CallSteady
<1> QED BY <1>2, <1>3, <1>4 DEF SettledInv

\* A request that moves on short of the adapter, or from the call to its report.
LEMMA GotoSteady ==
    ASSUME TypeOK, SettledInv, NEW q \in Requests, NEW pc, Goto(q, pc), req[q].pc # "idle",
           req[q].pc # "done", pc \in Dispatched => req[q].pc \in Dispatched
    PROVE  \A p \in Requests : CallSteady(p)
<1>1. /\ \A p \in Requests \ {q} : req'[p] = req[p]
      /\ req'[q].pc = pc /\ req'[q].run = req[q].run /\ req'[q].resume = req[q].resume
  BY DEF Goto, TypeOK, RequestRecord
<1>2. \A p \in Requests : req[p].pc # "idle" => req[p].run \in Runs
  BY DEF SettledInv, TimelineInv, CallInFlight
<1> QED BY <1>1, <1>2 DEF CallSteady

\* Requests that are left alone are steady.
LEMMA UnchangedSteady ==
    ASSUME SettledInv, UNCHANGED req
    PROVE  \A p \in Requests : CallSteady(p)
BY DEF SettledInv, TimelineInv, CallInFlight, CallSteady

\* What the code appends besides the terminal events closes nothing.
LEMMA AppendSteady ==
    ASSUME TypeOK, NEW r, NEW E, append(r, E),
           \A e \in E : e.type \notin TerminalInvocationEvents
    PROVE  \A x \in Runs : LogSteady(x)
BY DEF append, LogSteady, TypeOK

\* A run that moves between two states of which neither waits nor is judged.
LEMMA StatusSteady ==
    ASSUME TypeOK, NEW r \in Runs, NEW s, status' = [status EXCEPT ![r] = s],
           s \notin {"awaiting_confirmation", "purged"}, s \notin UnderVerdict,
           status[r] \notin {"awaiting_confirmation", "purged"}
    PROVE  \A x \in Runs :
             /\ status[x] = "purged" => status'[x] = "purged"
             /\ status'[x] = "awaiting_confirmation" <=> status[x] = "awaiting_confirmation"
             /\ status'[x] \in UnderVerdict => status[x] \in UnderVerdict
BY DEF TypeOK

\* Between its claim and its report, a request is alone with its correlation.
LEMMA CorrAlone ==
    ASSUME TypeOK, ConsentInv, NEW q \in Requests, req[q].pc \in Dispatched
    PROVE  /\ Corr(q) \in Requests
           /\ \A p \in Requests : req[p].pc \in Dispatched /\ Corr(p) = Corr(q) => p = q
           /\ conf[Corr(q)].status \notin {"pending", "approved"}
           /\ Corr(q) # q => req[Corr(q)].pc = "done"
<1>1. \A p \in Requests : req[p].pc \in Dispatched =>
          /\ conf[p] = NoConfirmation
          /\ p \notin granted
          /\ req[p].resume # None =>
               /\ req[p].resume \in granted /\ req[p].resume \in Requests
               /\ conf[req[p].resume].claimer = p
  BY DEF ConsentInv, RowInv, RequestInv, Committed, TypeOK, RequestRecord, Dispatched,
         NoConfirmation
<1>2. \A c \in granted : c \in Requests /\ req[c].pc = "done"
  BY DEF ConsentInv, RowInv, NoConfirmation, TypeOK
<1>3. \A c \in Requests : conf[c].claimer # None => conf[c].status \in {"consumed", "deleted"}
  BY DEF ConsentInv, RowInv
<1>4. q # None
  BY NoneAssumption
<1> QED BY <1>1, <1>2, <1>3, <1>4 DEF Corr, NoConfirmation

\* _start of a tool that needs no confirmation opens a call that nobody closed.
LEMMA StartPlainSettled ==
    ASSUME TypeOK, ConsentInv, SettledInv, NEW q \in Requests, StartPlain(q)
    PROVE  SettledInv'
<1>1. PICK r \in Runs : r = req[q].run
  BY DEF StartPlain, SettledInv, TimelineInv, CallInFlight
<1>2. /\ req[q].pc = "start" /\ status[r] \in {"armed", "running"}
      /\ status' = [status EXCEPT ![r] = "running"]
      /\ append(r, {Event("tool_invocation_started", q, q)})
      /\ Goto(q, "dispatch") /\ UNCHANGED conf
  BY <1>1 DEF StartPlain, invocable_run, INVOCABLE_RUN_STATES
<1>3. /\ \A p \in Requests \ {q} : req'[p] = req[p]
      /\ req'[q].pc = "dispatch" /\ req'[q].run = r /\ req'[q].resume = None
  BY <1>1, <1>2 DEF Goto, TypeOK, RequestRecord, ConsentInv, RequestInv
<1>4. Event("tool_invocation_started", q, q).type = "tool_invocation_started"
      /\ Event("tool_invocation_started", q, q).corr = q
  BY DEF Event
<1>5. \A x \in Runs : LogSteady(x)
  BY <1>2, <1>4, AppendSteady DEF TerminalInvocationEvents
<1>6. \A x \in Runs :
        /\ status[x] = "purged" => status'[x] = "purged"
        /\ status'[x] = "awaiting_confirmation" <=> status[x] = "awaiting_confirmation"
        /\ status'[x] \in UnderVerdict => status[x] \in UnderVerdict
  BY <1>2, StatusSteady DEF UnderVerdict, VERDICT_RUN_STATES
<1>7. q \in InFlight(r)'
  <2>1. log'[r] = log[r] \cup {Event("tool_invocation_started", q, q)}
    BY <1>2 DEF append, TypeOK
  <2>2. \A e \in log[r] : e.type \in TerminalInvocationEvents => e.corr # q
    BY <1>2 DEF SettledInv, TimelineInv, ClosedBehind
  <2> QED BY <1>4, <2>1, <2>2 DEF InFlight, TerminalInvocationEvents
<1>8. CallInFlight(q)'
  BY <1>3, <1>7 DEF CallInFlight, Corr, InFlight
<1>9. \A p \in Requests \ {q} : CallSteady(p)
  BY <1>3 DEF SettledInv, TimelineInv, CallInFlight, CallSteady
<1>10. \A c \in Requests : RowSteady(c)
  BY <1>2 DEF RowSteady
<1>11. TimelineInv'
  BY <1>2, <1>5, <1>6, <1>8, <1>9, <1>10, TimelineFrame DEF SettledInv
<1>12. \A x \in Runs : Waits(x)'
  BY <1>2, <1>6, WaitsFrame DEF SettledInv
<1>13. ASSUME NEW x \in Runs PROVE Quiet(x)'
  <2>1. CASE x = r
    BY <1>2, <2>1 DEF Quiet, UnderVerdict, VERDICT_RUN_STATES, TypeOK
  <2>2. CASE x # r
    BY <1>2, <1>3, <1>6, <2>2, QuietFrame DEF SettledInv
  <2> QED BY <2>1, <2>2
<1> QED BY <1>11, <1>12, <1>13 DEF SettledInv

\* _start of a protected tool opens a call, and the run waits for the confirmation that
\* is opened with it, the only one that is pending.
LEMMA StartProtectedSettled ==
    ASSUME TypeOK, ConsentInv, SettledInv, NEW q \in Requests, StartProtected(q)
    PROVE  SettledInv'
<1>1. PICK r \in Runs : r = req[q].run
  BY DEF StartProtected, SettledInv, TimelineInv, CallInFlight
<1> DEFINE E == {Event("tool_invocation_started", q, q), Event("confirmation_requested", q, q)}
<1>2. /\ req[q].pc = "start" /\ status[r] \in {"armed", "running"}
      /\ status' = [status EXCEPT ![r] = "awaiting_confirmation"]
      /\ append(r, E) /\ Goto(q, "done")
  BY <1>1 DEF StartProtected, invocable_run, INVOCABLE_RUN_STATES
<1>3. /\ \A c \in Requests \ {q} : conf'[c] = conf[c]
      /\ conf'[q].status = "pending" /\ conf'[q].run = r
  BY <1>1 DEF StartProtected, NoConfirmation, TypeOK
<1>4. /\ \A e \in E : e.type \notin TerminalInvocationEvents
      /\ \E e \in E : e.type = "tool_invocation_started" /\ e.corr = q
  BY DEF Event, TerminalInvocationEvents
<1> HIDE DEF E
<1>5. \A x \in Runs : LogSteady(x)
  BY <1>2, <1>4, AppendSteady
<1>6. q \in InFlight(r)'
  <2>1. log'[r] = log[r] \cup E
    BY <1>2 DEF append, TypeOK
  <2>2. \A e \in log[r] : e.type \in TerminalInvocationEvents => e.corr # q
    BY <1>2 DEF SettledInv, TimelineInv, ClosedBehind
  <2> QED BY <1>4, <2>1, <2>2 DEF InFlight
<1>7. RowInFlight(q)'
  BY <1>3, <1>6 DEF RowInFlight, InFlight
<1>8. \A c \in Requests \ {q} : RowSteady(c)
  BY <1>3 DEF RowSteady
<1>9. \A p \in Requests : CallSteady(p)
  BY <1>2, GotoSteady DEF Dispatched
<1>10. /\ \A x \in Runs \ {r} : status'[x] = status[x]
       /\ status'[r] = "awaiting_confirmation"
  BY <1>2 DEF TypeOK
<1>11. TimelineInv'
  BY <1>2, <1>5, <1>7, <1>8, <1>9, <1>10, TimelineFrame DEF SettledInv
<1>12. ASSUME NEW x \in Runs PROVE Waits(x)'
  <2>1. CASE x = r
    <3>1. PendingOf(r) = {}
      BY <1>2 DEF SettledInv, Waits
    <3>2. PendingOf(r)' = {q}
      BY <1>3, <3>1 DEF PendingOf
    <3> QED BY <1>10, <2>1, <3>2 DEF Waits
  <2>2. CASE x # r
    <3>1. conf[q].status # "pending"
      BY <1>2 DEF ConsentInv, RowInv, NoConfirmation
    <3> QED BY <1>3, <1>10, <2>2, <3>1, WaitsFrame DEF SettledInv
  <2> QED BY <2>1, <2>2
<1>13. \A x \in Runs : Quiet(x)'
  BY <1>3, <1>9, <1>10, QuietFrame DEF SettledInv, CallSteady, UnderVerdict, VERDICT_RUN_STATES
<1> QED BY <1>11, <1>12, <1>13 DEF SettledInv

\* _claim_approval: the call the claim goes on with is the one its approval held open,
\* on a run that is not being judged.
LEMMA ClaimSettled ==
    ASSUME TypeOK, ConsentInv, SettledInv, NEW q \in Requests, ClaimApproval(q)
    PROVE  SettledInv'
<1>1. /\ req[q].pc = "claim" /\ UNCHANGED <<status, log>>
      /\ \A x \in Runs : LogSteady(x)
  BY DEF ClaimApproval, LogSteady
<1>2. CASE claim_approved(req[q].resume)
  <2>1. PICK c \in Requests : c = req[q].resume
    BY DEF ClaimApproval, ConsentInv, RequestInv, TypeOK, RequestRecord
  <2>2. PICK r \in Runs : r = req[q].run
    BY <1>1 DEF SettledInv, TimelineInv, CallInFlight
  <2>3. conf[c].status = "approved" /\ conf[c].run = r /\ c # None
    BY <1>1, <1>2, <2>1, <2>2, NoneAssumption DEF claim_approved, ConsentInv, RequestInv
  <2>4. /\ \A p \in Requests \ {q} : req'[p] = req[p]
        /\ req'[q].pc = "dispatch" /\ req'[q].run = r /\ req'[q].resume = c
    BY <1>2, <2>1, <2>2 DEF ClaimApproval, Goto, TypeOK, RequestRecord
  <2>5. /\ \A d \in Requests \ {c} : conf'[d] = conf[d]
        /\ conf'[c].status = "consumed" /\ conf'[c].run = r
    <3>1. conf' = [conf EXCEPT ![c] = [conf[c] EXCEPT !.status = "consumed", !.claimer = q]]
      BY <1>2, <2>1 DEF ClaimApproval
    <3>2. conf'[c] = [conf[c] EXCEPT !.status = "consumed", !.claimer = q]
          /\ conf[c] \in Confirmations
      BY <3>1 DEF TypeOK
    <3>3. \A d \in Requests \ {c} : conf'[d] = conf[d]
      BY <3>1 DEF TypeOK
    <3>4. conf'[c].status = "consumed" /\ conf'[c].run = conf[c].run
      BY <3>2 DEF Confirmations
    <3> QED BY <2>3, <3>3, <3>4
  <2>6. c \in InFlight(r)
    BY <2>3 DEF SettledInv, TimelineInv, RowInFlight
  <2>7. CallInFlight(q)'
    BY <1>1, <2>3, <2>4, <2>6 DEF CallInFlight, Corr, InFlight
  <2>8. \A p \in Requests \ {q} : CallSteady(p)
    BY <2>4 DEF SettledInv, TimelineInv, CallInFlight, CallSteady
  <2>9. \A d \in Requests : RowSteady(d)
    BY <2>3, <2>5 DEF RowSteady
  <2>10. TimelineInv'
    BY <1>1, <2>7, <2>8, <2>9, TimelineFrame DEF SettledInv
  <2>11. \A x \in Runs : Waits(x)'
    BY <1>1, <2>3, <2>5, WaitsFrame DEF SettledInv
  <2>12. ASSUME NEW x \in Runs PROVE Quiet(x)'
    <3>1. CASE x = r
      BY <1>1, <2>3, <3>1 DEF SettledInv, Quiet
    <3>2. CASE x # r
      BY <1>1, <2>4, <2>5, <3>2, QuietFrame DEF SettledInv
    <3> QED BY <3>1, <3>2
  <2> QED BY <2>10, <2>11, <2>12 DEF SettledInv
<1>3. CASE ~ claim_approved(req[q].resume)
  <2>1. Goto(q, "done") /\ UNCHANGED conf
    BY <1>3 DEF ClaimApproval
  <2>2. \A p \in Requests : CallSteady(p)
    BY <1>1, <2>1, GotoSteady DEF Dispatched
  <2> QED BY <1>1, <2>1, <2>2, SettledFrame
<1> QED BY <1>2, <1>3

\* _terminate: the one terminal event of a call that is still open, or of a timeline that
\* is gone.
LEMMA TerminateSettled ==
    ASSUME TypeOK, ConsentInv, SettledInv, NEW q \in Requests, Terminate(q)
    PROVE  SettledInv'
<1>1. req[q].pc = "terminate" /\ Goto(q, "done") /\ UNCHANGED <<status, conf>>
  BY DEF Terminate
<1>2. PICK r \in Runs : r = req[q].run
  BY <1>1 DEF SettledInv, TimelineInv, CallInFlight
<1>3. \A p \in Requests : CallSteady(p)
  BY <1>1, GotoSteady DEF Dispatched
<1>4. CASE Exists(r)
  <2>1. PICK outcome \in {"tool_invocation_completed", "tool_invocation_failed"} :
            append(r, {Event(outcome, Corr(q), q)})
    BY <1>2, <1>4 DEF Terminate
  <2>2. Corr(q) \in InFlight(r) /\ Corr(q) \in Requests
    BY <1>1, <1>2, <1>4 DEF Exists, SettledInv, TimelineInv, CallInFlight, Dispatched, InFlight
  <2>3. PICK d \in InFlight(r) : d = Corr(q)
    BY <2>2
  <2> DEFINE E == {}
  <2>4. PICK e \in Events :
            /\ e.type \in TerminalInvocationEvents /\ e.corr = d
            /\ append(r, E \cup {e})
    <3>1. Event(outcome, Corr(q), q) \in Events
      BY <2>2, EventIsTyped DEF EventTypes, TerminalInvocationEvents
    <3>2. Event(outcome, Corr(q), q).type = outcome /\ Event(outcome, Corr(q), q).corr = Corr(q)
      BY DEF Event
    <3>3. append(r, E \cup {Event(outcome, Corr(q), q)})
      BY <2>1 DEF append
    <3> QED BY <2>3, <3>1, <3>2, <3>3 DEF TerminalInvocationEvents
  <2>5. /\ \A p \in Requests \ {q} : req'[p] = req[p]
        /\ req'[q].pc = "done"
    BY <1>1 DEF Goto, TypeOK, RequestRecord
  <2>6. /\ \A p \in Requests : req[p].pc \in Dispatched /\ Corr(p) = d => p = q
        /\ conf[d].status \notin {"pending", "approved"}
        /\ d # q => req[d].pc = "done"
    BY <1>1, <2>3, CorrAlone DEF Dispatched
  <2>7. d \in Requests /\ req'[d].pc = "done"
    BY <2>2, <2>3, <2>5, <2>6
  <2>8. \A p \in Requests : req'[p].pc \in Dispatched => Corr(p)' # d
    BY <2>5, <2>6 DEF Corr, Dispatched
  <2>9. \A c \in Requests : RowSteady(c)
    BY <1>1 DEF RowSteady
  <2>10. conf'[d].status \notin {"pending", "approved"}
    BY <1>1, <2>6
  <2>11. \A x \in E : x.type \notin TerminalInvocationEvents
    OBVIOUS
  <2> HIDE DEF E
  <2>12. TimelineInv'
    BY <1>1, <1>3, <2>4, <2>7, <2>8, <2>9, <2>10, <2>11, TimelineCloses DEF SettledInv
  <2>13. \A x \in Runs : Waits(x)' /\ Quiet(x)'
    BY <1>1, <1>3, WaitsFrame, QuietFrame DEF SettledInv, CallSteady
  <2> QED BY <2>12, <2>13 DEF SettledInv
<1>5. CASE ~ Exists(r)
  <2>1. UNCHANGED log
    BY <1>2, <1>5 DEF Terminate
  <2>2. \A x \in Runs : LogSteady(x)
    BY <2>1 DEF LogSteady
  <2> QED BY <1>1, <1>3, <2>2, SettledFrame
<1> QED BY <1>4, <1>5

\* A decision finds its run waiting for it and nothing else, and lets it go.
LEMMA DecisionReleases ==
    ASSUME TypeOK, SettledInv, NEW c \in Requests, mark(c), release(conf[c].run),
           \A d \in Requests \ {c} : conf'[d] = conf[d],
           conf'[c].run = conf[c].run, conf'[c].status # "pending",
           \A q \in Requests : CallSteady(q)
    PROVE  /\ \A r \in Runs : Waits(r)' /\ Quiet(r)'
           /\ \A r \in Runs : status[r] = "purged" => status'[r] = "purged"
           /\ conf[c].run \in Runs /\ c \in InFlight(conf[c].run)
<1>1. conf[c].run \in Runs /\ c \in InFlight(conf[c].run) /\ conf[c].status = "pending"
  BY DEF mark, SettledInv, TimelineInv, RowInFlight
<1>2. PICK r \in Runs : r = conf[c].run
  BY <1>1
<1>3. status[r] = "awaiting_confirmation" /\ PendingOf(r) = {c}
  <2>1. c \in PendingOf(r)
    BY <1>1, <1>2 DEF PendingOf
  <2> QED BY <2>1 DEF SettledInv, Waits
<1>4. status'[r] = "running" /\ \A x \in Runs \ {r} : status'[x] = status[x]
  BY <1>2, <1>3 DEF release, TypeOK
<1>5. PendingOf(r)' = {}
  BY <1>2, <1>3 DEF PendingOf
<1>6. Waits(r)' /\ Quiet(r)'
  BY <1>4, <1>5 DEF Waits, Quiet, UnderVerdict, VERDICT_RUN_STATES
<1>7. \A x \in Runs \ {r} : Waits(x)' /\ Quiet(x)'
  BY <1>2, <1>4, WaitsFrame, QuietFrame DEF SettledInv, CallSteady
<1> QED BY <1>1, <1>3, <1>4, <1>6, <1>7

\* A decision closes a call only where it refuses, and then once.
LEMMA DecideSettled ==
    ASSUME TypeOK, ConsentInv, SettledInv, NEW c \in Requests, NEW decision \in Decisions,
           Decide(c, decision)
    PROVE  SettledInv'
<1>1. UNCHANGED req /\ \A q \in Requests : CallSteady(q)
  BY UnchangedSteady DEF Decide
<1>2. CASE Approve(c)
  <2>1. /\ \A d \in Requests \ {c} : conf'[d] = conf[d]
        /\ conf'[c].status = "approved" /\ conf'[c].run = conf[c].run
        /\ conf[c].status = "pending"
    BY <1>2 DEF Approve, mark, TypeOK, Confirmations
  <2>2. /\ \A r \in Runs : Waits(r)' /\ Quiet(r)'
        /\ \A r \in Runs : status[r] = "purged" => status'[r] = "purged"
    BY <1>1, <1>2, <2>1, DecisionReleases DEF Approve
  <2>3. Event("confirmation_approved", c, None).type \notin TerminalInvocationEvents
    BY DEF Event, TerminalInvocationEvents
  <2>4. \A r \in Runs : LogSteady(r)
    BY <1>2, <2>3, AppendSteady DEF Approve
  <2>5. \A d \in Requests : RowSteady(d)
    BY <2>1 DEF RowSteady
  <2>6. TimelineInv'
    BY <1>1, <2>2, <2>4, <2>5, TimelineFrame DEF SettledInv
  <2> QED BY <2>2, <2>6 DEF SettledInv
<1>3. CASE decision # "approved" /\ Refuse(c, decision)
  <2>1. /\ \A d \in Requests \ {c} : conf'[d] = conf[d]
        /\ conf'[c].status = decision /\ conf'[c].run = conf[c].run
        /\ conf[c].status = "pending"
        /\ decision \notin {"pending", "approved", "none"}
    BY <1>3 DEF Refuse, mark, TypeOK, Confirmations, Decisions
  <2>2. /\ \A r \in Runs : Waits(r)' /\ Quiet(r)'
        /\ conf[c].run \in Runs /\ c \in InFlight(conf[c].run)
    BY <1>1, <1>3, <2>1, DecisionReleases DEF Refuse
  <2>3. PICK r \in Runs : r = conf[c].run
    BY <2>2
  <2> DEFINE refusal == Event(RefusalEvent[decision], c, None)
             blocked == Event("tool_invocation_cancelled", c, None)
  <2>4. /\ blocked \in Events /\ blocked.type \in TerminalInvocationEvents /\ blocked.corr = c
        /\ refusal.type \notin TerminalInvocationEvents
    <3>1. blocked \in Events
      BY EventIsTyped DEF EventTypes, TerminalInvocationEvents
    <3>2. RefusalEvent[decision] \notin TerminalInvocationEvents
      BY <1>3 DEF Decisions, RefusalEvent, TerminalInvocationEvents
    <3> QED BY <3>1, <3>2 DEF Event, TerminalInvocationEvents
  <2>5. append(r, {refusal} \cup {blocked})
    BY <1>3, <2>3 DEF Refuse, append
  <2>6. release(r)
    BY <1>3, <2>3 DEF Refuse
  <2> HIDE DEF refusal, blocked
  <2>7. req'[c].pc = "done"
    BY <1>1, <2>1 DEF ConsentInv, RowInv, NoConfirmation
  <2>8. \A q \in Requests : req'[q].pc \in Dispatched => Corr(q)' # c
    <3>1. \A q \in Requests : req[q].pc \in Dispatched => Corr(q) # c
      BY <2>1, CorrAlone
    <3> QED BY <1>1, <3>1 DEF Corr
  <2>9. \A d \in Requests : RowSteady(d)
    BY <2>1 DEF RowSteady
  <2>10. c \in InFlight(r)
    BY <2>2, <2>3
  <2>11. TimelineInv'
    BY <1>1, <2>1, <2>4, <2>5, <2>6, <2>7, <2>8, <2>9, <2>10, TimelineCloses DEF SettledInv
  <2> QED BY <2>2, <2>11 DEF SettledInv
<1>4. CASE UNCHANGED <<status, conf, log, granted>>
  <2>1. \A r \in Runs : LogSteady(r)
    BY <1>4 DEF LogSteady
  <2> QED BY <1>1, <1>4, <2>1, SettledFrame
<1> QED BY <1>2, <1>3, <1>4 DEF Decide

\* VerificationGate.begin: nothing in flight means that no call and no approval is left
\* that could move under the verdict.
LEMMA GateSettled ==
    ASSUME TypeOK, SettledInv, NEW r \in Runs, VerifyGate(r)
    PROVE  SettledInv'
<1>1. /\ status[r] = "running" /\ status' = [status EXCEPT ![r] = "verifying"]
      /\ InFlight(r) = {} /\ UNCHANGED <<log, conf, req>>
  BY DEF VerifyGate, require_nothing_in_flight
<1>2. status'[r] = "verifying" /\ \A x \in Runs \ {r} : status'[x] = status[x]
  BY <1>1 DEF TypeOK
<1>3. \A x \in Runs : LogSteady(x)
  BY <1>1 DEF LogSteady
<1>4. \A q \in Requests : CallSteady(q)
  BY <1>1, UnchangedSteady
<1>5. \A c \in Requests : RowSteady(c)
  BY <1>1 DEF RowSteady
<1>6. TimelineInv'
  BY <1>1, <1>2, <1>3, <1>4, <1>5, TimelineFrame DEF SettledInv
<1>7. \A x \in Runs : Waits(x)'
  BY <1>1, <1>2, WaitsFrame DEF SettledInv
<1>8. Quiet(r)'
  <2>1. \A c \in Requests : conf[c].run = r => conf[c].status # "approved"
    BY <1>1 DEF SettledInv, TimelineInv, RowInFlight
  <2>2. \A q \in Requests : req[q].run = r => req[q].pc \notin Dispatched
    BY <1>1 DEF SettledInv, TimelineInv, CallInFlight
  <2> QED BY <1>1, <2>1, <2>2 DEF Quiet
<1>9. \A x \in Runs \ {r} : Quiet(x)'
  BY <1>1, <1>2, QuietFrame DEF SettledInv
<1> QED BY <1>6, <1>7, <1>8, <1>9 DEF SettledInv

\* WorkspaceService.reset: nothing is pending afterwards and no run waits; what is purged
\* takes its confirmations with it.
LEMMA ResetSettled ==
    ASSUME TypeOK, SettledInv, NEW z \in Resets, NEW purge \in BOOLEAN, ResetWorkspace(z, purge)
    PROVE  SettledInv'
<1>1. UNCHANGED req /\ \A q \in Requests : CallSteady(q)
  BY UnchangedSteady DEF ResetWorkspace
<1> DEFINE Purging(r) == status'[r] = "purged" /\ log'[r] = {}
<1>2. \A c \in Requests :
        \/ conf'[c] = conf[c] /\ conf[c].status # "pending"
        \/ conf[c].status # "none" /\ conf'[c] = [conf[c] EXCEPT !.status = "deleted"]
        \/ conf[c].status = "pending" /\ conf'[c] = [conf[c] EXCEPT !.status = "cancelled"]
  BY DEF ResetWorkspace
<1>3. \A c \in Requests : \A s \in {"deleted", "cancelled"} :
        /\ [conf[c] EXCEPT !.status = s].status = s
        /\ [conf[c] EXCEPT !.status = s].run = conf[c].run
  BY DEF TypeOK, Confirmations
<1>4. \A c \in Requests :
        /\ conf'[c].run = conf[c].run /\ conf'[c].status # "pending"
        /\ \/ conf'[c] = conf[c]
           \/ conf[c].status # "none" /\ conf'[c].status \in {"deleted", "cancelled"}
  BY <1>2, <1>3
<1>5. \A c \in Requests : RowSteady(c)
  BY <1>4 DEF RowSteady
<1>6. ASSUME NEW r \in Runs PROVE LogSteady(r)
  <2> DEFINE gone == purge /\ Exists(r)
                     /\ (IF HoldsLease(r) THEN "cancelled" ELSE status[r]) \in TERMINAL_RUN_STATES
  <2>1. CASE gone
    <3>1. log'[r] = {} /\ status'[r] = "purged"
      BY <2>1 DEF ResetWorkspace
    <3>2. \A c \in Requests : conf[c].run = r /\ conf[c].status # "none" =>
              conf'[c] = [conf[c] EXCEPT !.status = "deleted"]
      BY <2>1 DEF ResetWorkspace
    <3> QED BY <1>3, <1>4, <3>1, <3>2 DEF LogSteady
  <2>2. CASE ~ gone
    <3> DEFINE C == {Event("confirmation_cancelled", c, None) :
                       c \in {d \in Requests : conf[d].status = "pending" /\ conf[d].run = r}}
               L == IF HoldsLease(r) THEN {Event("run_cancelled", None, None)} ELSE {}
    <3>1. log'[r] = log[r] \cup C \cup L
      BY <2>2 DEF ResetWorkspace
    <3>2. \A e \in C \cup L : e.type \notin TerminalInvocationEvents
      BY DEF Event, TerminalInvocationEvents
    <3> HIDE DEF C, L
    <3> QED BY <3>1, <3>2 DEF LogSteady
  <2> QED BY <2>1, <2>2
<1>7. \A r \in Runs :
        /\ status'[r] # "awaiting_confirmation"
        /\ status'[r] \in UnderVerdict => status[r] = status'[r]
        /\ status[r] = "purged" => status'[r] = "purged"
  BY ResetLeaves, StateSets DEF HoldsLease, UnderVerdict, VERDICT_RUN_STATES
<1>8. TimelineInv'
  BY <1>1, <1>5, <1>6, <1>7, TimelineFrame DEF SettledInv
<1>9. \A r \in Runs : Waits(r)'
  BY <1>4, <1>7 DEF Waits, PendingOf
<1>10. \A r \in Runs : Quiet(r)'
  BY <1>1, <1>4, <1>7, QuietFrame DEF SettledInv
<1> QED BY <1>8, <1>9, <1>10 DEF SettledInv

\* The story of every run stays one story after every step.
LEMMA SettledStep ==
    ASSUME TypeOK, ConsentInv, SettledInv, [Next]_vars
    PROVE  SettledInv'
<1>1. ASSUME UNCHANGED <<status, log, conf>>, \A q \in Requests : CallSteady(q)
      PROVE  SettledInv'
  <2>1. \A r \in Runs : LogSteady(r)
    BY <1>1 DEF LogSteady
  <2> QED BY <1>1, <2>1, SettledFrame
<1>2. ASSUME NEW q \in Requests, Invoke(q) PROVE SettledInv'
  <2>1. ASSUME NEW r \in Runs, NEW tool, NEW args, InvokeRead(q, r, tool, args)
        PROVE  SettledInv'
    <3>1. /\ \A p \in Requests \ {q} : req'[p] = req[p]
          /\ req'[q].pc \notin Dispatched /\ req'[q].run = r /\ req[q].pc = "idle"
      BY <2>1 DEF InvokeRead, NoRequest, TypeOK, Dispatched
    <3>2. \A p \in Requests : CallSteady(p)
      BY <3>1 DEF SettledInv, TimelineInv, CallInFlight, CallSteady
    <3> QED BY <1>1, <2>1, <3>2 DEF InvokeRead
  <2>2. CASE FindApproval(q) \/ Observe(q)
    <3>1. /\ \A p \in Requests \ {q} : req'[p] = req[p]
          /\ req'[q].pc \notin Dispatched /\ req'[q].run = req[q].run
          /\ req[q].pc \in {"find", "observe"}
      <4>1. CASE FindApproval(q)
        <5>1. \/ Goto(q, "observe") \/ Goto(q, "done")
              \/ \E c : req' = [req EXCEPT ![q] = [@ EXCEPT !.pc = "observe", !.resume = c]]
          BY <4>1 DEF FindApproval
        <5>2. req[q].pc = "find" /\ req[q] \in RequestRecord
          BY <4>1 DEF FindApproval, TypeOK
        <5>3. \A c : LET found == [req[q] EXCEPT !.pc = "observe", !.resume = c]
                    IN  found.pc = "observe" /\ found.run = req[q].run
          BY <5>2 DEF RequestRecord
        <5>4. CASE Goto(q, "observe") \/ Goto(q, "done")
          BY <5>2, <5>4 DEF Goto, TypeOK, RequestRecord, Dispatched
        <5>5. ASSUME NEW c, req' = [req EXCEPT ![q] = [@ EXCEPT !.pc = "observe", !.resume = c]]
              PROVE  /\ \A p \in Requests \ {q} : req'[p] = req[p]
                     /\ req'[q].pc = "observe" /\ req'[q].run = req[q].run
          BY <5>3, <5>5 DEF TypeOK
        <5> QED BY <5>1, <5>2, <5>4, <5>5 DEF Dispatched
      <4>2. CASE Observe(q)
        BY <4>2 DEF Observe, TypeOK, RequestRecord, Dispatched
      <4> QED BY <2>2, <4>1, <4>2
    <3>2. \A p \in Requests : CallSteady(p)
      BY <3>1 DEF SettledInv, TimelineInv, CallInFlight, CallSteady
    <3> QED BY <1>1, <2>2, <3>2 DEF FindApproval, Observe
  <2>3. CASE ObserveFails(q) \/ StartRefused(q) \/ LockTimeout(q) \/ Dispatch(q)
    <3>1. /\ (Goto(q, "done") \/ (Goto(q, "terminate") /\ req[q].pc = "dispatch"))
          /\ req[q].pc \notin {"idle", "done"}
          /\ UNCHANGED <<status, log, conf>>
      BY <2>3 DEF ObserveFails, StartRefused, LockTimeout, Dispatch
    <3>2. \A p \in Requests : CallSteady(p)
      BY <3>1, GotoSteady DEF Dispatched
    <3> QED BY <1>1, <3>1, <3>2
  <2>4. CASE StaleApproval(q)
    <3>1. req[q].pc = "stale" /\ Goto(q, "done") /\ UNCHANGED status
      BY <2>4 DEF StaleApproval
    <3>2. \A p \in Requests : CallSteady(p)
      BY <3>1, GotoSteady DEF Dispatched
    <3>3. CASE conf[req[q].resume].status = "approved"
      <4>1. conf' = [conf EXCEPT ![req[q].resume].status = "cancelled"]
            /\ append(req[q].run, {Event("confirmation_cancelled", req[q].resume, q)})
        BY <2>4, <3>3 DEF StaleApproval
      <4>2. \A c \in Requests : \/ conf'[c] = conf[c]
                                \/ /\ conf'[c].run = conf[c].run
                                   /\ conf[c].status = "approved"
                                   /\ conf'[c].status = "cancelled"
        BY <3>3, <4>1 DEF TypeOK, Confirmations
      <4>3. Event("confirmation_cancelled", req[q].resume, q).type \notin TerminalInvocationEvents
        BY DEF Event, TerminalInvocationEvents
      <4>4. \A r \in Runs : LogSteady(r)
        BY <4>1, <4>3, AppendSteady
      <4> QED BY <3>1, <3>2, <4>2, <4>4, SettledFrame
    <3>4. CASE conf[req[q].resume].status # "approved"
      BY <1>1, <2>4, <3>1, <3>2, <3>4 DEF StaleApproval
    <3> QED BY <3>3, <3>4
  <2>5. CASE TripEventBudget(q) \/ IdentityMismatch(q)
    <3>1. PICK r \in Runs : r = req[q].run
      BY <2>5 DEF TripEventBudget, IdentityMismatch, SettledInv, TimelineInv, CallInFlight
    <3>2. PICK s \in {"error", "running"}, e \in {Event("resource_limit_exceeded", None, None),
                                                  Event("tool_identity_mismatch", q, q)} :
            /\ req[q].pc = "start" /\ status[r] \in {"armed", "running"}
            /\ status' = [status EXCEPT ![r] = s] /\ append(r, {e})
            /\ Goto(q, "done") /\ UNCHANGED conf
      BY <2>5, <3>1 DEF TripEventBudget, IdentityMismatch, invocable_run, INVOCABLE_RUN_STATES
    <3>3. e.type \notin TerminalInvocationEvents
      BY DEF Event, TerminalInvocationEvents
    <3>4. \A x \in Runs : LogSteady(x)
      BY <3>2, <3>3, AppendSteady
    <3>5. \A p \in Requests : CallSteady(p)
      BY <3>2, GotoSteady DEF Dispatched
    <3>6. s \notin {"awaiting_confirmation", "purged"} /\ s \notin UnderVerdict
      BY DEF UnderVerdict, VERDICT_RUN_STATES
    <3>7. \A x \in Runs :
            /\ status[x] = "purged" => status'[x] = "purged"
            /\ status'[x] = "awaiting_confirmation" <=> status[x] = "awaiting_confirmation"
            /\ status'[x] \in UnderVerdict => status[x] \in UnderVerdict
      BY <3>2, <3>6, StatusSteady
    <3> QED BY <3>2, <3>4, <3>5, <3>7, SettledFrame
  <2> QED BY <1>2, <2>1, <2>2, <2>3, <2>4, <2>5, StartPlainSettled, StartProtectedSettled,
             ClaimSettled, TerminateSettled DEF Invoke
<1>3. ASSUME NEW c \in Requests, Confirm(c) PROVE SettledInv'
  <2>1. CASE Lapse(c)
    <3>1. \A d \in Requests : conf'[d].run = conf[d].run /\ conf'[d].status = conf[d].status
      BY <2>1 DEF Lapse, TypeOK, Confirmations
    <3>2. UNCHANGED <<status, log, req>> /\ \A r \in Runs : LogSteady(r)
      BY <2>1 DEF Lapse, LogSteady
    <3> QED BY <3>1, <3>2, UnchangedSteady, SettledFrame
  <2>2. CASE UNCHANGED <<status, log, conf, req>>
    BY <1>1, <2>2, UnchangedSteady
  <2> QED BY <1>3, <2>1, <2>2, DecideSettled DEF Confirm, DecideRead, PollExpiry
<1>4. ASSUME NEW r \in Runs, arm(r) \/ CaptureSurface(r) PROVE SettledInv'
  <2>1. UNCHANGED <<conf, req>> /\ \A q \in Requests : CallSteady(q)
    BY <1>4, UnchangedSteady DEF arm, CaptureSurface
  <2>2. PICK e \in {Event("run_armed", None, None), Event("tool_surface_captured", None, None)} :
            append(r, {e})
    BY <1>4 DEF arm, CaptureSurface
  <2>3. e.type \notin TerminalInvocationEvents
    BY DEF Event, TerminalInvocationEvents
  <2>4. \A x \in Runs : LogSteady(x)
    BY <2>2, <2>3, AppendSteady
  <2>5. \A x \in Runs :
          /\ status[x] = "purged" => status'[x] = "purged"
          /\ status'[x] = "awaiting_confirmation" <=> status[x] = "awaiting_confirmation"
          /\ status'[x] \in UnderVerdict => status[x] \in UnderVerdict
    <3>1. "armed" \notin {"awaiting_confirmation", "purged"} /\ "armed" \notin UnderVerdict
      BY DEF UnderVerdict, VERDICT_RUN_STATES
    <3> QED BY <1>4, <3>1, StatusSteady DEF arm, CaptureSurface
  <2> QED BY <2>1, <2>4, <2>5, SettledFrame
<1>5. ASSUME NEW r \in Runs, NEW from, NEW verdicts, NEW room, Conclude(r, from, verdicts, room)
      PROVE  SettledInv'
  <2>1. UNCHANGED <<conf, req>> /\ \A q \in Requests : CallSteady(q)
    BY <1>5, UnchangedSteady DEF Conclude
  <2>2. CASE UNCHANGED <<status, log>>
    BY <1>1, <2>1, <2>2
  <2>3. ASSUME NEW verdict, require_transition_still_legal(r, verdict),
               status' = [status EXCEPT ![r] = verdict],
               append(r, {Event("verification_started", None, None),
                          Event("verification_completed", None, None)})
        PROVE  SettledInv'
    <3>1. status[r] = "verifying" /\ verdict \in {"passed", "passed_with_warnings", "failed", "error"}
      BY <2>3 DEF require_transition_still_legal, validate_run_transition, validate,
                  RUN_TRANSITIONS
    <3>2. \A e \in {Event("verification_started", None, None),
                    Event("verification_completed", None, None)} :
            e.type \notin TerminalInvocationEvents
      BY DEF Event, TerminalInvocationEvents
    <3>3. \A x \in Runs : LogSteady(x)
      BY <2>3, <3>2, AppendSteady
    <3>4. \A x \in Runs :
            /\ status[x] = "purged" => status'[x] = "purged"
            /\ status'[x] = "awaiting_confirmation" <=> status[x] = "awaiting_confirmation"
            /\ status'[x] \in UnderVerdict => status[x] \in UnderVerdict
      BY <2>3, <3>1 DEF UnderVerdict, TypeOK
    <3> QED BY <2>1, <3>3, <3>4, SettledFrame
  <2> QED BY <1>5, <2>2, <2>3 DEF Conclude
<1>6. ASSUME NEW r \in Runs, Verify(r) PROVE SettledInv'
  <2>1. CASE VerifyCapture(r)
    BY <1>1, <2>1, UnchangedSteady DEF VerifyCapture
  <2> QED BY <1>5, <1>6, <2>1, GateSettled DEF Verify, Seal, Abandon
<1>7. CASE Crash
  <2>1. \A q \in Requests : /\ req'[q].pc = IF req[q].pc = "idle" THEN "idle" ELSE "done"
                            /\ req'[q].run = req[q].run
    BY <1>7 DEF Crash, TypeOK, RequestRecord
  <2>2. \A q \in Requests : CallSteady(q)
    BY <2>1 DEF SettledInv, TimelineInv, CallInFlight, CallSteady, Dispatched
  <2> QED BY <1>1, <1>7, <2>2 DEF Crash
<1>8. ASSUME NEW z \in Resets, Reseed(z) PROVE SettledInv'
  BY <1>1, <1>8, UnchangedSteady DEF Reseed
<1>9. CASE UNCHANGED vars
  BY <1>1, <1>9, UnchangedSteady DEF vars
<1> QED BY <1>2, <1>3, <1>4, <1>6, <1>7, <1>8, <1>9, ResetSettled DEF Next

\* However requests, decisions, verifications, crashes and resets interleave, each call is
\* closed at most once, a run waits for exactly the one confirmation that is pending, and
\* neither a call nor an approval is left to move a run that is being judged or was.
THEOREM RunsAreSettled == Spec => []RunSettled
<1>1. Init => SettledInv
  <2> SUFFICES ASSUME Init PROVE SettledInv
    OBVIOUS
  <2>1. \A q \in Requests : req[q].pc = "idle" /\ conf[q].status = "none"
    BY DEF Init, NoRequest, NoConfirmation
  <2>2. \A r \in Runs : log[r] = {} /\ status[r] = "unarmed"
    BY DEF Init
  <2>3. TimelineInv
    BY <2>1, <2>2 DEF TimelineInv, OneTerminal, RowInFlight, CallInFlight, ClosedBehind, Dispatched
  <2>4. \A r \in Runs : Waits(r) /\ Quiet(r)
    BY <2>1, <2>2 DEF Waits, Quiet, PendingOf, Dispatched
  <2> QED BY <2>3, <2>4 DEF SettledInv
<1>2. TypeOK /\ ConsentInv /\ SettledInv /\ [Next]_vars => SettledInv'
  BY SettledStep
<1>3. SettledInv => RunSettled
  <2> SUFFICES ASSUME SettledInv PROVE RunSettled
    OBVIOUS
  <2>1. OneTerminal
    BY DEF SettledInv, TimelineInv
  <2>2. AwaitingOne
    <3> SUFFICES ASSUME NEW r \in Runs
                 PROVE  Cardinality(PendingOf(r)) =
                          (IF status[r] = "awaiting_confirmation" THEN 1 ELSE 0)
      BY DEF AwaitingOne
    <3>1. Waits(r)
      BY DEF SettledInv
    <3> QED BY <3>1, FS_EmptySet, FS_Singleton DEF Waits
  <2>3. QuietVerdict
    BY DEF SettledInv, Quiet, QuietVerdict, LiveApprovals, UnderVerdict, Dispatched
  <2> QED BY <2>1, <2>2, <2>3 DEF RunSettled
<1> QED BY <1>1, <1>2, <1>3, Typed, ConsentHolds, PTL DEF Spec
==================================================================================
