# ActionWitness: a verification project

ActionWitness watches what an agent's tool calls do to a target, asks a human
before the dangerous ones, and judges the result against a contract. This
directory holds TLA+ models of its core, the TLC configurations that check them
on small instances, and TLAPS proofs for every size. Module and definition names
follow the Python source; `PROJECT.json` maps each definition to its lines.

## 1. The system

| Component | State it keeps | Operations | Interacts with |
|---|---|---|---|
| Run lifecycle (`run_service`, `invocation_service`, `verification_gate`, `verification_service`) | `runs.status`, `workspaces.active_run_id`, events, snapshots, findings | arm, invoke, verify | the target through an adapter; confirmations; artifacts |
| Confirmation gate (`confirmation_service`, `decision_service`) | `confirmation_requests` | open, decide, expire, claim, withdraw | an invocation opens, a human decides, a second invocation resumes |
| Ceilings and guidance (`limits`, `guidance_service`) | counts of rows and events, guidance rows | guard, trip, hand off | every writer of a timeline |
| Selection and arming (`contract_service`, `scenario_service`, `routes/workspace`, `run_service`) | the selected contract, mode and profile; the target's own scenario | select, prepare, record, arm | read, wait on the target without a lock, re-read and write |
| Surface capture (`surface_service`) | surfaces on the timeline | capture | arms the identity check of invocations |
| Workspace (`workspace_service`, `scenario_service`, `contract_service`) | selections, the active run | reset, purge, reseed, select | cancels whatever is under way |
| Locks and transactions (`locks`, `database`) | one asyncio lock per workspace | hold, release, sweep | everything that writes |
| Demo store (`examples/buggy_store`) | cart, order, idempotency records, scenario, confirmations | update_cart, apply_discount, checkout, select_scenario | the page and the adapter |
| Store adapter (`integrations/buggy_store`) | nothing between requests | execute, prepare, observe | turns one protected call into three requests |
| Verification engine (`engine/`, `reports/`) | none: pure functions | assertions, policies, diff, classification, composition | judges a timeline and two observations |
| Shopify pairing (`shopify_pairing`) | pairings, sessions, captures | create, redeem, capture, verify, expire | feeds an external observation to the gate |
| Shopify bridge (`shopify_bridge/`, `integrations/shopify`) | a tab's state, its session, its timer, the offered tool | start, verify, expire, tear down; normalise a cart | redeems the launch link, reads the cart, posts it to the pairing |
| Regression evals (`eval_case_service`, `eval_run_service`, `eval_runner`) | cases, evaluation runs, workspaces of their own | cut a case, open, restore, replay, judge, finish, clean | call the adapter and the engine, without the workspace lock |
| Benchmarks (`benchmark_*`) | suites, trials, variants, evaluation runs, the sealed report | import, freeze, bind, start, replay, repeat, finalize | bind browser runs, replay through the eval runner |
| Artifacts and cleanup (`artifacts`, `cleanup`) | files and their rows | write, record, read, sweep | every report; the hourly sweep |
| Event streams, rate limits (`event_stream`, `limits`, `rate_limits`) | slots, buckets, in memory | reserve, poll, end, take, forget | the timeline; workspace creation |
| Browser frontend | registered tools, open dialogs | register, toolchange, decide | calls the API |

What is hard here is not any one handler. A handler is a coroutine that commits
several short transactions and holds nothing while it observes the target, calls
the adapter or waits for a human. Every decision it took from a read may be stale
when it writes, the process may stop between two commits, and nothing is
recovered at start-up. `PROJECT.json` lists the hazards at their lines.

What makes each part correct: a protected call happens only on the approval it
spent, once, and for what was approved; an invocation is closed at most once; a
verdict describes a settled moment and is final; one run at a time holds the
workspace; nobody waits forever; the timeline stays near its ceiling; the store
orders what was consented to, once per key, and a retry is harmless; a Shopify
trial has one session and one cart per phase, its verdict is its run's, and a
storefront tab shows what was sealed. A run
keeps the inputs it was armed with, over a baseline of its own contract; a pass and a
blame are borne out by what really happened; a case reproduces its failure and a green
replay is earned; a counted trial has evidence of its own; a row leads to a whole
file; and a client that is told a run ended has seen all of it.

## 2. Modules

* `Transitions`: the three lifecycle tables and the state sets derived from them.
* `RunLifecycle`: one workspace's runs, confirmations, invocations, decisions,
  verifications and resets. One action is one transaction, one read or one piece
  of target I/O. A request is a small program (`req[q].pc`): read the run, find an
  approval, observe, start or claim or withdraw, dispatch, terminate. The timeline
  is a set of events, each with the request that appended it.
  `conf[c].claimer`, `granted` and `mutated` are history.
* `ApproveOnce`: what the gate promises, without handlers: consent is asked for,
  granted, perhaps withdrawn, and spent by at most one mutation.
  `RunRefinesApproveOnce` reads the rows, the claims and the calls as stages of
  consent; the refinement is checked as a property.
* `RunTimeline`: how many events each transaction appends, against FR-008's
  ceiling, and the guidance phase last recorded. What the events say is in
  `RunLifecycle`; here only how many there are matters.
* `BuggyStore`: the demo store and its adapter. Store operations are one
  transaction each under the store's lock, except scenario selection, which
  commits twice. The adapter's protected dispatch is three requests, each of whose
  answers may be lost, and the storefront page acts in between.
* `ShopifyPairing`: one workspace's Shopify trials. A bridge request is a read that
  authorizes, then a writing transaction, then for a final cart the gate and the
  seal. The read is on an autocommitting connection without the workspace lock, so
  the expiry it writes stays; a refusing transaction rolls back the one it writes.
  The operator resets, verifies the pairing's run by hand, and arms runs against
  other targets. A pairing and the run it makes share a name; `minted` is history.
  What the operator's status endpoint reads (`reported`, `status_readable`,
  `report_offered`) are operators over that state.
* `ShopifyCart`: the storefront's `cart.js` body, the adapter's normalisation with its
  refusals, and the terms of the cart-only contract, as operators.
* `ShopifyTab`: the bridge script in each tab that opened one launch link, composed with
  `ShopifyPairing` and `ShopifyCart`. `start` and `verify` are cut where they await; a
  message is the request's own step in `ShopifyPairing`, whose answer may be lost. The
  expiry timer, the tool an agent may call again while a call runs, and teardown
  happen at any time.
* `Arming`: the workspace's configuration, the targets' own scenarios, and requests
  that select, arm, reset or finish a run. A request that waits on the target is
  several steps: the read, the preparation or observation (which may fail, or happen
  with its answer lost), and the locked transaction that re-reads and writes or
  refuses.
* `Observation`, `Engine`: the verification engine as operators. A context is a
  function from leaf paths to scalars; a timeline is a sequence of events; an
  evaluation is a set of findings. Both are extended by the modules that record
  evidence. `Verdict` records one run's: untrusted tools leave any state and report
  what they like, observations fail, others edit the target, a human answers, the
  page changes its tools. A verification is the steps the code takes it in: the
  gate's transaction, which reads the timeline (`Gate`), the final observation under
  no lock (`Observe`, or `Unobservable`), and the evaluation with its seal (`Seal`);
  `judging` is what it has read. Captures, and edits by others, go on in between and
  afterwards. What really happened is kept beside the record (`call[c].left`, which
  executions moved the target), and the properties compare the verdict with that.
* `RegressionEval`: a judged run is cut into a case and replayed in workspaces of
  their own, each replay a sequence of transactions and calls that may stop anywhere.
  The target is a deterministic constant `Behave`, so that reproducing means
  something.
* `Benchmarks`: one suite with its rows and evaluation runs, and requests that hold
  the workspace lock (import, freeze, bind, start, finalize) or do not (replay,
  repeated trials), the latter one transaction at a time.
* `Workspaces`: requests, the lock table with its reference counts, the creation
  bucket, artifact files and rows, the sweep, and restarts, which lose what is in
  memory and keep what is on disk.
* `EventStreams`: a run's timeline, the connections of a client, the frames on the
  wire, and the slots. A client that connects while every slot is held is answered
  409 and has given up (`refuse_event_stream`, `refused`).
* `MC...`: the instances: symmetry, constants that are not model values, and for the
  larger ones a constraint `Focus`, explained below.
* `Absence`: the constant `None`, Python's null, which the modules that are proved or
  composed together share.
* `...Proofs`: the theorems of the module they are named after; `RunRecordProofs` those
  of `Arming`, `RunTimeline` and `EventStreams`, `ShopifyProofs` those of
  `ShopifyPairing` and `ShopifyTab`, `ReplayProofs` those of `Benchmarks` and
  `RegressionEval`. Modules whose theorems share a file name their specification after
  what it is of (`TimelineSpec`, `StreamSpec`, `TabSpec`, `EvalSpec`).
* `SetTheorems`: facts about finite sets and sums over them that these proofs share.

Operators whose comment begins with "slip" are plausible bugs; each is put in the
place of the definition that follows it to show that some property notices.

### Abstractions

* Argument documents and canonical states are model values, told apart exactly as
  their hashes tell them apart. Prices are derived from lines and discount and left
  out.
* Ids are those of the request that made them. A confirmation and the correlation
  of its invocation carry the id of the request that started it.
* A dispatch may leave the target in any state: no assumption is made of the target.
* Of several live approvals for one tool the code takes the latest decided; the
  model takes any.
* Time is a window that is open or lapsed, except in `Workspaces`, where the idle
  times of workspaces and buckets are compared: there it is a clock of few ticks.
* Trusted: SQLite's isolation of `BEGIN IMMEDIATE` transactions. That the workspace
  lock excludes is `Workspaces`' `OneHolder`, which the other modules take as given;
  a lock wait that times out is modelled.
* In `Engine` an empty object reads as an absent one, hashes are the states they are
  of, and a decimal is an integer with its spelling. `Verdict` abridges the handlers
  to what the timeline shows of them; their interleaving is `RunLifecycle`'s.
* In `Workspaces` two writers stand for all that keep artifacts: an audit, which
  completes with its report, and an import, which may be repeated under one name.
* `EventStreams`' client is the `EventSource` of the HTML standard as the comments of
  `event_stream.py` describe it; the repository's own page polls instead. It closes on
  the `end` of a run, reconnects after any other end, and takes an answer other than 200
  for the last: `WORKSPACE_LIMIT_EXCEEDED` is a 409 that is not retryable. It is the only
  client of its workspace.
* A purge is modelled as status `purged`; a row that a purge removed keeps its
  binding for the history the properties read.
* Proposal runs are left out of `RunLifecycle`. External observations and a reset's
  cancellation of a live pairing are in `ShopifyPairing`, where a run of another
  target is abridged to its arming and its end and a pairing's run to its status:
  no route but verification acts on it, because no registry slot carries the
  adapter id it was created with and an invocation is refused before it writes.
* A session credential is the name of the request that minted it; that a digest
  binds it to workspace, contract and origin is taken as given. A bridge may send
  any request, in any order, with any credential handed out or with none. The
  reading connection's expiry is one step, although it reads and then updates on
  condition: a status that moved in between makes the update write nothing.
* In `ShopifyTab` the browser's clock agrees with the server's, a hidden page runs no
  more of the script though what it posted may arrive, and the store serves any body
  of a small set that has each way a cart can be wrong. Terms weighed as warnings
  (`Warning`) come from the contract the pairing was created with, which may be any of
  the workspace's.

## 3. Runs

| Run | Bounds | What it shows |
|---|---|---|
| `consent` | 1 run, 3 requests, 2 tools, 2 argument sets, 2 states, 2 decisions under way, crashes and lock timeouts | `ConsentBound`, `ApprovedOnce`, `RunSettled` (one terminal event per call, one confirmation awaited, nothing moving under a verdict), and that the lifecycle implements `ApproveOnce` |
| `live` | 2 runs, 2 requests of a protected tool, 1 reset with purge and late reseed, no faults, fairness | `OneLiveRun`, `VerdictsFinal`; `DecisionArrives`, `VerificationEnds`, `DispatchReported` |
| `timeline` | a ceiling a few events above one verdict's reservation, 3 calls under way | `OverrunBounded`, `GuidanceCurrent` |
| `store` | 1 product, line bound 2, 1 key per tool, 2 confirmations, 1 dispatch, 3 faults, 3 versions | `OrderConsented`, `OneOrderPerKey`, `StateEarned` (harmless retries, isolated scenarios), `AnswerTrue` |
| `pairing` | 2 pairings, 1 other run, 5 bridge requests, 2 carts, room for 2 artifacts, resets and crashes at any time | `OneLivePairing`, `OneSession`, `OneMoment`, `StatusBacked` (with `VerdictsAgree`), `CaptureInTime`, `ResetReachesTab` |
| `tab` | 1 pairing, 2 tabs, 2 calls of the tool each, every kind of body, lost answers, resets, crashes | `ShownIsTrue`: what a tab shows was sealed (`ShownIsSealed`), and a pass is of the exact cart (`PassIsExact`) |
| `verdict` | 2 calls, 2 tools, 3 states, 2 request ids, 1 edit by others, 2 captures of 4 surfaces at any time, 3 contracts that between them hold every kind of term | `PassIsEarned`, `BlameIsEarned`, `RowMatchesReport` |
| `evals` | source runs of up to 2 calls under 5 behaviours of the store, 3 contracts, 3 beginnings, 2 replays; of 3 calls with undoing ones under a limit on a request alone, 1 replay | `GreenIsEarned`, `Reproduces` |
| `benchmarks` | 3 reports of 1 or 2 trials, 4 sets of variants, 2 browser runs, 2 evaluation runs, 2 repetitions, 2 requests | `OutcomesBacked`, `RepetitionsSound`, `MatrixHolds`, `SealedStays` |
| `workspaces` | 2 workspaces, 3 requests, 3 lock objects, 1 document, 1 audit, 2 ticks, 1 restart | `TypeOK`, `OneHolder`, `SealedReadable`, `CreationsBounded` |
| `streams` | 3 connections for 2 slots, 4 events in pages of 2, 2 losses | `EndIsComplete`, `StreamFinishes` (told of the end, or turned away after as many losses as slots) |
| `arming` | 2 contracts over a driven and an observed target, 2 modes, 2 profiles (one not built), 2 requests, 2 runs | `InputsFixed`, `RunWellFounded`, `SelectionPrepared` |

Why the bounds are enough to be interesting: three requests are one that asks
and two that race to resume it; two argument sets and two states let a resume
disagree with what was approved; two decisions under way let an approval race a
refusal or an expiry. Two runs and a reset let a verification or a request outlive
its run. Two confirmations let the page and the adapter hold one each; a line bound
of 2 is the least at which a duplicated retry adds and saturates. Five bridge
requests are a whole trial with both observations repeated, or one trial and the
beginning of the next; two artifact rows let a verdict be refused for want of one.
Two tabs of two calls let each of them overtake the other's redemption, cart and verdict.
Two calls are what a repeated request, an order of tools or a wrong attribution
needs; three, a request that comes back after an undo. Two requests against a suite are
a replay and whatever overtakes it. Three requests for one lock are one inside, one
waiting and one that arrives as the object is dropped. Four events in pages of two end a
run exactly at a page's end, and one connection more than the slots is a client whose
lost connections still hold both, and which is then refused.
The safety theorems below remove these bounds where they apply.

`Focus` leaves out combinations in which nothing can meet: `verdict` explores surface
captures under the contract that reads them, `evals` explores replays side by side for
runs of one call, and runs of three calls under the one contract whose only limit is on a
request, `benchmarks` does not combine a second trial, a frozen set and a second
repetition, `workspaces` keeps the requests under way to one workspace. The theorems have
no such constraint.

`CHECK_DEADLOCK FALSE` is set where the system may stop: the lifecycle, whose sets of
requests and resets are finite, a run that has its verdict, replays that are done, a
stream that was closed and tabs whose calls are used up. The other runs are checked for
deadlock.

Fairness (`FairSpec`): weak fairness of every step of an accepted handler, because
asyncio runs every ready task and each wait is bounded; of the clock; of the poll
that expires a lapsed request, because the page that shows a run polls it and each
read calls `expire_lapsed`; of the reseed that follows a reset. Nothing is assumed
of humans, of new requests, or of a request for verification. The run `live` has no
crashes: a stopped process recovers nothing. `EventStreams` assumes that the event
loop runs every generator, one whose client is gone until its write fails, that the
client takes what is on the wire, and that one which lost its connection asks for another
and is answered, with a stream or with the refusal that ends it; it does not assume that
it asks again after a refusal, nor that the run ends, and losses are bounded by
`MaxLosses`.

### Where the code departs from what is said of it

Stated in the modules and refuted by TLC when the formula is made the only property
of the configuration named (of the module's own, where that is the name given); no run is
kept for them:

* `WithdrawnCallsClosed` (`RunLifecycleConsent`): a withdrawn approval leaves its
  invocation without the terminal event that "every one of those paths converges on"
  (`invocation_service.py`), and the gate then refuses the run for good.
* `StoppedRunRefusesActions` (`RunLifecycleConsent`): a resume that read the run before
  the event ceiling stopped it still spends its approval and dispatches (`limits.py`:
  "reject further target actions").
* `ApprovalUnexpired` (`RunLifecycleConsent`): an approval does not expire once given
  (`memory/constitution.md`: "bound to the workspace, run, action, arguments, and
  expiry").
* `VerificationEnds` with `ArtifactRoom = 0` (`RunLifecycleLive`): with 25 artifacts
  recorded, the seal rolls back and the run stays in `verifying`.
* `PermittedMoves` (`ShopifyPairing`): a bridge request that comes after the lifetime
  elapsed expires a pairing whose verdict another request is computing; the seal then
  finds no `verifying` pairing and rolls back, and the run stays in `verifying`.
* `OneRunInFlight` (`ShopifyPairing`): a first cart arms its run without asking whether
  another run holds the workspace.
* `LabelTrue` (`Arming`): `_select_and_prepare` prepares the target because otherwise
  "every verdict from it would carry a label that is not true", but selecting a contract
  prepares nothing and leaves the mode of the target before, and arming compares the mode
  with nothing. The label is also untrue when the target was prepared and the record then
  refused (a select refused because of a live run has already switched that run's
  target), when the preparation's answer is lost, and when a reset's reseed comes late.
* `ToolOnlyWhileValid` (`ShopifyTab`), the bridge's header ("Registers
  `verify_shopify_outcome` while — and only while — the pairing is valid"): when the
  lifetime elapses while the first cart is on its way, the timer ends the tab, and the
  answer then arms it again and registers a tool that has no credential and that no timer
  withdraws.
* `ErrorMeansNoVerdict` (`ShopifyTab`), what a tab in `error` says ("recorded no verdict"):
  a lost answer leaves it untrue, and so, with `Lossy = FALSE` and
  `Warning = {"the_expected_currency"}`, does `verify`, which takes
  `passed_with_warnings` for an invalid verdict.
* `ReportedEndStays` (`ShopifyPairing`): the status endpoint reports `expired` of a trial
  that is being verified, and the seal, which does not look at the lifetime, then gives it
  a verdict ("the durable write happens on the next bridge request").
* `ClassifiesAlike` with `Contracts <- ParityContracts` (`RegressionEval`): "a
  replayed run must classify identically to its source" (`eval_runner.py`), but a
  replay records no start events, from which the undeclared-change policy learns which
  tools ran. A surface captured after the verdict makes the same difference where a
  contract reads the surface: the verdict did not see it, and the case is cut with it.
* `EveryRequestOnce` (`RegressionEval`), of a replay that passes: "repeating one
  request ID may change canonical state at most once" (`policies.py`). A step is
  compared with the last state that *was* observed (`eval_runner.py`,
  `running_before`), so of a call that follows an unobserved one and brings the target
  back to the state before it the replay records no mutation: with edit, an undo that
  nobody observed, and edit under the same request id, a contract whose only limit is
  on that request passes although the request moved the target twice. The shipped
  templates with such a limit have no other. `GreenIsEarned` therefore counts a
  request's effects of the calls that follow an observed one, and of all calls where
  the contract limits mutations too, which leaves no call unobserved.
* `LateSurfacesJudged` (`Verdict`): `POST .../tool-surface` asks for no run status
  (`surface_service.py`), so the surface captured while a run is `verifying`, or after
  it, is on the timeline of a run that passed and was not judged: the gate's
  transaction had read the timeline before. `PassIsEarned` is of the surfaces captured
  before the gate.

Noticed while modelling:

* The verdict writes more events than were reserved for it (`OverrunBounded` says how
  far). A second dispatch under an order's key is a conflict and not a replay, because
  the adapter's fresh confirmation id is part of what the key is hashed with. The
  confirmation the adapter opens is bound to the cart at dispatch. The expiry of a
  pairing nobody redeemed is rolled back with the redemption it refuses.
* Engine: with a target that others move during a call, or with an assertion about an
  ancestor of the part that was kept of a snapshot, blame may fall on a call that did
  not do it; `Verdict` has the constant `Disturbed` for the first, `FALSE` in the run.
* Evals: the consent a replay grants for a tool is the first decision the source
  recorded for it, for every later step too (`Reproduces` asks that all were
  approvals). A stop leaves the replay's workspace, and a swept owner leaves the
  report's update without a row.
* Benchmarks: `/replay` and `/repeated-trials` run without the lock and finish rows
  with no test of the suite's or the row's state, so a late repetition makes an
  `unbound` row eligible in a suite that is `ready`, and a replay replaces an
  evaluation run bound by hand (`OutcomesBacked` holds of what is then counted). A
  replay that stopped half way is judged and counted. A refused finalization may
  mark in error a suite that has meanwhile become `ready` or `running`, though never
  one that ended (`SealedStays`). A stop leaves a suite `running`.
* Files: the docstring of `cleanup.py` says files go before rows, and the sweep removes
  rows first; the file of a sweep that stopped in between, of a workspace the swept one
  owned, or of a purged row is never removed. A restart renews the creation burst.
* Streams: the end of an idle stream is the same named frame as the end of a run, and
  events appended after the terminal status (a late report of a dispatch) are not
  streamed. A client that lost as many connections as there are slots, before the
  server learned of it, is refused with an error that is not retryable, and does not
  see its run end though a slot is free a moment later.

## 4. Proofs

Assumptions are those the modules state: `ConstantsAssumption` and
`NoneAssumption` (protected tools are tools, `None` is no value), `BudgetAssumption`
and `ContractAssumption` (the ceiling leaves room for one verdict: 250 events against
at most 25 assertions and 10 policies), `StoreAssumption`, `PairingAssumption` (the
runs of other targets are not a pairing's), `ArmingAssumption`, `StreamsAssumption`,
`WorkspacesAssumption` and `IdleAssumption` (a bucket is forgotten only after a time in
which it refills: 3,600 s against a bucket that refills in an hour),
`BenchmarksAssumption`, and of the engine `VerdictAssumption`, another
`ContractAssumption` and `TargetAssumption` (what a contract, a tool and a state of the
target are), `EvalAssumption` and `WorkspaceAssumption` (a replay's workspace is never the
interactive one). `RecordAssumption`, `EnumAssumption` and the two `RowAssumption`s say
that the null of a column is no record, no row and no value of an enumeration, which
untyped TLA+ does not know by itself. An evaluator's report is a sequence and the names of
documents are finitely many. No size is assumed.

Four theorems have hypotheses of their own. The instance of each run satisfies its own, and
on an instance that does not TLC refutes the property:

* `RowAlwaysMatches`: a contract forbids undeclared changes at most once
  (`OneUndeclared`). The code accepts two such policies with different waivers. The
  report's block is then of the first finding, which may have passed where the other
  failed the run (`verification_service.py`).
* `PassAlwaysEarned`, `BlameAlwaysEarned`: nobody else moves the target between a call's
  two observations (`~Disturbed`).
* `BlameAlwaysEarned`: a tool that may touch something of what a term reads declares all
  of it (`WholeEffects`). Otherwise a term such as `count_equals` is evaluated on a part
  of the state (`classification.py`).
* `ShownIsAlwaysTrue`: the `item_count` of a cart's body is of units (`CountsUnits`): a
  storefront is trusted to count its own cart. Of a body with two lines of the variant
  and a count of one, the contract's terms hold.

The modules, and the argument of each:

* `RunLifecycleProofs`: `Typed`; `ConsentIsBound` and `ApprovalSpentOnce`, from
  `ConsentInv`. Neither property is inductive: what a call that has reached the adapter
  was entitled to was established by three reads and a conditional update taken at
  different times. `ConsentInv` says what each point of a request knows of the row it
  holds (`RequestInv`) and what a row says of its past (`RowInv`): a row opens with the
  last step of the request it is named after, so it never moves under a request that
  still runs; from the claim on, the row names its claimer, and two claimers of one row
  are the same request. `LeaseIsSingle` and the action property `VerdictsAreFinal`: a
  step moves the workspace's lease in one of few ways (`LeaseStep`), each of which
  leaves no other run live, and a run that has ended moves nowhere but to the reset's
  purge. `LifecycleApprovesOnce`, the refinement: under the mapping of
  `RunRefinesApproveOnce` every step asks for, grants, closes, spends or mutates on one
  consent, or leaves all of them alone; that a mutation is the first on its consent is
  `ConsentInv`. `RunsAreSettled` from `SettledInv`: what is open on a timeline is held
  open by a row or by a request that will close it (`RowInFlight`, `CallInFlight`),
  nothing is open behind a verdict (`ClosedBehind`, `Quiet`), and a run that waits has
  the row it waits for (`Waits`).
* `RunRecordProofs`, the timeline: `Typed`; `OverrunIsBounded` from `BudgetInv`, which
  counts what a run is still owed (a pending request its decision, its terminal event
  and its handoff, a call its report) with what it has written; `GuidanceIsCurrent`,
  which is inductive with the type invariant. Arming: `ArmingTypes`; `ArmedInputsFixed`,
  `ArmedWellFounded` and the action property `RecordedWasPrepared`. What a request knows
  at each of its steps is the invariant's second part: at the transaction that writes,
  the baseline it carries was captured from the target of the contract it read, and the
  re-read makes that contract the workspace's. Selections are refused while a run is in
  flight, which is what keeps the first. Streams: `StreamEndIsComplete` from
  `StreamInv`, which follows an event from the page a connection holds (`PageInv`: a
  page is a consecutive piece of the timeline after the cursor, and one read with a
  terminal status and no more to come reaches the end), through the wire (`WireInv`), to
  the client (`ClientInv`). `RefusalHasCause` from `SlotInv`: the slots held are those of the
  client's connection and of the ones it lost (`Behind`), so who is refused has lost as
  many as there are.
* `BuggyStoreProofs`: `Typed`; `OrdersAreConsented` and `KeysOrderOnce` from `OrderInv`:
  an order's key is recorded with the confirmation it spent, and what is approved was
  approved for a human. The second part needs that the adapter only ever approves for a
  dispatch that carried consent (`DispatchInv`). `StateIsEarned` from `EarnedInv`: a key
  without a record changed nothing, and a scenario selection between its two commits has
  left neither state nor record. `AnswersAreTrue`, an action property, from the types.
* `ShopifyProofs`, the pairing: `Typed`; `PairingIsSingle`, `LinkOpensOnce`,
  `VerdictsAlwaysAgree` and the action property `FinishedTrialsStay`. The invariant is
  `Safe`, their conjunction with `LinkSpent` (a pairing that minted a credential has
  left `created`), above `FlightInv`: a request under way names a pairing that exists.
  The steps are of few kinds (nothing moves, a run moves within flight, a trial
  advances), one lemma each; `create`, `redeem`, the seal and the reset are proved by
  themselves. The action properties `CapturesAreInTime`, from the check that the writing
  transaction repeats, and `ResetsReachTheTab`, which needs `SessionClosed`: a cancelled
  pairing has no session left for a credential to match. `TrialsObserveOneMoment` and
  `StatusesAreBacked` from `Evidence`: a cart that was told to count is the one its
  trial keeps until a purge (`Stands`), and what a trial's status says of its run and
  its carts is on record (`Backed`); `VerdictsAgree` is its first conjunct.
* `ShopifyProofs`, the tabs: `TabsUseTheService`, a refinement: every step of a tab is a
  step of the pairing service or leaves it alone, so all of the above holds with the
  bridge script for an environment. `ShownIsAlwaysTrue` from `TabInv`. What a tab shows
  it was told in an answer that may have been overtaken by a reset, a timer or another
  tab, so `TabInv` follows a call from its request (`Posted`: a credential presented is
  one this tab redeemed) over the answer in the post (`Told`, `Replied`: what an answer
  says was true of the trial, and a sealed verdict stays so) to the tab (`InTab`,
  `InCall`), and says of each pairing what its carts were read from (`Grounded`). The
  rest is arithmetic on the exact-cart contract.
* `VerdictProofs`: `RowAlwaysMatches`, `PassAlwaysEarned`, `BlameAlwaysEarned`. The
  properties compare a verdict with what really happened, which the engine never sees,
  and none is inductive: a verdict is taken from a timeline to which many hands wrote
  before, and others go on writing to it, and to the target, between what verification
  reads and what it seals. `IInv` (`RecordHolds`) carries the truth along: what each
  call has done and not done yet (`CallBegun`), that a call between its two observations
  has the target to itself (`CallAlone`), what consent it had (`CallApproved`) and what
  its last event holds (`CallEnded`); of each event, the call or decision behind it
  (`EventInv`); of the page (`SurfaceInv`); and that a verdict is the engine's judgement
  of what was read. `Read`, `Shown` and `Final` are the timeline, the surfaces and the
  state as they are until verification reads them and as it read them from then on; a
  call can no longer change them once the gate is passed. The rest is about the engine:
  which findings a layer can hold, when a layer passes, and that the sets it counts are
  those that happened. Mutations are counted through an injection of the movers into the
  events that show them (`NoMoreThanLimit`).
* `WorkspacesProofs`: `LockExcludes` from `LockInv`: whoever waits for or holds a
  workspace's lock refers to the object the table holds (`SameLock`), the table counts
  them (`Counted`), and an object has one holder (`Exclusive`). `CreationsStayBounded`
  from `BudgetInv`: what was created and what is in the bucket never exceed the bursts
  and the ticks, and a bucket old enough to be forgotten is full. `SealedStaysReadable`
  from `SealedInv`, above `LockInv`: a workspace a request is under way for was seen
  within its time to live (`Fresh`), so what a sweep has still to unlink belongs to a
  workspace that is gone for good and that nobody is in (`Swept`); rows and paths stay
  with their workspace (`Owned`), and a replaced file is whole before its row is written
  (`Replaced`). `CeilingHolds` from `CeilingInv`: whatever is written, replaced or
  swept, a workspace's rows add up to no more than its ceiling, because a transaction
  counts and inserts without letting go. `WorkspacesTyped` needs it for the number of
  rows of a path.
* `ReplayProofs`, benchmarks: `OutcomesAreBacked`, `RepetitionsAreSound` and the action
  property `SealedSuiteStays`, all from `BenchInv`. `OutcomesBacked` by itself is not
  inductive: a replay finishes a row long after it looked at it. `BenchInv` adds what
  every half done request may rely on (`ReqInv`): its trial is still there, the
  evaluation run it opened is its own, still in `error` and so backs nothing yet, and a
  batch's indices follow on indices that are all there (`PlanInv`, which rests on the
  highest index existing, `HighestNumber`). What the others may do meanwhile is one
  relation, `Grows`: rows stay and keep what the evaluator said, and evidence that is
  final is not touched. A table that was copied into a report stays backed for the same
  reason (`TableKept`). `MatrixAlwaysHolds` from `ReadInv`: the rows are finitely many
  and each can be read back, an import's as they are found; then every row falls into
  one cell of the matrix, one layer of the breakdown and one population of the
  correlation.
* `ReplayProofs`, evals: `GreenAlwaysEarned` from `EvalInv`. A replay is judged from its
  own events long after the calls, and may stop, fail an observation or lose its owner
  in between. `EvalInv` says of a replay half way that its calls are its case's first
  steps, one event each, that an event shows a call that moved the target where this
  call and the one before it were observed (`Tells`), and that the state the next is
  compared with is the target's where the last was (`Replayed`). A row without a verdict
  is `Opened`, one with a verdict earned it (`Green`). A pass leaves no call of a
  repeated request unobserved (`RequestsKept`), nor any call at all under a limit on
  mutations (`AllSeen`), and the moves are then among the completions that were counted
  (`MoversAmong`). No contract or target is excluded.
* `SetTheorems`: a set of numbers has a least and a greatest member (`MinIs`, `MaxIs`),
  a sum over a finite set does not depend on the order it is taken in (`TotalSame`),
  grows by what is added, and is the sum of the sums over its parts (`FibresAddUp`).
  Induction over a finite set is done by a least counterexample (`Smallest`), which
  needs no theorem that takes an operator.

Only model-checked:

* liveness (`DecisionArrives`, `VerificationEnds`, `DispatchReported`,
  `StreamFinishes`), which rests on `ENABLED`;
* `Reproduces`. It compares two executions, the source's and the replay's, call by call over
  a trajectory that was pruned, from states that agree only in what the contract names. It
  is not true of every target: a tool whose effect on the named part depends on the rest
  need not do again from the minimised fixture what it did. The run checks it of a store
  whose tools do not. For every such target it would be an induction over the trajectory
  between two states of which one is in the past.

The type invariants of the proved modules are theorems and are repeated in no run but
`workspaces`.

## 5. Plan and what is not modelled

Done: the lifecycle with its consent gate, selection and arming, the timeline, the
store with its adapter, the Shopify pairing with its storefront script, the engine,
evals, benchmarks, workspaces with locks and artifacts, event streams; proofs of every
safety property a run checks but one. Next, most important first:

1. `Reproduces`, as a relation between the source's timeline and the replay's.
2. The self-target's second workspace, and proposal runs.
3. The frontend's tool registration against the run's phase.

Not modelled: parsing, canonical hashing and redaction (conversions without protocol
state); the generation of variants by a language model and the live evaluator (their
output is an input of `Benchmarks`); rendering of reports, comparisons and exports;
configuration, CLI, middleware and telemetry; migrations (run once, before anything
serves); of the storefront script the panel, the stripping of the URL fragment and a page
restored from the browser's cache; the frontend, whose requests the models let arrive in
any order; proposal runs and the self-target's scoped observation.
