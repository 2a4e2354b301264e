------------------------------ MODULE ShopifyPairing ------------------------------
(***************************************************************************)
(* The Shopify trial of one workspace: a pairing is created at the harness, *)
(* redeemed once by the bridge in a storefront page, armed by a first cart  *)
(* and judged on a second.  The bridge retries, two tabs may hold the same  *)
(* launch link, the lifetime elapses at any moment, the operator resets or  *)
(* verifies the run by hand, and the process may stop between transactions. *)
(*                                                                          *)
(* A bridge request reads on an autocommitting connection without the       *)
(* workspace lock, normalises the cart with nothing held, and writes in a   *)
(* transaction that a refusal rolls back.  So what a refusing read writes   *)
(* stays, and what a refusing transaction writes does not.                  *)
(*                                                                          *)
(* A pairing makes at most one run, which carries its name.  A session      *)
(* credential carries the name of the request that minted it: its digest    *)
(* covers the pairing's workspace, contract and origin, so that a digest    *)
(* matches is that the names do.                                            *)
(***************************************************************************)
EXTENDS Absence, Transitions, Integers, FiniteSets

CONSTANTS
    Pairings,         \* pairing ids, and the ids of the runs they make
    Ordinary,         \* ids of runs armed against the other targets
    Requests,         \* bridge requests, and the session credentials they mint
    Carts,            \* normalized carts, told apart by content_hash
    Empty,            \* the empty cart
    PairingCeiling,   \* SHOPIFY_PAIRINGS_PER_WORKSPACE
    RunCeiling,       \* OUTCOME_RUNS_PER_WORKSPACE
    ArtifactRoom      \* artifact rows the workspace may still record

ASSUME PairingAssumption ==
    /\ Empty \in Carts
    /\ PairingCeiling \in Nat
    /\ RunCeiling \in Nat
    /\ ArtifactRoom \in Nat
    /\ Pairings \cap Ordinary = {}
    /\ None \notin Pairings \cup Ordinary \cup Requests \cup Carts

RunIds == Pairings \cup Ordinary

VARIABLES
    pairing,         \* shopify_pairings
    active_pairing,  \* workspaces.active_shopify_pairing_id
    run,             \* runs.status
    active_run,      \* workspaces.active_run_id
    snapshot,        \* the two snapshots of each pairing's run
    req,             \* where each bridge request is, and what it was answered
    operator,        \* verifications by hand, between their gate and their end
    minted           \* history: session credentials handed out, with their pairing

vars == <<pairing, active_pairing, run, active_run, snapshot, req, operator, minted>>

----------------------------------------------------------------------------
\* Records and vocabulary

\* _PAIRING_TRANSITIONS
PAIRING_TRANSITIONS ==
    [ created              |-> {"paired", "expired", "cancelled", "error"},
      paired               |-> {"armed", "expired", "cancelled", "error"},
      armed                |-> {"verifying", "expired", "cancelled", "error"},
      verifying            |-> {"passed", "passed_with_warnings", "failed", "error"},
      passed               |-> {},
      passed_with_warnings |-> {},
      failed               |-> {},
      expired              |-> {},
      cancelled            |-> {},
      error                |-> {} ]

PairingStatus == DOMAIN PAIRING_TRANSITIONS

TERMINAL_PAIRING_STATUSES == {s \in PairingStatus : PAIRING_TRANSITIONS[s] = {}}

Pairing ==
    [status : PairingStatus \cup {"none"}, session : Requests \cup {None},
     run : Pairings \cup {None}, lifetime : {"open", "elapsed"}]

NoPairing == [status |-> "none", session |-> None, run |-> None, lifetime |-> "open"]

Snapshots == [before : Carts \cup {None}, after : Carts \cup {None}]

NoSnapshots == [before |-> None, after |-> None]

Answer == {"none", "paired", "captured", "replayed", "refused"}

Request ==
    [pc : {"idle", "write", "gate", "seal", "done"}, op : {"none", "redeem", "before", "verify"},
     pairing : Pairings \cup {None}, session : Requests \cup {None},
     cart : Carts \cup {None}, answer : Answer]

NoRequest == [pc |-> "idle", op |-> "none", pairing |-> None, session |-> None,
              cart |-> None, answer |-> "none"]

TypeOK ==
    /\ pairing \in [Pairings -> Pairing]
    /\ active_pairing \in Pairings \cup {None}
    /\ run \in [RunIds -> RunState \cup {"none", "purged"}]
    /\ active_run \in RunIds \cup {None}
    /\ snapshot \in [Pairings -> Snapshots]
    /\ req \in [Requests -> Request]
    /\ operator \subseteq Pairings
    /\ minted \subseteq Pairings \X Requests

Init ==
    /\ pairing = [p \in Pairings |-> NoPairing]
    /\ active_pairing = None
    /\ run = [r \in RunIds |-> "none"]
    /\ active_run = None
    /\ snapshot = [p \in Pairings |-> NoSnapshots]
    /\ req = [q \in Requests |-> NoRequest]
    /\ operator = {}
    /\ minted = {}

----------------------------------------------------------------------------
\* What the operations share

is_terminal_pairing(p) == pairing[p].status \in TERMINAL_PAIRING_STATUSES

\* _live: the pairing that holds the workspace's one slot
Live(p) == pairing[p].status # "none" /\ ~ is_terminal_pairing(p)

RunRows == {r \in RunIds : run[r] \notin {"none", "purged"}}

ArtifactRows == Cardinality({r \in RunIds : run[r] \in VERDICT_RUN_STATES})

\* _require_transition
require_transition(p, to) == to \in PAIRING_TRANSITIONS[pairing[p].status]

\* slip: what was read before the cart was normalised is taken to hold still
StillAuthorized(p, s) == pairing[p].session # None /\ pairing[p].session = s

\* _authorized with a session credential
authorized(p, s) ==
    /\ pairing[p].lifetime = "open"
    /\ pairing[p].session # None
    /\ pairing[p].session = s

\* nothing is asked of a request that was turned away, so nothing is kept of it
TurnedAway == [NoRequest EXCEPT !.pc = "done", !.answer = "refused"]

\* the request ends, so answered
Answered(q, answer) == req' = [req EXCEPT ![q] = [@ EXCEPT !.pc = "done", !.answer = answer]]

Refused(q) ==
    /\ req' = [req EXCEPT ![q] = TurnedAway]
    /\ UNCHANGED <<pairing, active_pairing, run, active_run, snapshot, operator, minted>>

----------------------------------------------------------------------------
\* Creation and redemption

\* slip: any number of pairings at once
AnyPairings == TRUE

\* _require_no_live_pairing, and the partial unique index that backs it
require_no_live_pairing == \A p \in Pairings : ~ Live(p)

create(p) ==
    /\ pairing[p].status = "none"
    /\ Cardinality({x \in Pairings : pairing[x].status # "none"}) < PairingCeiling
    /\ require_no_live_pairing
    /\ pairing' = [pairing EXCEPT ![p].status = "created"]
    /\ active_pairing' = p
    /\ UNCHANGED <<run, active_run, snapshot, req, operator, minted>>

\* fifteen minutes pass
Lapse(p) ==
    /\ pairing[p].status # "none"
    /\ pairing[p].lifetime = "open"
    /\ pairing' = [pairing EXCEPT ![p].lifetime = "elapsed"]
    /\ UNCHANGED <<active_pairing, run, active_run, snapshot, req, operator, minted>>

\* slip: a launch link opens a second session
Redeemable(p) == pairing[p].lifetime = "open" /\ pairing[p].status \in {"created", "paired"}

\* _authorized with the launch credential, and the move out of created that spends it
redeemable(p) == pairing[p].lifetime = "open" /\ pairing[p].status = "created"

\* redeem, one transaction: the expiry that _authorized writes before it refuses is
\* rolled back with everything else
redeem(q, p) ==
    /\ req[q].pc = "idle"
    /\ pairing[p].status # "none"
    /\ IF redeemable(p)
         THEN /\ pairing' = [pairing EXCEPT ![p] = [@ EXCEPT !.status = "paired", !.session = q]]
              /\ minted' = minted \cup {<<p, q>>}
              /\ req' = [req EXCEPT ![q] = [NoRequest EXCEPT
                            !.pc = "done", !.op = "redeem", !.pairing = p, !.answer = "paired"]]
       ELSE /\ req' = [req EXCEPT ![q] = TurnedAway]
            /\ UNCHANGED <<pairing, minted>>
    /\ UNCHANGED <<active_pairing, run, active_run, snapshot, operator>>

----------------------------------------------------------------------------
\* The two observations

\* _mark_expired, from any state that is not terminal
Expire(p) == IF is_terminal_pairing(p) THEN pairing[p] ELSE [pairing[p] EXCEPT !.status = "expired"]

\* the read of capture_before and of verify: an elapsed pairing is marked expired
\* before the credential is looked at, and the mark commits by itself.  None is a
\* submission that is not a cart.js read, or was not read from cart.js
BridgeRead(q, op, p, s, cart) ==
    /\ req[q].pc = "idle"
    /\ pairing[p].status # "none"
    /\ pairing' = IF pairing[p].lifetime = "elapsed" THEN [pairing EXCEPT ![p] = Expire(p)]
                  ELSE pairing
    /\ req' = [req EXCEPT ![q] =
                 IF authorized(p, s) /\ cart # None
                   THEN [pc |-> "write", op |-> op, pairing |-> p, session |-> s,
                         cart |-> cart, answer |-> "none"]
                 ELSE TurnedAway]
    /\ UNCHANGED <<active_pairing, run, active_run, snapshot, operator, minted>>

\* slip: a repeat is recognised by its phase alone
SamePhase(stored, cart) == stored # None

\* _replayed: the same cart again; anything else is refused
replayed(stored, cart) == stored = cart

guard_new_run == Cardinality(RunRows) < RunCeiling

\* _create_run
create_run(p, cart) ==
    /\ run' = [run EXCEPT ![p] = "armed"]
    /\ active_run' = p
    /\ snapshot' = [snapshot EXCEPT ![p].before = cart]

\* What each writing transaction accepts

RepeatsBefore(q) ==
    LET p == req[q].pairing IN
    /\ req[q].op = "before"
    /\ authorized(p, req[q].session)
    /\ pairing[p].run # None
    /\ replayed(snapshot[p].before, req[q].cart)

\* the run row is the only ceiling asked, and no lease
ArmsRun(q) ==
    LET p == req[q].pairing IN
    /\ req[q].op = "before"
    /\ authorized(p, req[q].session)
    /\ pairing[p].run = None
    /\ require_transition(p, "armed")
    /\ req[q].cart = Empty
    /\ guard_new_run

RepeatsAfter(q) ==
    LET p == req[q].pairing IN
    /\ req[q].op = "verify"
    /\ authorized(p, req[q].session)
    /\ is_terminal_pairing(p) \/ pairing[p].status = "verifying"
    /\ pairing[p].run # None
    /\ replayed(snapshot[p].after, req[q].cart)

AcceptsAfter(q) ==
    LET p == req[q].pairing IN
    /\ req[q].op = "verify"
    /\ authorized(p, req[q].session)
    /\ require_transition(p, "verifying")
    /\ run[p] = "armed"

----------------------------------------------------------------------------
\* The writing transactions of capture_before and verify

WriteBefore(q) ==
    LET p == req[q].pairing IN
    /\ req[q].pc = "write"
    /\ ArmsRun(q)
    /\ create_run(p, req[q].cart)
    /\ pairing' = [pairing EXCEPT ![p] = [@ EXCEPT !.status = "armed", !.run = p]]
    /\ Answered(q, "captured")
    /\ UNCHANGED <<active_pairing, operator, minted>>

\* slip: the run takes the pairing's vocabulary
TakesPairingStatus(p) == run' = [run EXCEPT ![p] = "paired"]

\* _accept_external_observation: the run leaves armed
accept_external_observation(p) == run' = [run EXCEPT ![p] = "running"]

WriteVerify(q) ==
    LET p == req[q].pairing IN
    /\ req[q].pc = "write"
    /\ AcceptsAfter(q)
    /\ accept_external_observation(p)
    /\ pairing' = [pairing EXCEPT ![p].status = "verifying"]
    /\ req' = [req EXCEPT ![q].pc = "gate"]
    /\ UNCHANGED <<active_pairing, active_run, snapshot, operator, minted>>

Replay(q) ==
    /\ req[q].pc = "write"
    /\ RepeatsBefore(q) \/ RepeatsAfter(q)
    /\ Answered(q, "replayed")
    /\ UNCHANGED <<pairing, active_pairing, run, active_run, snapshot, operator, minted>>

\* anything else is refused and rolled back, an expiry written on the way included
WriteRefused(q) ==
    /\ req[q].pc = "write"
    /\ ~ (RepeatsBefore(q) \/ ArmsRun(q) \/ RepeatsAfter(q) \/ AcceptsAfter(q))
    /\ Refused(q)

----------------------------------------------------------------------------
\* The verification that an accepted final cart starts

\* VerificationGate.begin; the external observation stands for a completed action
Gate(q) ==
    LET p == req[q].pairing IN
    /\ req[q].pc = "gate"
    /\ IF run[p] = "running"
         THEN /\ run' = [run EXCEPT ![p] = "verifying"]
              /\ req' = [req EXCEPT ![q].pc = "seal"]
              /\ UNCHANGED <<pairing, active_pairing, active_run, snapshot, operator, minted>>
       ELSE Refused(q)

\* slip: the pairing takes the verdict whatever became of it meanwhile
TakesAnyVerdict(p) == TRUE

\* _finalizer: the pairing must still be verifying, or the whole seal rolls back
on_seal(p) == pairing[p].status = "verifying"

\* _seal, the artifact row and on_seal, one transaction
Seal(q) ==
    LET p == req[q].pairing IN
    /\ req[q].pc = "seal"
    /\ IF run[p] = "verifying" /\ ArtifactRows < ArtifactRoom /\ on_seal(p)
         THEN \E result \in VERDICT_RUN_STATES :
                /\ run' = [run EXCEPT ![p] = result]
                /\ snapshot' = [snapshot EXCEPT ![p].after = req[q].cart]
                /\ pairing' = [pairing EXCEPT ![p].status = result]
                /\ Answered(q, "captured")
                /\ UNCHANGED <<active_pairing, active_run, operator, minted>>
       ELSE Refused(q)

----------------------------------------------------------------------------
\* The operator

\* POST /runs/{id}/verify on a pairing's run: the gate, like any other
OperatorGate(p) ==
    /\ run[p] = "running"
    /\ run' = [run EXCEPT ![p] = "verifying"]
    /\ operator' = operator \cup {p}
    /\ UNCHANGED <<pairing, active_pairing, active_run, snapshot, req, minted>>

\* no slot of the registry is named integrations.shopify, so nothing can be observed
\* and the run ends in error; the pairing is not told
OperatorAbandon(p) ==
    /\ p \in operator
    /\ operator' = operator \ {p}
    /\ run' = [run EXCEPT ![p] = IF @ = "verifying" THEN "error" ELSE @]
    /\ UNCHANGED <<pairing, active_pairing, active_run, snapshot, req, minted>>

\* arm, against another target; the lease and the row ceiling
OrdinaryArm(r) ==
    /\ run[r] = "none"
    /\ \A x \in RunIds : run[x] \notin NONTERMINAL_RUN_STATES
    /\ guard_new_run
    /\ run' = [run EXCEPT ![r] = "armed"]
    /\ active_run' = r
    /\ UNCHANGED <<pairing, active_pairing, snapshot, req, operator, minted>>

\* whatever that run does, abridged to its end
OrdinaryEnds(r) ==
    /\ run[r] = "armed"
    /\ \E result \in VERDICT_RUN_STATES \cup {"error"} : run' = [run EXCEPT ![r] = result]
    /\ UNCHANGED <<pairing, active_pairing, active_run, snapshot, req, operator, minted>>

\* slip: the open storefront tab keeps its credential
KeepsSession(p) ==
    IF Live(p) THEN [pairing[p] EXCEPT !.status = "cancelled"] ELSE pairing[p]

\* _cancel_live_shopify_pairing
cancel_live_shopify_pairing(p) ==
    IF Live(p) THEN [pairing[p] EXCEPT !.status = "cancelled", !.session = None] ELSE pairing[p]

\* slip: the deleted run is still referred to
KeepsReference(p) == p

\* ON DELETE SET NULL, of shopify_pairings.run_id
deleted_run(p) == None

\* reset: cancels what is in flight; a purge then deletes every run, all terminal by
\* now, with its snapshots, and the foreign key clears the pairing's reference
Reset(purge) ==
    /\ run' = [r \in RunIds |->
                 IF purge /\ run[r] # "none" THEN "purged"
                 ELSE IF run[r] \in NONTERMINAL_RUN_STATES THEN "cancelled" ELSE run[r]]
    /\ pairing' = [p \in Pairings |->
                     IF purge THEN [cancel_live_shopify_pairing(p) EXCEPT !.run = deleted_run(p)]
                     ELSE cancel_live_shopify_pairing(p)]
    /\ snapshot' = IF purge THEN [p \in Pairings |-> NoSnapshots] ELSE snapshot
    /\ active_pairing' = None
    /\ active_run' = None
    /\ UNCHANGED <<req, operator, minted>>

\* the process stops and restarts: what is committed stays
Crash ==
    /\ req' = [q \in Requests |->
                 IF req[q].pc \in {"write", "gate", "seal"}
                   THEN TurnedAway ELSE req[q]]
    /\ operator' = {}
    /\ UNCHANGED <<pairing, active_pairing, run, active_run, snapshot, minted>>

----------------------------------------------------------------------------
\* What the operator's page reads

\* _expire_if_elapsed: the status reported, which the read does not write
reported(p) ==
    IF ~ is_terminal_pairing(p) /\ pairing[p].lifetime = "elapsed" THEN "expired"
    ELSE pairing[p].status

\* a pairing that names a run whose row is gone is a harness error
status_readable(p) == pairing[p].run # None => run[p] \in RunState

\* _report_path
report_offered(p) == pairing[p].run # None /\ reported(p) \in VERDICT_RUN_STATES

----------------------------------------------------------------------------

Bridge(q) ==
    \/ \E p \in Pairings : redeem(q, p)
    \/ \E op \in {"before", "verify"}, p \in Pairings, cart \in Carts \cup {None} :
         \E s \in {c[2] : c \in minted} \cup {None} : BridgeRead(q, op, p, s, cart)
    \/ WriteBefore(q)
    \/ WriteVerify(q)
    \/ Replay(q)
    \/ WriteRefused(q)
    \/ Gate(q)
    \/ Seal(q)

Next ==
    \/ \E p \in Pairings : create(p) \/ Lapse(p) \/ OperatorGate(p) \/ OperatorAbandon(p)
    \/ \E q \in Requests : Bridge(q)
    \/ \E r \in Ordinary : OrdinaryArm(r) \/ OrdinaryEnds(r)
    \/ \E purge \in BOOLEAN : Reset(purge)
    \/ Crash

Spec == Init /\ [][Next]_vars

----------------------------------------------------------------------------
\* Properties

(* create: "At most one nonterminal pairing may exist per interactive          *)
(* workspace", and the workspace points at it: no interleaving of tabs,       *)
(* expiries, resets and operator verifications leaves a live pairing that     *)
(* the workspace does not name.                                               *)
OneLivePairing == \A p \in Pairings : Live(p) => active_pairing = p

(* redeem: a launch link opens one session, whoever presents it and however   *)
(* often, so no two credentials were ever handed out for one pairing.         *)
OneSession == \A c, d \in minted : c[1] = d[1] => c = d

(* _finalizer: "Pairing and run terminal results must agree": a run has a     *)
(* verdict exactly when its pairing has the same one, until a purge deletes   *)
(* the run; a late expiry does not rewrite what was earned.                   *)
VerdictsAgree ==
    \A p \in Pairings :
        /\ run[p] \in VERDICT_RUN_STATES => pairing[p].status = run[p]
        /\ pairing[p].status \in VERDICT_RUN_STATES => run[p] \in {pairing[p].status, "purged"}

(* _replayed: "A trial observes one moment": all bridge requests of one phase *)
(* of one pairing that were told their cart counted sent the same cart, and   *)
(* one of them at most was the one that captured it.                          *)
OneMoment ==
    \A q, r \in Requests :
        (/\ q # r
         /\ {req[q].answer, req[r].answer} \subseteq {"captured", "replayed"}
         /\ req[q].pairing = req[r].pairing
         /\ req[q].op = req[r].op)
        => /\ req[q].cart = req[r].cart
           /\ "replayed" \in {req[q].answer, req[r].answer}

(* FR-111 as capture_before re-checks it: a pairing whose lifetime elapsed    *)
(* while its cart was being normalised arms no run and moves none.            *)
CaptureInTime ==
    [][\A p \in Pairings :
          (pairing[p].lifetime = "elapsed" /\ run'[p] # run[p]) =>
              run'[p] \notin {"armed", "running"}]_vars

(* A finished trial is closed: whatever was in flight when it expired, was    *)
(* cancelled or got its verdict, its status stands and its evidence does not  *)
(* change, except that a purge deletes it.                                    *)
FinishedStays ==
    [][\A p \in Pairings :
          is_terminal_pairing(p) =>
              /\ pairing'[p].status = pairing[p].status
              /\ snapshot'[p] \in {snapshot[p], NoSnapshots}]_vars

(* _cancel_live_shopify_pairing: a reset reaches the storefront tab that is   *)
(* still open: from then on no request of the cancelled trial, already in     *)
(* flight or new, is told that its cart counted.                              *)
ResetReachesTab ==
    [][\A q \in Requests :
          (req'[q].answer # req[q].answer /\ req'[q].answer \in {"captured", "replayed"}) =>
              pairing[req[q].pairing].status # "cancelled"]_vars

(* _PAIRING_TRANSITIONS: a reset, which is legal from every state, apart,     *)
(* a pairing's status changes only by a move the table permits.               *)
PermittedMoves ==
    [][\A p \in Pairings :
          (/\ pairing[p].status # "none"
           /\ pairing'[p].status \notin {pairing[p].status, "cancelled"})
          => pairing'[p].status \in PAIRING_TRANSITIONS[pairing[p].status]]_vars

(* status_document builds "the operator-facing status from verified persisted *)
(* evidence": whatever was purged, cancelled or sealed meanwhile, a pairing   *)
(* that can be read names a run that is there with its first cart, a report   *)
(* is offered only where the run was sealed with that verdict on two, and     *)
(* the two rows that hold a verdict hold the same one.                        *)
StatusBacked ==
    /\ VerdictsAgree
    /\ \A p \in Pairings :
        /\ status_readable(p)
        /\ pairing[p].run # None => snapshot[p].before = Empty
        /\ report_offered(p) => run[p] = reported(p) /\ snapshot[p].after # None

(* _expire_if_elapsed: the status endpoint reports expired before it is       *)
(* written because "the durable write happens on the next bridge request": a  *)
(* terminal status that the operator was shown is the one that stays.         *)
ReportedEndStays ==
    [][\A p \in Pairings :
          reported(p) \in TERMINAL_PAIRING_STATUSES => reported(p)' \in {reported(p), "cancelled"}]_vars

(* RunService's lease: a workspace never has two runs in flight.              *)
OneRunInFlight ==
    \A r, s \in RunIds :
        {run[r], run[s]} \subseteq NONTERMINAL_RUN_STATES => r = s
===================================================================================
