------------------------------- MODULE BuggyStore -------------------------------
(***************************************************************************)
(* The demo target and the adapter that drives it, for one workspace: the   *)
(* cart with its idempotency records, scenario selection with its injected  *)
(* faults, the store's own confirmations, checkout, and the three requests  *)
(* the adapter turns one protected dispatch into.                           *)
(*                                                                          *)
(* Every store operation holds the workspace's lock and does its work in    *)
(* one transaction, so it is one action; select_scenario alone commits      *)
(* twice.  The adapter holds nothing between its requests, and the          *)
(* storefront page calls the same API at any moment.                        *)
(*                                                                          *)
(* Prices are left out: build_cart derives every total from the lines and   *)
(* the discount code, so two carts that differ in a total differ in those.  *)
(***************************************************************************)
EXTENDS Integers

CONSTANTS
    Products,            \* the seeded catalog, by line key
    MAX_LINE_QUANTITY,   \* five in the catalog
    Keys,                \* request ids, the idempotency keys
    Confs,               \* confirmation ids; an order is named by the one it spends
    Calls,               \* protected dispatches the adapter may make
    Profiles,            \* fault profiles an operator may select
    MaxVersion,          \* bound: state versions between two reseeds
    None                 \* no value

IMPLEMENTED_PROFILES ==
    {"none", "duplicate_on_retry", "discount_reported_but_not_applied",
     "undeclared_side_effect", "tool_surface_poisoned"}

ASSUME StoreAssumption ==
    /\ MAX_LINE_QUANTITY \in Nat
    /\ MaxVersion \in Nat
    /\ Profiles \subseteq IMPLEMENTED_PROFILES
    /\ None \notin Confs

VARIABLES
    state,        \* the canonical state and its version
    scenario,     \* the scenario row
    selecting,    \* the selection between its two commits, lock held; or None
    updates,      \* idempotency records of update_cart
    checkouts,    \* idempotency records of proceed_to_checkout
    confs,        \* buggy_store_confirmations
    calls,        \* where each adapter dispatch is
    answer,       \* what the step just taken reported, if it was a cart mutation
    builtUnder,   \* history: the scenarios that wrote to the present state
    effects,      \* history: how often each update_cart key changed the cart
    consented,    \* history: confirmations approved for a human
    orders        \* history: orders since the last reseed

vars == <<state, scenario, selecting, updates, checkouts, confs, calls,
          answer, builtUnder, effects, consented, orders>>

----------------------------------------------------------------------------
\* Records

Cart == [items : [Products -> 0..MAX_LINE_QUANTITY], discount : {"none", "SAVE20"}]

State == [version : Nat \ {0}, cart : Cart, note : {"as_saved", "rewritten"}, order : Confs \cup {None}]

EmptyCart == [items |-> [p \in Products |-> 0], discount |-> "none"]

\* empty_state: a freshly seeded workspace
empty_state == [version |-> 1, cart |-> EmptyCart, note |-> "as_saved", order |-> None]

Scenario == [mode : {"pre_fix", "post_fix"}, profile : IMPLEMENTED_PROFILES]

ConfirmationStatus ==
    {"none", "pending", "approved", "denied", "cancelled", "consumed", "deleted"}

Confirmation ==
    [status : ConfirmationStatus, binding : Cart, window : {"open", "lapsed"}]

NoConfirmation == [status |-> "none", binding |-> EmptyCart, window |-> "open"]

Answer == [cart : Cart, version : Nat]

UpdateRecord == [product : Products, quantity : 0..MAX_LINE_QUANTITY, response : Answer]

\* a missing idempotency row is no row
ASSUME RecordAssumption == None \notin UpdateRecord

Outcome ==
    {"none", "ordered", "replayed", "conflict", "blocked", "failed", "raised", "lost"}

Call == [pc : {"idle", "open", "decide", "checkout", "done"}, key : Keys \cup {None},
         consent : {"granted", "missing"}, conf : Confs \cup {None}, outcome : Outcome]

NoCall == [pc |-> "idle", key |-> None, consent |-> "missing",
           conf |-> None, outcome |-> "none"]

TypeOK ==
    /\ state \in State
    /\ scenario \in Scenario
    /\ selecting \in Scenario \cup {None}
    /\ updates \in [Keys -> UpdateRecord \cup {None}]
    /\ checkouts \in [Keys -> Confs \cup {None}]
    /\ confs \in [Confs -> Confirmation]
    /\ calls \in [Calls -> Call]
    /\ answer \in Answer \cup {None}
    /\ builtUnder \subseteq Scenario
    /\ effects \in [Keys -> Nat]
    /\ consented \subseteq Confs
    /\ orders \subseteq [conf : Confs, key : Keys, cart : Cart]

Init ==
    /\ state = empty_state
    /\ scenario = [mode |-> "post_fix", profile |-> "none"]
    /\ selecting = None
    /\ updates = [k \in Keys |-> None]
    /\ checkouts = [k \in Keys |-> None]
    /\ confs = [c \in Confs |-> NoConfirmation]
    /\ calls = [a \in Calls |-> NoCall]
    /\ answer = None
    /\ builtUnder = {}
    /\ effects = [k \in Keys |-> 0]
    /\ consented = {}
    /\ orders = {}

----------------------------------------------------------------------------
\* What the operations share

\* the workspace's asyncio lock is free
LockFree == selecting = None

\* ScenarioConfiguration.injects: selected, and active in pre_fix alone
injects(profile) == scenario.mode = "pre_fix" /\ scenario.profile = profile

\* with_target_state: the next version of the state
with_target_state(target) == [target EXCEPT !.version = state.version + 1]

\* write_state, and what it adds to the histories
write_state(target) ==
    /\ state.version < MaxVersion
    /\ state' = with_target_state(target)
    /\ builtUnder' = builtUnder \cup {scenario}

\* slip: the response is computed from the state before the write
StaleResponse(s) == [cart |-> state.cart, version |-> state.version]

\* _cart_response
CartResponse(s) == [cart |-> s.cart, version |-> s.version]

----------------------------------------------------------------------------
\* The cart

\* slip: the duplicated sum is not held to the line's bound
UnboundedQuantity(p, q, duplicating) ==
    IF q # 0 /\ duplicating /\ state.cart.items[p] # 0
      THEN state.cart.items[p] + q ELSE q

\* _apply_quantity: absolute assignment; a duplicated retry adds, and saturates
apply_quantity(p, q, duplicating) ==
    IF q # 0 /\ duplicating /\ state.cart.items[p] # 0
      THEN LET sum == state.cart.items[p] + q
           IN  IF sum > MAX_LINE_QUANTITY THEN MAX_LINE_QUANTITY ELSE sum
      ELSE q

\* slip: a key is claimed again by every request that carries it
ClaimAlways(k, p, q) == "proceed"

\* replay_or_claim: replay an identical repeat, refuse a changed one, or proceed
replay_or_claim(k, p, q) ==
    IF updates[k] = None THEN "proceed"
    ELSE IF updates[k].product = p /\ updates[k].quantity = q THEN "replay"
    ELSE "conflict"

\* update_cart, one transaction
update_cart(k, p, q) ==
    LET claim == replay_or_claim(k, p, q)
        duplicating == claim = "replay" /\ injects("duplicate_on_retry")
        target == [state EXCEPT
                     !.cart.items[p] = apply_quantity(p, q, duplicating),
                     !.note = IF injects("undeclared_side_effect") THEN "rewritten" ELSE @]
        after == IF target = state THEN state ELSE with_target_state(target)
    IN
    /\ LockFree
    /\ claim # "conflict"
    /\ IF claim = "replay" /\ ~ duplicating
         THEN /\ answer' = updates[k].response
              /\ UNCHANGED <<state, builtUnder, effects, updates>>
         ELSE /\ IF target = state
                   THEN UNCHANGED <<state, builtUnder, effects>>
                   ELSE /\ write_state(target)
                        /\ effects' = [effects EXCEPT ![k] = @ + 1]
              /\ answer' = CartResponse(after)
              /\ updates' = IF duplicating THEN updates
                            ELSE [updates EXCEPT ![k] =
                                    [product |-> p, quantity |-> q,
                                     response |-> CartResponse(after)]]
    /\ UNCHANGED <<scenario, selecting, checkouts, confs, calls, consented, orders>>

\* apply_discount of the one allowlisted code, one transaction
apply_discount ==
    /\ LockFree
    /\ LET target == [state EXCEPT !.cart.discount = "SAVE20"]
       IN  IF injects("discount_reported_but_not_applied")
             THEN /\ answer' = [cart |-> target.cart, version |-> state.version]
                  /\ UNCHANGED <<state, builtUnder>>
           ELSE IF state.cart.discount = "SAVE20"
             THEN /\ answer' = CartResponse(state)
                  /\ UNCHANGED <<state, builtUnder>>
           ELSE /\ write_state(target)
                /\ answer' = CartResponse(with_target_state(target))
    /\ UNCHANGED <<scenario, selecting, updates, checkouts, confs, calls, effects,
                   consented, orders>>

----------------------------------------------------------------------------
\* Scenario selection: reset_workspace commits, then the scenario is written

\* slip: the old cart is left in place
SelectUnreset(s) ==
    /\ LockFree
    /\ selecting' = s
    /\ answer' = None
    /\ UNCHANGED <<state, scenario, updates, checkouts, confs, calls, 
                   builtUnder, effects, consented, orders>>

\* select_scenario, first commit: reseed, and drop records and confirmations
SelectReset(s) ==
    /\ LockFree
    /\ selecting' = s
    /\ state' = empty_state
    /\ updates' = [k \in Keys |-> None]
    /\ checkouts' = [k \in Keys |-> None]
    /\ confs' = [c \in Confs |-> IF confs[c].status = "none" THEN confs[c]
                                 ELSE [NoConfirmation EXCEPT !.status = "deleted"]]
    /\ answer' = None
    /\ builtUnder' = {}
    /\ effects' = [k \in Keys |-> 0]
    /\ orders' = {}
    /\ UNCHANGED <<scenario, calls, consented>>

\* select_scenario, second commit
SelectWrite ==
    /\ selecting # None
    /\ scenario' = selecting
    /\ selecting' = None
    /\ answer' = None
    /\ UNCHANGED <<state, updates, checkouts, confs, calls, builtUnder,
                   effects, consented, orders>>

----------------------------------------------------------------------------
\* Confirmations

\* effective_status: what still can be acted on lapses with its window
effective_status(c) ==
    IF confs[c].status \in {"pending", "approved"} /\ confs[c].window = "lapsed"
      THEN "expired" ELSE confs[c].status

\* a confirmation's decision window closes
Lapse(c) ==
    /\ confs[c].status \in {"pending", "approved"}
    /\ confs[c].window = "open"
    /\ confs' = [confs EXCEPT ![c].window = "lapsed"]
    /\ answer' = None
    /\ UNCHANGED <<state, scenario, selecting, updates, checkouts, calls, 
                   builtUnder, effects, consented, orders>>

\* request_confirmation: pending, bound to the cart as it stands now
request_confirmation(c) ==
    /\ LockFree
    /\ confs[c].status = "none"
    /\ confs' = [confs EXCEPT ![c] = [NoConfirmation EXCEPT
                    !.status = "pending", !.binding = state.cart]]

\* _transition, out of pending alone
transition(c, to) ==
    /\ LockFree
    /\ effective_status(c) = "pending"
    /\ confs' = [confs EXCEPT ![c].status = to]

\* the page knows only the ids its own requests were answered with
PageHolds(c) == \A a \in Calls : calls[a].conf # c

\* the storefront page asks, and its human decides or cancels
PageConfirms(c) ==
    /\ PageHolds(c)
    /\ \/ request_confirmation(c) /\ UNCHANGED consented
       \/ transition(c, "approved") /\ consented' = consented \cup {c}
       \/ \E to \in {"denied", "cancelled"} : transition(c, to) /\ UNCHANGED consented
    /\ answer' = None
    /\ UNCHANGED <<state, scenario, selecting, updates, checkouts, calls, 
                   builtUnder, effects, orders>>

----------------------------------------------------------------------------
\* Checkout

\* slip: an approval that lapsed, or that was of another cart, still authorizes
ApprovedEver(c) == confs[c].status = "approved"

\* _require_authorization: approved, in its window, and of the cart as it is
require_authorization(c) ==
    effective_status(c) = "approved" /\ confs[c].binding = state.cart

\* slip: the key's record is not looked at
ForgetfulAnswer(c, k) == IF require_authorization(c) THEN "ordered" ELSE "failed"

\* what checkout answers: a replay, a refusal the adapter calls a safe block or a
\* failure, or an order
checkout_answer(c, k) ==
    IF checkouts[k] # None
      THEN IF checkouts[k] = c THEN "replayed" ELSE "conflict"
    ELSE IF require_authorization(c) THEN "ordered"
    ELSE IF effective_status(c) \in {"denied", "cancelled", "expired"} THEN "blocked"
    ELSE "failed"

\* checkout: the approval is spent and the order made in one transaction
checkout(c, k) ==
    /\ LockFree
    /\ IF checkout_answer(c, k) = "ordered"
         THEN /\ confs' = [confs EXCEPT ![c].status = "consumed"]
              /\ write_state([state EXCEPT !.order = c])
              /\ checkouts' = [checkouts EXCEPT ![k] = c]
              /\ orders' = orders \cup {[conf |-> c, key |-> k, cart |-> state.cart]}
         ELSE UNCHANGED <<confs, state, builtUnder, checkouts, orders>>

\* the storefront page checks out with a confirmation it holds
PageChecksOut(c, k) ==
    /\ confs[c].status # "none"
    /\ PageHolds(c)
    /\ checkout(c, k)
    /\ answer' = None
    /\ UNCHANGED <<scenario, selecting, updates, calls, effects, consented>>

----------------------------------------------------------------------------
\* The adapter: BuggyStoreAdapter._checkout, three requests for one dispatch

Done(a, outcome) == [calls EXCEPT ![a] = [@ EXCEPT !.pc = "done", !.outcome = outcome]]

\* slip: the dispatch goes through without the harness's consent
DispatchAnyway(a, k, consent) ==
    /\ calls[a].pc = "idle"
    /\ calls' = [calls EXCEPT ![a] = [NoCall EXCEPT
                    !.pc = "open", !.key = k, !.consent = consent]]
    /\ answer' = None
    /\ UNCHANGED <<state, scenario, selecting, updates, checkouts, confs, 
                   builtUnder, effects, consented, orders>>

\* the harness observes what its human approved, and dispatches; without consent
\* the adapter raises before the store is contacted
Dispatch(a, k, consent) ==
    /\ calls[a].pc = "idle"
    /\ calls' = [calls EXCEPT ![a] = [NoCall EXCEPT
                    !.pc = IF consent = "granted" THEN "open" ELSE "done",
                    !.outcome = IF consent = "granted" THEN "none" ELSE "raised",
                    !.key = k, !.consent = consent]]
    /\ answer' = None
    /\ UNCHANGED <<state, scenario, selecting, updates, checkouts, confs, 
                   builtUnder, effects, consented, orders>>

\* first request: the store's own confirmation is opened
AdapterOpens(a, c) ==
    /\ calls[a].pc = "open"
    /\ request_confirmation(c)
    /\ \/ calls' = [calls EXCEPT ![a] = [@ EXCEPT !.pc = "decide", !.conf = c]]
       \/ calls' = [Done(a, "lost") EXCEPT ![a].conf = c]
    /\ answer' = None
    /\ UNCHANGED <<state, scenario, selecting, updates, checkouts, 
                   builtUnder, effects, consented, orders>>

\* second request: it is approved, for the human who decided at the harness; a
\* refusal raises
AdapterApproves(a) ==
    LET c == calls[a].conf IN
    /\ calls[a].pc = "decide"
    /\ \/ /\ transition(c, "approved")
          /\ consented' = IF calls[a].consent = "granted" THEN consented \cup {c} ELSE consented
          /\ \/ calls' = [calls EXCEPT ![a].pc = "checkout"]
             \/ calls' = Done(a, "lost")
       \/ /\ LockFree
          /\ effective_status(c) # "pending"
          /\ calls' = Done(a, "raised")
          /\ UNCHANGED <<confs, consented>>
    /\ answer' = None
    /\ UNCHANGED <<state, scenario, selecting, updates, checkouts, 
                   builtUnder, effects, orders>>

\* third request: the order, under the harness's key; the answer may be lost
AdapterChecksOut(a) ==
    LET c == calls[a].conf
        k == calls[a].key
    IN
    /\ calls[a].pc = "checkout"
    /\ checkout(c, k)
    /\ \E outcome \in {checkout_answer(c, k), "lost"} : calls' = Done(a, outcome)
    /\ answer' = None
    /\ UNCHANGED <<scenario, selecting, updates, effects, consented>>

\* the one container stops: commits stay, the lock and the dispatches are gone
Crash ==
    /\ selecting' = None
    /\ calls' = [a \in Calls |-> IF calls[a].pc \in {"idle", "done"} THEN calls[a]
                                 ELSE [calls[a] EXCEPT !.pc = "done", !.outcome = "lost"]]
    /\ answer' = None
    /\ UNCHANGED <<state, scenario, updates, checkouts, confs, builtUnder,
                   effects, consented, orders>>

Next ==
    \/ \E k \in Keys, p \in Products, q \in 0..MAX_LINE_QUANTITY : update_cart(k, p, q)
    \/ apply_discount
    \/ \E s \in [mode : {"pre_fix", "post_fix"}, profile : Profiles] : SelectReset(s)
    \/ SelectWrite
    \/ \E c \in Confs : Lapse(c) \/ PageConfirms(c)
    \/ \E c \in Confs, k \in Keys : PageChecksOut(c, k)
    \/ \E a \in Calls, k \in Keys, consent \in {"granted", "missing"} : Dispatch(a, k, consent)
    \/ \E a \in Calls, c \in Confs : AdapterOpens(a, c)
    \/ \E a \in Calls : AdapterApproves(a) \/ AdapterChecksOut(a)
    \/ Crash

Spec == Init /\ [][Next]_vars

----------------------------------------------------------------------------
\* Properties

\* Every order spent a confirmation of its own that a human approved, within its
\* window, for the very cart that was ordered.
OrderConsented ==
    /\ \A o \in orders :
         /\ o.conf \in consented
         /\ confs[o.conf].status = "consumed"
         /\ confs[o.conf].window = "open"
         /\ confs[o.conf].binding = o.cart
    /\ \A o, p \in orders : o.conf = p.conf => o = p

\* A checkout key makes at most one order between two reseeds, whoever retries it.
OneOrderPerKey == \A o, p \in orders : o.key = p.key => o = p

\* The inductive invariant behind both: an order's key is recorded with the
\* confirmation it spent, and what is approved was approved for a human.
OrderInv ==
    /\ OrderConsented
    /\ \A o \in orders : checkouts[o.key] = o.conf
    /\ \A c \in Confs : confs[c].status = "approved" => c \in consented

\* Unless a duplicating store was selected, a retried update_cart changes the cart
\* once, whatever happened to it in between.
RetryHarmless ==
    \A k \in Keys : effects[k] <= 1 \/ injects("duplicate_on_retry")

\* No state built under one scenario is carried into another, even when the store
\* stops between the two commits of a selection.
ScenarioIsolated == builtUnder \subseteq {scenario}

\* What is in the store was put there once, under the scenario that is selected:
\* neither a retry nor a stop between two commits adds to it or leaves it behind.
StateEarned == RetryHarmless /\ ScenarioIsolated

\* The inductive invariant behind it: a key without a record changed nothing, and a
\* selection between its two commits has left neither state nor record.
EarnedInv ==
    /\ StateEarned
    /\ \A k \in Keys : updates[k] = None => effects[k] = 0
    /\ selecting # None =>
         builtUnder = {} /\ \A k \in Keys : updates[k] = None

\* What a cart mutation reports is the state it leaves, or what its key's first
\* request reported; only the injected discount fault reports a cart that never was.
AnswerTrue ==
    [][answer' # None =>
        \/ injects("discount_reported_but_not_applied")
        \/ answer' = [cart |-> state'.cart, version |-> state'.version]
        \/ \E k \in Keys : updates[k] # None /\ answer' = updates[k].response]_vars
=================================================================================
