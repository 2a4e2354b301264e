---------------------------- MODULE BuggyStoreProofs ----------------------------
(***************************************************************************)
(* The store for every catalog, set of keys, confirmations and dispatches.  *)
(* OrderConsented and OneOrderPerKey rest on OrderInv, which adds what the  *)
(* transactions rely on: the key of every order is on record with the       *)
(* confirmation it spent, and no row is approved but for a human.           *)
(* StateEarned rests on EarnedInv, AnswerTrue on the types alone.           *)
(***************************************************************************)
EXTENDS BuggyStore, TLAPS

\* A dispatch under way has the harness's consent, a key and, once it has opened
\* one, a confirmation.
CallInv(call) ==
    /\ call.pc \in {"open", "decide", "checkout"} => call.consent = "granted" /\ call.key \in Keys
    /\ call.pc \in {"decide", "checkout"} => call.conf \in Confs

DispatchInv == \A a \in Calls : CallInv(calls[a])

\* The reseeded cart is a cart.
LEMMA EmptyCartTyped == EmptyCart \in Cart
BY StoreAssumption DEF EmptyCart, Cart

\* Assigning a quantity keeps every line within its bound: the duplicated sum
\* saturates.
LEMMA QuantityBounded ==
    ASSUME state.cart \in Cart, NEW p \in Products, NEW q \in 0..MAX_LINE_QUANTITY,
           NEW duplicating \in BOOLEAN
    PROVE  apply_quantity(p, q, duplicating) \in 0..MAX_LINE_QUANTITY
<1>1. state.cart.items[p] \in 0..MAX_LINE_QUANTITY
  BY DEF Cart
<1> QED
  BY <1>1, StoreAssumption DEF apply_quantity

\* The next version of a state is a state.
LEMMA NextVersion ==
    ASSUME state \in State, NEW target \in State
    PROVE  with_target_state(target) \in State
<1>1. state.version + 1 \in Nat \ {0}
  BY DEF State
<1> QED
  BY <1>1 DEF with_target_state, State

\* The state an update_cart writes: one line, and perhaps the note.
LEMMA UpdatedState ==
    ASSUME state \in State, NEW p \in Products, NEW n \in 0..MAX_LINE_QUANTITY,
           NEW note \in {"as_saved", "rewritten"}
    PROVE  [state EXCEPT !.cart.items[p] = n, !.note = note] \in State
<1>1. state.cart \in Cart
  BY DEF State
<1>2. [state.cart EXCEPT !.items[p] = n] \in Cart
  BY <1>1 DEF Cart
<1> QED
  BY <1>2 DEF State

\* write_state of a state leaves a state, and remembers the scenario it was under.
LEMMA Written ==
    ASSUME TypeOK, NEW target \in State, write_state(target)
    PROVE  state' \in State /\ builtUnder' \subseteq Scenario
BY NextVersion DEF write_state, TypeOK

\* A dispatch that moves to a good record leaves the others alone.
LEMMA MovedCall ==
    ASSUME TypeOK, DispatchInv, NEW a \in Calls, NEW new \in Call, CallInv(new),
           calls' = [calls EXCEPT ![a] = new]
    PROVE  calls' \in [Calls -> Call] /\ DispatchInv'
<1>1. calls \in [Calls -> Call]
  BY DEF TypeOK
<1>2. calls' \in [Calls -> Call]
  BY <1>1
<1>3. \A b \in Calls : calls'[b] = IF b = a THEN new ELSE calls[b]
  BY <1>1
<1> QED
  BY <1>2, <1>3 DEF DispatchInv, CallInv

\* A dispatch that ends does so with its key and its confirmation.
LEMMA EndedCall ==
    ASSUME TypeOK, DispatchInv, NEW a \in Calls, NEW outcome \in Outcome,
           calls' = Done(a, outcome)
    PROVE  calls' \in [Calls -> Call] /\ DispatchInv'
<1> DEFINE new == [calls[a] EXCEPT !.pc = "done", !.outcome = outcome]
<1>1. calls[a] \in Call
  BY DEF TypeOK
<1>2. new \in Call /\ new.pc = "done"
  BY <1>1 DEF Call
<1>3. CallInv(new)
  BY <1>2 DEF CallInv
<1>4. calls' = [calls EXCEPT ![a] = new]
  BY DEF Done
<1> QED
  BY <1>2, <1>3, <1>4, MovedCall

\* Types are kept, and so is what a dispatch under way holds.
LEMMA TypeStep == TypeOK /\ DispatchInv /\ [Next]_vars => TypeOK' /\ DispatchInv'
<1> SUFFICES ASSUME TypeOK, DispatchInv, [Next]_vars
             PROVE  TypeOK' /\ DispatchInv'
  OBVIOUS
<1>1. ASSUME NEW k \in Keys, NEW p \in Products, NEW q \in 0..MAX_LINE_QUANTITY,
             update_cart(k, p, q)
      PROVE  TypeOK' /\ DispatchInv'
  <2> DEFINE duplicating == replay_or_claim(k, p, q) = "replay" /\ injects("duplicate_on_retry")
             n == apply_quantity(p, q, duplicating)
             note == IF injects("undeclared_side_effect") THEN "rewritten" ELSE state.note
             target == [state EXCEPT !.cart.items[p] = n, !.note = note]
             after == IF target = state THEN state ELSE with_target_state(target)
  <2>1. target \in State
    <3>1. state.cart \in Cart /\ note \in {"as_saved", "rewritten"}
      BY DEF TypeOK, State
    <3>2. n \in 0..MAX_LINE_QUANTITY
      BY <3>1, QuantityBounded
    <3> QED
      BY <3>1, <3>2, UpdatedState DEF TypeOK
  <2>2. after \in State
    BY <2>1, NextVersion DEF TypeOK
  <2>3. CartResponse(after) \in Answer
    BY <2>2 DEF CartResponse, Answer, State
  <2>4. CASE replay_or_claim(k, p, q) = "replay" /\ ~ duplicating
    <3>1. updates[k] \in UpdateRecord
      BY <2>4 DEF replay_or_claim, TypeOK
    <3> QED
      BY <1>1, <2>4, <3>1 DEF update_cart, TypeOK, DispatchInv, UpdateRecord
  <2>5. CASE ~ (replay_or_claim(k, p, q) = "replay" /\ ~ duplicating)
    <3>1. state' \in State /\ builtUnder' \subseteq Scenario /\ effects' \in [Keys -> Nat]
      BY <1>1, <2>1, <2>5, Written DEF update_cart, TypeOK
    <3>2. answer' = CartResponse(after)
      BY <1>1, <2>5 DEF update_cart
    <3>3. updates' \in [Keys -> UpdateRecord \cup {None}]
      BY <1>1, <2>3, <2>5 DEF update_cart, TypeOK, UpdateRecord
    <3> QED
      BY <1>1, <2>3, <3>1, <3>2, <3>3 DEF update_cart, TypeOK, DispatchInv
  <2> QED
    BY <2>4, <2>5
<1>2. CASE apply_discount
  <2> DEFINE target == [state EXCEPT !.cart.discount = "SAVE20"]
  <2>1. target \in State
    <3>1. state.cart \in Cart /\ [state.cart EXCEPT !.discount = "SAVE20"] \in Cart
      BY DEF TypeOK, State, Cart
    <3> QED
      BY <3>1 DEF TypeOK, State
  <2>2. with_target_state(target) \in State
    BY <2>1, NextVersion DEF TypeOK
  <2>3. /\ [cart |-> target.cart, version |-> state.version] \in Answer
        /\ CartResponse(state) \in Answer
        /\ CartResponse(with_target_state(target)) \in Answer
    BY <2>1, <2>2 DEF TypeOK, CartResponse, Answer, State
  <2>4. state' \in State /\ builtUnder' \subseteq Scenario /\ answer' \in Answer
    BY <1>2, <2>1, <2>3, Written DEF apply_discount, TypeOK
  <2> QED
    BY <1>2, <2>4 DEF apply_discount, TypeOK, DispatchInv
<1>3. ASSUME NEW s \in [mode : {"pre_fix", "post_fix"}, profile : Profiles], SelectReset(s)
      PROVE  TypeOK' /\ DispatchInv'
  <2>1. empty_state \in State /\ s \in Scenario
    BY EmptyCartTyped, StoreAssumption DEF empty_state, State, Scenario
  <2>2. confs' \in [Confs -> Confirmation]
    BY <1>3, EmptyCartTyped
    DEF SelectReset, TypeOK, Confirmation, NoConfirmation, ConfirmationStatus
  <2> QED
    BY <1>3, <2>1, <2>2 DEF SelectReset, TypeOK, DispatchInv
<1>4. CASE SelectWrite
  BY <1>4 DEF SelectWrite, TypeOK, DispatchInv
<1>5. ASSUME NEW c \in Confs, Lapse(c) \/ PageConfirms(c)
      PROVE  TypeOK' /\ DispatchInv'
  <2>1. state.cart \in Cart /\ confs[c] \in Confirmation
    BY DEF TypeOK, State
  <2>2. /\ \A to \in ConfirmationStatus : [confs[c] EXCEPT !.status = to] \in Confirmation
        /\ [confs[c] EXCEPT !.window = "lapsed"] \in Confirmation
        /\ [NoConfirmation EXCEPT !.status = "pending", !.binding = state.cart] \in Confirmation
    BY <2>1 DEF Confirmation, NoConfirmation, ConfirmationStatus
  <2>3. PICK row \in Confirmation : confs' = [confs EXCEPT ![c] = row]
    BY <1>5, <2>2
    DEF Lapse, PageConfirms, request_confirmation, transition, ConfirmationStatus
  <2>4. confs' \in [Confs -> Confirmation]
    BY <2>3 DEF TypeOK
  <2> QED
    BY <1>5, <2>4 DEF Lapse, PageConfirms, TypeOK, DispatchInv
<1>6. ASSUME NEW c \in Confs, NEW k \in Keys, checkout(c, k)
      PROVE  /\ state' \in State /\ builtUnder' \subseteq Scenario
             /\ confs' \in [Confs -> Confirmation]
             /\ checkouts' \in [Keys -> Confs \cup {None}]
             /\ orders' \subseteq [conf : Confs, key : Keys, cart : Cart]
  <2>1. [state EXCEPT !.order = c] \in State /\ state.cart \in Cart
    BY DEF TypeOK, State
  <2>2. state' \in State /\ builtUnder' \subseteq Scenario
    BY <1>6, <2>1, Written DEF checkout, TypeOK
  <2>3. confs' \in [Confs -> Confirmation]
    BY <1>6 DEF checkout, TypeOK, Confirmation, ConfirmationStatus
  <2> QED
    BY <1>6, <2>1, <2>2, <2>3 DEF checkout, TypeOK
<1>7. ASSUME NEW c \in Confs, NEW k \in Keys, PageChecksOut(c, k)
      PROVE  TypeOK' /\ DispatchInv'
  BY <1>6, <1>7 DEF PageChecksOut, TypeOK, DispatchInv
<1>8. ASSUME NEW a \in Calls, NEW k \in Keys, NEW consent \in {"granted", "missing"},
             Dispatch(a, k, consent)
      PROVE  TypeOK' /\ DispatchInv'
  <2> DEFINE new == [NoCall EXCEPT
                       !.pc = IF consent = "granted" THEN "open" ELSE "done",
                       !.outcome = IF consent = "granted" THEN "none" ELSE "raised",
                       !.key = k, !.consent = consent]
  <2>1. state.cart \in Cart
    BY DEF TypeOK, State
  <2>2. new \in Call /\ CallInv(new)
    BY <2>1 DEF NoCall, Call, CallInv, Outcome
  <2>3. calls' \in [Calls -> Call] /\ DispatchInv'
    BY <1>8, <2>2, MovedCall DEF Dispatch
  <2> QED
    BY <1>8, <2>3 DEF Dispatch, TypeOK
<1>9. ASSUME NEW a \in Calls, NEW c \in Confs, AdapterOpens(a, c)
      PROVE  TypeOK' /\ DispatchInv'
  <2> DEFINE opened == [calls[a] EXCEPT !.pc = "decide", !.conf = c]
             lost == [calls[a] EXCEPT !.pc = "done", !.outcome = "lost", !.conf = c]
  <2>1. confs' \in [Confs -> Confirmation]
    BY <1>9, EmptyCartTyped
    DEF AdapterOpens, request_confirmation, TypeOK, Confirmation, NoConfirmation,
        ConfirmationStatus, State
  <2>2. calls[a] \in Call /\ CallInv(calls[a]) /\ calls[a].pc = "open"
    BY <1>9 DEF AdapterOpens, TypeOK, DispatchInv
  <2>3. opened \in Call /\ lost \in Call
    BY <2>2 DEF Call, Outcome
  <2>4. CallInv(opened) /\ CallInv(lost)
    BY <2>2 DEF Call, CallInv
  <2>5. calls' = [calls EXCEPT ![a] = opened] \/ calls' = [calls EXCEPT ![a] = lost]
    BY <1>9, <2>2 DEF AdapterOpens, Done, TypeOK, Call
  <2>6. calls' \in [Calls -> Call] /\ DispatchInv'
    BY <2>3, <2>4, <2>5, MovedCall
  <2> QED
    BY <1>9, <2>1, <2>6 DEF AdapterOpens, TypeOK
<1>10. ASSUME NEW a \in Calls, AdapterApproves(a)
       PROVE  TypeOK' /\ DispatchInv'
  <2> DEFINE approved == [calls[a] EXCEPT !.pc = "checkout"]
  <2>1. calls[a] \in Call /\ CallInv(calls[a]) /\ calls[a].pc = "decide"
    BY <1>10 DEF AdapterApproves, TypeOK, DispatchInv
  <2>2. calls[a].conf \in Confs
    BY <2>1 DEF CallInv
  <2>3. confs' \in [Confs -> Confirmation] /\ consented' \subseteq Confs
    BY <1>10, <2>2
    DEF AdapterApproves, transition, TypeOK, Confirmation, ConfirmationStatus
  <2>4. approved \in Call /\ CallInv(approved)
    BY <2>1 DEF Call, CallInv
  <2>5. \/ calls' = [calls EXCEPT ![a] = approved]
        \/ \E outcome \in Outcome : calls' = Done(a, outcome)
    BY <1>10 DEF AdapterApproves, Outcome
  <2>6. calls' \in [Calls -> Call] /\ DispatchInv'
    BY <2>4, <2>5, MovedCall, EndedCall
  <2> QED
    BY <1>10, <2>3, <2>6 DEF AdapterApproves, TypeOK
<1>11. ASSUME NEW a \in Calls, AdapterChecksOut(a)
       PROVE  TypeOK' /\ DispatchInv'
  <2>1. calls[a].conf \in Confs /\ calls[a].key \in Keys
    BY <1>11 DEF AdapterChecksOut, DispatchInv, CallInv
  <2>2. checkout(calls[a].conf, calls[a].key)
    BY <1>11 DEF AdapterChecksOut
  <2>3. PICK outcome \in {checkout_answer(calls[a].conf, calls[a].key), "lost"} :
          calls' = Done(a, outcome)
    BY <1>11 DEF AdapterChecksOut
  <2>4. outcome \in Outcome
    BY <2>3 DEF checkout_answer, Outcome
  <2>5. calls' \in [Calls -> Call] /\ DispatchInv'
    BY <2>3, <2>4, EndedCall
  <2> QED
    BY <1>6, <1>11, <2>1, <2>2, <2>5 DEF AdapterChecksOut, TypeOK
<1>12. CASE Crash
  <2> DEFINE stopped(b) == IF calls[b].pc \in {"idle", "done"} THEN calls[b]
                           ELSE [calls[b] EXCEPT !.pc = "done", !.outcome = "lost"]
  <2>1. ASSUME NEW b \in Calls
        PROVE  stopped(b) \in Call /\ CallInv(stopped(b))
    <3>1. calls[b] \in Call /\ CallInv(calls[b])
      BY DEF TypeOK, DispatchInv
    <3> QED
      BY <3>1 DEF Call, CallInv, Outcome
  <2>2. calls' = [b \in Calls |-> stopped(b)]
    BY <1>12 DEF Crash
  <2>3. calls' \in [Calls -> Call] /\ DispatchInv'
    BY <2>1, <2>2 DEF DispatchInv
  <2> QED
    BY <1>12, <2>3 DEF Crash, TypeOK
<1>13. CASE UNCHANGED vars
  BY <1>13 DEF vars, TypeOK, DispatchInv
<1> QED
  BY <1>1, <1>2, <1>3, <1>4, <1>5, <1>7, <1>8, <1>9, <1>10, <1>11, <1>12, <1>13 DEF Next

\* A confirmation row that is no order's may move, if a human is behind an approval.
LEMMA MovedRow ==
    ASSUME TypeOK, OrderInv, NEW c \in Confs, NEW row \in Confirmation,
           confs' = [confs EXCEPT ![c] = row],
           confs[c].status # "consumed",
           UNCHANGED <<checkouts, orders>>,
           consented \subseteq consented',
           row.status = "approved" => c \in consented'
    PROVE  OrderInv'
<1>1. confs \in [Confs -> Confirmation] /\ orders \subseteq [conf : Confs, key : Keys, cart : Cart]
  BY DEF TypeOK
<1>2. \A d \in Confs : confs'[d] = IF d = c THEN row ELSE confs[d]
  BY <1>1
<1>3. \A o \in orders : o.conf # c /\ o.conf \in Confs
  BY <1>1 DEF OrderInv, OrderConsented
<1>4. OrderConsented'
  BY <1>2, <1>3 DEF OrderInv, OrderConsented
<1> QED
  BY <1>2, <1>4 DEF OrderInv

\* The store's one protected transaction: an approval is spent on the cart it was
\* given for, under a key that had no order.
LEMMA CheckoutStep ==
    ASSUME TypeOK, OrderInv, NEW c \in Confs, NEW k \in Keys, checkout(c, k),
           UNCHANGED consented
    PROVE  OrderInv'
<1>1. CASE checkout_answer(c, k) # "ordered"
  BY <1>1 DEF checkout, OrderInv, OrderConsented
<1>2. CASE checkout_answer(c, k) = "ordered"
  <2> DEFINE new == [conf |-> c, key |-> k, cart |-> state.cart]
  <2>1. /\ checkouts[k] = None
        /\ confs[c].status = "approved" /\ confs[c].window # "lapsed"
        /\ confs[c].binding = state.cart
    BY <1>2 DEF checkout_answer, require_authorization, effective_status
  <2>2. /\ confs \in [Confs -> Confirmation]
        /\ orders \subseteq [conf : Confs, key : Keys, cart : Cart]
        /\ checkouts \in [Keys -> Confs \cup {None}]
    BY DEF TypeOK
  <2>3. /\ orders' = orders \cup {new}
        /\ checkouts' = [checkouts EXCEPT ![k] = c]
        /\ confs' = [confs EXCEPT ![c].status = "consumed"]
    BY <1>2 DEF checkout
  <2>4. \A o \in orders : o.conf \in Confs /\ o.key \in Keys /\ o.conf # c /\ o.key # k
    BY <2>1, <2>2, StoreAssumption DEF OrderInv, OrderConsented
  <2>5. \A d \in Confs : d # c => confs'[d] = confs[d]
    BY <2>2, <2>3
  <2>6. /\ confs'[c].status = "consumed" /\ confs'[c].window = "open"
        /\ confs'[c].binding = state.cart
    BY <2>1, <2>2, <2>3 DEF Confirmation
  <2>7. c \in consented
    BY <2>1 DEF OrderInv
  <2>8. OrderConsented'
    BY <2>3, <2>4, <2>5, <2>6, <2>7 DEF OrderInv, OrderConsented
  <2>9. \A o \in orders' : checkouts'[o.key] = o.conf
    BY <2>2, <2>3, <2>4 DEF OrderInv
  <2> QED
    BY <2>5, <2>6, <2>8, <2>9 DEF OrderInv
<1> QED
  BY <1>1, <1>2

\* Every step keeps what is known of the orders.
LEMMA OrderStep == TypeOK /\ DispatchInv /\ OrderInv /\ [Next]_vars => OrderInv'
<1> SUFFICES ASSUME TypeOK, DispatchInv, OrderInv, [Next]_vars PROVE OrderInv'
  OBVIOUS
<1>1. ASSUME NEW s, SelectReset(s) PROVE OrderInv'
  BY <1>1 DEF SelectReset, OrderInv, OrderConsented, NoConfirmation
<1>2. ASSUME NEW c \in Confs, Lapse(c) PROVE OrderInv'
  <2> DEFINE row == [confs[c] EXCEPT !.window = "lapsed"]
  <2>1. row \in Confirmation /\ row.status = confs[c].status
    BY DEF TypeOK, Confirmation
  <2> QED
    BY <1>2, <2>1, MovedRow DEF Lapse, OrderInv
<1>3. ASSUME NEW c \in Confs, request_confirmation(c), UNCHANGED <<checkouts, orders, consented>>
      PROVE  OrderInv'
  <2> DEFINE row == [NoConfirmation EXCEPT !.status = "pending", !.binding = state.cart]
  <2>1. row \in Confirmation /\ row.status = "pending"
    BY DEF TypeOK, State, Confirmation, NoConfirmation, ConfirmationStatus
  <2> QED
    BY <1>3, <2>1, MovedRow DEF request_confirmation
<1>4. ASSUME NEW c \in Confs, NEW to \in {"approved", "denied", "cancelled"}, transition(c, to),
             UNCHANGED <<checkouts, orders>>, consented \subseteq consented',
             to = "approved" => c \in consented'
      PROVE  OrderInv'
  <2> DEFINE row == [confs[c] EXCEPT !.status = to]
  <2>1. row \in Confirmation /\ row.status = to
    BY DEF TypeOK, Confirmation, ConfirmationStatus
  <2>2. confs[c].status = "pending"
    BY <1>4 DEF transition, effective_status
  <2> QED
    BY <1>4, <2>1, <2>2, MovedRow DEF transition
<1>5. ASSUME NEW c \in Confs, PageConfirms(c) PROVE OrderInv'
  BY <1>3, <1>4, <1>5 DEF PageConfirms
<1>6. ASSUME NEW c \in Confs, NEW k \in Keys, PageChecksOut(c, k) PROVE OrderInv'
  BY <1>6, CheckoutStep DEF PageChecksOut
<1>7. ASSUME NEW a \in Calls, NEW c \in Confs, AdapterOpens(a, c) PROVE OrderInv'
  BY <1>3, <1>7 DEF AdapterOpens
<1>8. ASSUME NEW a \in Calls, AdapterApproves(a) PROVE OrderInv'
  <2>1. calls[a].conf \in Confs /\ calls[a].consent = "granted"
    BY <1>8 DEF AdapterApproves, DispatchInv, CallInv
  <2>2. CASE transition(calls[a].conf, "approved") /\ consented' = consented \cup {calls[a].conf}
    BY <1>4, <1>8, <2>1, <2>2 DEF AdapterApproves
  <2>3. CASE UNCHANGED <<confs, consented>>
    BY <1>8, <2>3 DEF AdapterApproves, OrderInv, OrderConsented
  <2> QED
    BY <1>8, <2>1, <2>2, <2>3 DEF AdapterApproves
<1>9. ASSUME NEW a \in Calls, AdapterChecksOut(a) PROVE OrderInv'
  <2>1. calls[a].conf \in Confs /\ calls[a].key \in Keys
    BY <1>9 DEF AdapterChecksOut, DispatchInv, CallInv
  <2> QED
    BY <1>9, <2>1, CheckoutStep DEF AdapterChecksOut
<1>10. CASE UNCHANGED <<confs, checkouts, orders, consented>>
  BY <1>10 DEF OrderInv, OrderConsented
<1>11. ASSUME NEW k \in Keys, NEW p \in Products, NEW q \in 0..MAX_LINE_QUANTITY,
              update_cart(k, p, q)
       PROVE  OrderInv'
  BY <1>10, <1>11 DEF update_cart
<1>12. ASSUME NEW a \in Calls, NEW k \in Keys, NEW consent \in {"granted", "missing"},
              Dispatch(a, k, consent)
       PROVE  OrderInv'
  BY <1>10, <1>12 DEF Dispatch
<1>13. CASE apply_discount \/ SelectWrite \/ Crash \/ UNCHANGED vars
  BY <1>10, <1>13 DEF apply_discount, SelectWrite, Crash, vars
<1> QED
  BY <1>1, <1>2, <1>5, <1>6, <1>7, <1>8, <1>9, <1>11, <1>12, <1>13 DEF Next

\* The store starts empty, with nothing under way.
LEMMA StartsWell == Init => TypeOK /\ DispatchInv /\ OrderInv
<1> SUFFICES ASSUME Init PROVE TypeOK /\ DispatchInv /\ OrderInv
  OBVIOUS
<1>1. empty_state \in State
  BY EmptyCartTyped DEF empty_state, State
<1>2. NoConfirmation \in Confirmation /\ NoCall \in Call
  BY EmptyCartTyped DEF NoConfirmation, Confirmation, ConfirmationStatus, NoCall, Call, Outcome
<1>3. TypeOK
  BY <1>1, <1>2 DEF Init, TypeOK, Scenario, IMPLEMENTED_PROFILES
<1>4. DispatchInv
  BY DEF Init, DispatchInv, CallInv, NoCall
<1>5. OrderInv
  BY DEF Init, OrderInv, OrderConsented, NoConfirmation
<1> QED
  BY <1>3, <1>4, <1>5

\* Every row, record and dispatch keeps its type; in particular no retry, duplicated or
\* not, puts more on a line of the cart than the catalog allows.
THEOREM Typed == Spec => []TypeOK
<1>1. Init => TypeOK /\ DispatchInv
  BY StartsWell
<1> QED
  BY <1>1, TypeStep, PTL DEF Spec

\* Every order, by the page or by the adapter, spent an approval of its own that a
\* human gave, in time, for the very cart that was ordered.
THEOREM OrdersAreConsented == Spec => []OrderConsented
<1>1. OrderInv => OrderConsented
  BY DEF OrderInv
<1> QED
  BY <1>1, StartsWell, TypeStep, OrderStep, PTL DEF Spec

\* However often and by whomever it is retried, a checkout key makes one order.
THEOREM KeysOrderOnce == Spec => []OneOrderPerKey
<1>1. OrderInv => OneOrderPerKey
  BY DEF OrderInv, OrderConsented, OneOrderPerKey
<1> QED
  BY <1>1, StartsWell, TypeStep, OrderStep, PTL DEF Spec

----------------------------------------------------------------------------
\* What is in the store

\* What update_cart computes, with its claim and its target named.
Duplicating(k, p, q) == replay_or_claim(k, p, q) = "replay" /\ injects("duplicate_on_retry")

UpdateTarget(k, p, q) ==
    [state EXCEPT
        !.cart.items[p] = apply_quantity(p, q, Duplicating(k, p, q)),
        !.note = IF injects("undeclared_side_effect") THEN "rewritten" ELSE @]

UpdateAfter(k, p, q) ==
    IF UpdateTarget(k, p, q) = state THEN state
    ELSE with_target_state(UpdateTarget(k, p, q))

\* The state update_cart reports is a state.
LEMMA UpdateAfterTyped ==
    ASSUME TypeOK, NEW k \in Keys, NEW p \in Products, NEW q \in 0..MAX_LINE_QUANTITY
    PROVE  UpdateAfter(k, p, q) \in State
<1> DEFINE note == IF injects("undeclared_side_effect") THEN "rewritten" ELSE state.note
           n == apply_quantity(p, q, Duplicating(k, p, q))
<1>1. state \in State /\ state.cart \in Cart /\ note \in {"as_saved", "rewritten"}
  BY DEF TypeOK, State
<1>2. Duplicating(k, p, q) \in BOOLEAN
  BY DEF Duplicating
<1>3. n \in 0..MAX_LINE_QUANTITY
  BY <1>1, <1>2, QuantityBounded
<1>4. UpdateTarget(k, p, q) \in State
  BY <1>1, <1>3, UpdatedState DEF UpdateTarget
<1> QED
  BY <1>1, <1>4, NextVersion DEF UpdateAfter

\* update_cart claims a fresh key and records what it reports, or acts again for a
\* duplicating store, or answers from the record.
LEMMA UpdateCases ==
    ASSUME NEW k \in Keys, NEW p \in Products, NEW q \in 0..MAX_LINE_QUANTITY,
           update_cart(k, p, q)
    PROVE  \/ /\ updates[k] = None
              /\ updates' = [updates EXCEPT ![k] =
                    [product |-> p, quantity |-> q,
                     response |-> CartResponse(UpdateAfter(k, p, q))]]
              /\ effects' \in {effects, [effects EXCEPT ![k] = @ + 1]}
           \/ /\ updates[k] # None /\ injects("duplicate_on_retry")
              /\ updates' = updates
              /\ effects' \in {effects, [effects EXCEPT ![k] = @ + 1]}
           \/ /\ updates[k] # None
              /\ UNCHANGED <<state, builtUnder, effects, updates>>
<1>1. CASE updates[k] = None
  BY <1>1 DEF update_cart, replay_or_claim, UpdateAfter, UpdateTarget, Duplicating
<1>2. CASE updates[k] # None /\ Duplicating(k, p, q)
  BY <1>2 DEF update_cart, Duplicating
<1>3. CASE updates[k] # None /\ ~ Duplicating(k, p, q)
  <2>1. replay_or_claim(k, p, q) = "replay"
    BY <1>3 DEF update_cart, replay_or_claim
  <2> QED
    BY <1>3, <2>1 DEF update_cart, Duplicating
<1> QED
  BY <1>1, <1>2, <1>3

\* An update_cart adds to what its key did only if the key was fresh or the store
\* duplicates, and under the selected scenario.
LEMMA UpdateEarned ==
    ASSUME TypeOK, EarnedInv, NEW k \in Keys, NEW p \in Products,
           NEW q \in 0..MAX_LINE_QUANTITY, update_cart(k, p, q)
    PROVE  EarnedInv'
<1>1. scenario' = scenario /\ selecting = None /\ selecting' = None
  BY DEF update_cart, LockFree
<1>2. ScenarioIsolated'
  BY <1>1 DEF EarnedInv, StateEarned, ScenarioIsolated, update_cart, write_state
<1>3. effects \in [Keys -> Nat] /\ updates \in [Keys -> UpdateRecord \cup {None}]
  BY DEF TypeOK
<1>4. CASE updates[k] = None /\ effects' \in {effects, [effects EXCEPT ![k] = @ + 1]}
           /\ updates' = [updates EXCEPT ![k] =
                 [product |-> p, quantity |-> q,
                  response |-> CartResponse(UpdateAfter(k, p, q))]]
  <2>1. effects[k] = 0
    BY <1>4 DEF EarnedInv
  <2>2. CartResponse(UpdateAfter(k, p, q)) \in Answer
    BY UpdateAfterTyped DEF CartResponse, Answer, State
  <2>3. updates'[k] \in UpdateRecord
    BY <1>3, <1>4, <2>2 DEF UpdateRecord
  <2>4. updates'[k] # None
    BY <2>3, RecordAssumption
  <2>5. effects'[k] <= 1 /\ \A j \in Keys \ {k} : effects'[j] = effects[j] /\ updates'[j] = updates[j]
    BY <1>3, <1>4, <2>1
  <2>6. RetryHarmless'
    BY <1>1, <1>3, <2>5 DEF EarnedInv, StateEarned, RetryHarmless, injects
  <2>7. \A j \in Keys : updates'[j] = None => effects'[j] = 0
    BY <2>4, <2>5 DEF EarnedInv
  <2> QED
    BY <1>1, <1>2, <2>6, <2>7 DEF EarnedInv, StateEarned
<1>5. CASE updates[k] # None /\ injects("duplicate_on_retry") /\ updates' = updates
           /\ effects' \in {effects, [effects EXCEPT ![k] = @ + 1]}
  <2>1. RetryHarmless'
    BY <1>1, <1>5 DEF RetryHarmless, injects
  <2>2. \A j \in Keys : updates'[j] = None => effects'[j] = 0
    BY <1>3, <1>5 DEF EarnedInv
  <2> QED
    BY <1>1, <1>2, <2>1, <2>2 DEF EarnedInv, StateEarned
<1>6. CASE UNCHANGED <<state, builtUnder, effects, updates>>
  BY <1>1, <1>6 DEF EarnedInv, StateEarned, RetryHarmless, ScenarioIsolated, injects
<1> QED
  BY <1>4, <1>5, <1>6, UpdateCases

\* Every step keeps what is in the store earned.
LEMMA EarnedStep == TypeOK /\ DispatchInv /\ EarnedInv /\ [Next]_vars => EarnedInv'
<1> SUFFICES ASSUME TypeOK, DispatchInv, EarnedInv, [Next]_vars PROVE EarnedInv'
  OBVIOUS
<1>1. ASSUME NEW k \in Keys, NEW p \in Products, NEW q \in 0..MAX_LINE_QUANTITY,
             update_cart(k, p, q)
      PROVE  EarnedInv'
  BY <1>1, UpdateEarned
<1>2. ASSUME NEW target, write_state(target) \/ builtUnder' = builtUnder,
             LockFree, UNCHANGED <<scenario, selecting, updates, effects>>
      PROVE  EarnedInv'
  BY <1>2 DEF write_state, LockFree, EarnedInv, StateEarned, RetryHarmless,
              ScenarioIsolated, injects
<1>3. ASSUME UNCHANGED <<builtUnder, scenario, selecting, updates, effects>>
      PROVE  EarnedInv'
  BY <1>3 DEF EarnedInv, StateEarned, RetryHarmless, ScenarioIsolated, injects
<1>4. CASE apply_discount
  BY <1>2, <1>4 DEF apply_discount
<1>5. ASSUME NEW s, SelectReset(s)
      PROVE  EarnedInv'
  BY <1>5 DEF SelectReset, EarnedInv, StateEarned, RetryHarmless, ScenarioIsolated
<1>6. CASE SelectWrite
  <2>1. builtUnder = {} /\ \A k \in Keys : updates[k] = None /\ effects[k] = 0
    BY <1>6 DEF SelectWrite, EarnedInv
  <2> QED
    BY <1>6, <2>1 DEF SelectWrite, EarnedInv, StateEarned, RetryHarmless, ScenarioIsolated
<1>7. ASSUME NEW c, NEW k, checkout(c, k), UNCHANGED <<scenario, selecting, updates, effects>>
      PROVE  EarnedInv'
  BY <1>2, <1>7 DEF checkout
<1>8. CASE Crash
  BY <1>8 DEF Crash, EarnedInv, StateEarned, RetryHarmless, ScenarioIsolated, injects
<1>9. CASE \E c \in Confs : Lapse(c) \/ PageConfirms(c)
  BY <1>3, <1>9 DEF Lapse, PageConfirms
<1>10. CASE \E c \in Confs, k \in Keys : PageChecksOut(c, k)
  BY <1>7, <1>10 DEF PageChecksOut
<1>11. CASE \/ \E a \in Calls, k \in Keys, consent \in {"granted", "missing"} : Dispatch(a, k, consent)
            \/ \E a \in Calls, c \in Confs : AdapterOpens(a, c)
            \/ \E a \in Calls : AdapterApproves(a)
  BY <1>3, <1>11 DEF Dispatch, AdapterOpens, AdapterApproves
<1>12. CASE \E a \in Calls : AdapterChecksOut(a)
  BY <1>7, <1>12 DEF AdapterChecksOut
<1>13. CASE UNCHANGED vars
  BY <1>3, <1>13 DEF vars
<1> QED
  BY <1>1, <1>4, <1>5, <1>6, <1>8, <1>9, <1>10, <1>11, <1>12, <1>13 DEF Next

\* Neither a retried update_cart nor a stop between the two commits of a selection
\* adds to the cart twice or carries a cart from one scenario into another.
THEOREM StateIsEarned == Spec => []StateEarned
<1>1. Init => EarnedInv
  BY DEF Init, EarnedInv, StateEarned, RetryHarmless, ScenarioIsolated
<1>2. EarnedInv => StateEarned
  BY DEF EarnedInv
<1> QED
  BY <1>1, <1>2, StartsWell, TypeStep, EarnedStep, PTL DEF Spec

\* What update_cart and apply_discount report.
LEMMA AnswerStep ==
    ASSUME TypeOK, Next, answer' # None
    PROVE  \/ injects("discount_reported_but_not_applied")
           \/ answer' = [cart |-> state'.cart, version |-> state'.version]
           \/ \E k \in Keys : updates[k] # None /\ answer' = updates[k].response
<1>1. ASSUME NEW k \in Keys, NEW p \in Products, NEW q \in 0..MAX_LINE_QUANTITY,
             update_cart(k, p, q)
      PROVE  \/ answer' = CartResponse(state')
             \/ updates[k] # None /\ answer' = updates[k].response
  <2>1. CASE replay_or_claim(k, p, q) = "replay" /\ ~ Duplicating(k, p, q)
    BY <1>1, <2>1 DEF update_cart, Duplicating, replay_or_claim
  <2>2. CASE ~ (replay_or_claim(k, p, q) = "replay" /\ ~ Duplicating(k, p, q))
    <3>1. answer' = CartResponse(UpdateAfter(k, p, q))
      BY <1>1, <2>2 DEF update_cart, Duplicating, UpdateAfter, UpdateTarget
    <3>2. state' = UpdateAfter(k, p, q)
      BY <1>1, <2>2 DEF update_cart, Duplicating, UpdateAfter, UpdateTarget, write_state
    <3> QED
      BY <3>1, <3>2
  <2> QED
    BY <2>1, <2>2
<1>2. CASE apply_discount
  BY <1>2 DEF apply_discount, write_state, CartResponse
<1>3. (\E k \in Keys, p \in Products, q \in 0..MAX_LINE_QUANTITY : update_cart(k, p, q))
      \/ apply_discount
  BY DEF Next, SelectReset, SelectWrite, Lapse, PageConfirms, PageChecksOut, Dispatch,
         AdapterOpens, AdapterApproves, AdapterChecksOut, Crash, vars
<1> QED
  BY <1>1, <1>2, <1>3 DEF CartResponse

\* A cart mutation reports the cart it leaves or its key's first report; the one
\* exception is the fault that reports a discount it never applied.
THEOREM AnswersAreTrue == Spec => AnswerTrue
<1>1. TypeOK /\ [Next]_vars =>
        [answer' # None =>
            \/ injects("discount_reported_but_not_applied")
            \/ answer' = [cart |-> state'.cart, version |-> state'.version]
            \/ \E k \in Keys : updates[k] # None /\ answer' = updates[k].response]_vars
  BY AnswerStep
<1> QED
  BY <1>1, Typed, PTL DEF Spec, AnswerTrue
=================================================================================
