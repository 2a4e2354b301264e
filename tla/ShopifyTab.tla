------------------------------- MODULE ShopifyTab -------------------------------
(***************************************************************************)
(* The theme bridge of shopify_bridge/actionwitness-bridge.js in the        *)
(* storefront tabs that opened a launch link, against the pairing service   *)
(* of ShopifyPairing: start and verify as the awaits cut them, the expiry   *)
(* timer, the tool an agent may call twice at once, and the messages in     *)
(* between.  A request is named for the tab that sends it and for its step, *)
(* so the session credential that a redemption mints carries the tab.       *)
(*                                                                          *)
(* The browser's clock agrees with the server's.  A page that is hidden     *)
(* runs no more of the bridge; what it has posted may still arrive.  Runs   *)
(* of other targets are left out.                                           *)
(***************************************************************************)
EXTENDS ShopifyPairing, ShopifyCart

CONSTANTS
    Tabs,              \* storefront tabs
    Calls,             \* invocations of verify_shopify_outcome, per tab
    Documents,         \* the cart.js bodies that the store may serve
    Lossy              \* whether a request to the harness may fail on its way

\* cartObservation: the page fact; the frame that reads has not left for the checkout
cartObservation(d) == [d EXCEPT !.page = [checkout |-> "stayed", store_origin |-> Absent]]

\* a cart.js body, whose values need not be usable; the store adds no page fact to it
Amount == {None, Absent} \cup Int

Line ==
    [variant : {None} \cup STRING, quantity : Amount, price : Amount, line_price : Amount]

Document ==
    [capture_path : STRING, tool_result : BOOLEAN, items : {Absent} \cup Seq(Line),
     item_count : Amount, subtotal : Amount, discount : Amount, total : Amount,
     currency : {None, Absent} \cup STRING, page : {Absent}]

ASSUME TabAssumption ==
    /\ Documents \subseteq Document /\ None \notin Documents
    /\ Requests = Tabs \X ({"redeem", "before"} \cup Calls)
    /\ {"redeem", "before"} \cap Calls = {}
    /\ Carts = {observe(cartObservation(d)) : d \in Documents} \ {None}
    /\ \A c \in Carts : empty_cart(c) <=> c = Empty
    /\ Lossy \in BOOLEAN

VARIABLES
    tab,    \* the closure of each tab's bridge, and where start stands
    call,   \* where each invocation of verify stands, and the cart it read
    mail,   \* requests on their way to the harness
    reply   \* the status that each accepted request is answered with

tabVars == <<pairing, active_pairing, run, active_run, snapshot, req, operator, minted,
             tab, call, mail, reply>>

----------------------------------------------------------------------------
\* Records

Tab ==
    [at      : {"off", "redeem", "read", "got", "before", "over"},
     state   : PairingStatus \cup {"idle", "gone"},
     pairing : Pairings \cup {None},
     session : Requests \cup {None},
     offered : BOOLEAN,
     timer   : BOOLEAN,
     doc     : Documents \cup {None}]

Message ==
    [pairing : Pairings, session : Requests \cup {None},
     doc : {cartObservation(d) : d \in Documents} \cup {None}]

TabTypeOK ==
    /\ tab \in [Tabs -> Tab]
    /\ call \in [Tabs \X Calls -> [at : {"off", "read", "got", "post", "over"},
                                   doc : Documents \cup {None}]]
    /\ mail \in [Requests -> Message \cup {None}]
    /\ reply \in [Requests -> PairingStatus \cup {None}]

TabInit ==
    /\ Init
    /\ tab = [t \in Tabs |-> [at |-> "off", state |-> "idle", pairing |-> None, session |-> None,
                              offered |-> FALSE, timer |-> FALSE, doc |-> None]]
    /\ call = [i \in Tabs \X Calls |-> [at |-> "off", doc |-> None]]
    /\ mail = [q \in Requests |-> None]
    /\ reply = [q \in Requests |-> None]

----------------------------------------------------------------------------
\* What the bridge's steps share

\* moveTo: a terminal state withdraws the tool, drops the credential and stops the clock
moveTo(b, next) ==
    IF next \in TERMINAL_PAIRING_STATUSES
      THEN [b EXCEPT !.state = next, !.offered = FALSE, !.session = None, !.timer = FALSE]
    ELSE [b EXCEPT !.state = next]

\* postToHarness
postToHarness(q, p, s, d) ==
    mail' = [mail EXCEPT ![q] = [pairing |-> p, session |-> s, doc |-> d]]

\* the response to q is back
Accepted(q) == req[q].pc = "done" /\ req[q].answer # "refused"
TurnedDown(q) == req[q].pc = "done" /\ req[q].answer = "refused"

ServerAlone == UNCHANGED <<tab, call, mail>>
TabAlone == UNCHANGED <<vars, reply>>

----------------------------------------------------------------------------
\* start

\* a launch link is opened, again or for the first time: redeem is posted
Launch(t) ==
    /\ tab[t].at = "off"
    /\ \E p \in Pairings :
         /\ pairing[p].status # "none"
         /\ tab' = [tab EXCEPT ![t] = moveTo([@ EXCEPT !.at = "redeem", !.pairing = p], "created")]
         /\ postToHarness(<<t, "redeem">>, p, None, None)
    /\ UNCHANGED call /\ TabAlone

\* the session credential, and armExpiry
Redeemed(t) ==
    /\ tab[t].at = "redeem"
    /\ Accepted(<<t, "redeem">>)
    /\ tab' = [tab EXCEPT ![t] = moveTo([@ EXCEPT !.at = "read", !.session = <<t, "redeem">>,
                                                  !.timer = TRUE], "paired")]
    /\ UNCHANGED <<call, mail>> /\ TabAlone

\* readCartDocument: the shopper and the store's own tools change the cart at will,
\* so that any body may be read
ReadsCart(t) ==
    /\ tab[t].at = "read"
    /\ \E d \in Documents : tab' = [tab EXCEPT ![t].at = "got", ![t].doc = d]
    /\ UNCHANGED <<call, mail>> /\ TabAlone

\* the credential is the one held now, which an expiry may have dropped
SendsBefore(t) ==
    /\ tab[t].at = "got"
    /\ tab' = [tab EXCEPT ![t].at = "before"]
    /\ postToHarness(<<t, "before">>, tab[t].pairing, tab[t].session, cartObservation(tab[t].doc))
    /\ UNCHANGED call /\ TabAlone

\* the status that the harness answers is taken over, and registerTool where it is
\* armed: the browser may have no WebMCP, or reject the registration
Arms(t) ==
    /\ tab[t].at = "before"
    /\ Accepted(<<t, "before">>)
    /\ \E offered \in BOOLEAN :
         /\ offered => reply[<<t, "before">>] = "armed"
         /\ tab' = [tab EXCEPT ![t] = [moveTo(@, reply[<<t, "before">>])
                                         EXCEPT !.at = "over", !.offered = offered]]
    /\ UNCHANGED <<call, mail>> /\ TabAlone

\* the store or the harness refuses, or the request fails on its way
StartThrows(t) ==
    \/ tab[t].at = "read"
    \/ tab[t].at \in {"redeem", "before"} /\ (Lossy \/ TurnedDown(<<t, tab[t].at>>))

StartFails(t) ==
    /\ StartThrows(t)
    /\ tab' = [tab EXCEPT ![t] = [moveTo(@, "error") EXCEPT !.at = "over"]]
    /\ UNCHANGED <<call, mail>> /\ TabAlone

----------------------------------------------------------------------------
\* verify

\* the agent calls the tool; a call that finds the tab not armed ends at once
Invoke(t, c) ==
    /\ call[<<t, c>>].at = "off"
    /\ tab[t].offered
    /\ tab[t].state = "armed" /\ tab[t].session # None
    /\ call' = [call EXCEPT ![<<t, c>>].at = "read"]
    /\ UNCHANGED <<tab, mail>> /\ TabAlone

CallReads(t, c) ==
    /\ call[<<t, c>>].at = "read"
    /\ \E d \in Documents : call' = [call EXCEPT ![<<t, c>>] = [at |-> "got", doc |-> d]]
    /\ UNCHANGED <<tab, mail>> /\ TabAlone

CallSends(t, c) ==
    /\ call[<<t, c>>].at = "got"
    /\ call' = [call EXCEPT ![<<t, c>>].at = "post"]
    /\ postToHarness(<<t, c>>, tab[t].pairing, tab[t].session, cartObservation(call[<<t, c>>].doc))
    /\ UNCHANGED tab /\ TabAlone

\* slip: a verification that could not complete is shown as a failed contract
CallsItFailed == "failed"

\* the state a verification that could not complete leaves
stopped == "error"

\* the verdict, of which three are known
settled(answer) == IF answer \in {"passed", "failed", "error"} THEN answer ELSE stopped

Verified(t, c) ==
    /\ call[<<t, c>>].at = "post"
    /\ Accepted(<<t, c>>)
    /\ tab' = [tab EXCEPT ![t] = moveTo(@, settled(reply[<<t, c>>]))]
    /\ call' = [call EXCEPT ![<<t, c>>].at = "over"]
    /\ UNCHANGED mail /\ TabAlone

CallFails(t, c) ==
    /\ \/ call[<<t, c>>].at = "read"
       \/ call[<<t, c>>].at = "post" /\ (Lossy \/ TurnedDown(<<t, c>>))
    /\ tab' = [tab EXCEPT ![t] = moveTo(@, stopped)]
    /\ call' = [call EXCEPT ![<<t, c>>].at = "over"]
    /\ UNCHANGED mail /\ TabAlone

----------------------------------------------------------------------------
\* The timer and the page

\* armExpiry's callback; a terminal state has cleared the timer
Expires(t) ==
    /\ tab[t].timer
    /\ pairing[tab[t].pairing].lifetime = "elapsed"
    /\ tab' = [tab EXCEPT ![t] = moveTo(@, "expired")]
    /\ UNCHANGED <<call, mail>> /\ TabAlone

\* pagehide, and dispose
Closes(t) ==
    /\ tab[t].state \notin {"idle", "gone"}
    /\ tab' = [tab EXCEPT ![t] = [@ EXCEPT !.at = "over", !.state = "gone", !.offered = FALSE,
                                           !.session = None, !.timer = FALSE]]
    /\ call' = [i \in Tabs \X Calls |-> IF i[1] = t THEN [call[i] EXCEPT !.at = "over"] ELSE call[i]]
    /\ UNCHANGED mail /\ TabAlone

----------------------------------------------------------------------------
\* The harness

\* what an accepted request is told of its pairing, read with or after its last write
Replies ==
    reply' = [q \in Requests |->
                IF req'[q].pc = "done" /\ req[q].pc # "done" /\ req'[q].answer # "refused"
                  THEN pairing'[req'[q].pairing].status
                ELSE reply[q]]

\* the three routes that a storefront page calls: the body is parsed and handed on
redeem_pairing(q) == q[2] = "redeem" /\ redeem(q, mail[q].pairing)

capture_initial_cart(q) ==
    /\ q[2] = "before"
    /\ BridgeRead(q, "before", mail[q].pairing, mail[q].session, observe(mail[q].doc))

verify_pairing(q) ==
    /\ q[2] \in Calls
    /\ BridgeRead(q, "verify", mail[q].pairing, mail[q].session, observe(mail[q].doc))

Arrives(q) ==
    /\ mail[q] # None
    /\ redeem_pairing(q) \/ capture_initial_cart(q) \/ verify_pairing(q)
    /\ mail' = [mail EXCEPT ![q] = None]
    /\ Replies
    /\ UNCHANGED <<tab, call>>

\* the seal, with the verdict that the contract gives the observed cart
JudgedSeal(q) ==
    /\ Seal(q)
    /\ LET p == req[q].pairing IN run'[p] # run[p] => run'[p] = verdict(req[q].cart)

Serves(q) ==
    /\ WriteBefore(q) \/ WriteVerify(q) \/ Replay(q) \/ WriteRefused(q) \/ Gate(q) \/ JudgedSeal(q)
    /\ Replies
    /\ ServerAlone

Operates ==
    /\ \/ \E p \in Pairings : create(p) \/ Lapse(p) \/ OperatorGate(p) \/ OperatorAbandon(p)
       \/ \E purge \in BOOLEAN : Reset(purge)
       \/ Crash
    /\ Replies
    /\ ServerAlone

----------------------------------------------------------------------------

Starts(t) == Redeemed(t) \/ ReadsCart(t) \/ SendsBefore(t) \/ Arms(t) \/ StartFails(t)

Verifies(t, c) == CallReads(t, c) \/ CallSends(t, c) \/ Verified(t, c) \/ CallFails(t, c)

TabNext ==
    \/ \E t \in Tabs : Launch(t) \/ Starts(t) \/ Expires(t) \/ Closes(t)
    \/ \E t \in Tabs, c \in Calls : Invoke(t, c) \/ Verifies(t, c)
    \/ \E q \in Requests : Arrives(q) \/ Serves(q)
    \/ Operates

TabSpec == TabInit /\ [][TabNext]_tabVars

----------------------------------------------------------------------------
\* Properties

\* a passed or failed that a tab shows is the verdict that the harness sealed
ShownIsSealed ==
    \A t \in Tabs :
        tab[t].state \in VERDICT_RUN_STATES => pairing[tab[t].pairing].status = tab[t].state

\* a tab that shows passed started from an empty cart and read the exact one
PassIsExact ==
    \A t \in Tabs :
        tab[t].state = "passed" =>
            /\ req[<<t, "before">>].cart = Empty
            /\ \E c \in Calls : /\ call[<<t, c>>].doc # None
                                /\ HoldsExactlyTheVariant(call[<<t, c>>].doc)

(* verify: "saying failed here would record a verdict nobody established",    *)
(* and the contract: "Leave exactly one configured test variant in the cart". *)
(* Whatever expired, was lost, reset or called twice on the way, a passed or  *)
(* failed that a tab shows is the verdict that the harness sealed, and a tab  *)
(* that shows passed has itself read, after the trial was armed on an empty   *)
(* cart, a cart.js body that holds that variant once and nothing else, at a   *)
(* price that its totals account for.                                         *)
ShownIsTrue == ShownIsSealed /\ PassIsExact

(* The bridge's header: "Registers verify_shopify_outcome while - and only    *)
(* while - the pairing is valid, and unregisters it on every terminal state": *)
(* a tab that offers the tool holds the credential that the tool presents.    *)
ToolOnlyWhileValid == \A t \in Tabs : tab[t].offered => tab[t].session # None

(* PAIRING_GUIDANCE: "The pairing stopped safely and recorded no verdict":    *)
(* where a tab shows error, its trial has no verdict.                         *)
ErrorMeansNoVerdict ==
    \A t \in Tabs :
        tab[t].state = "error" => pairing[tab[t].pairing].status \notin VERDICT_RUN_STATES
==================================================================================
