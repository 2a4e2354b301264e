--------------------------- MODULE ShopifyProofs ---------------------------
(***************************************************************************)
(* The Shopify trial for every set of pairings, runs, requests and carts    *)
(* and every ceiling.  OneLivePairing and VerdictsAgree are inductive given *)
(* TypeOK; OneSession needs what spends the launch link: a pairing that     *)
(* minted a credential has left created for good.  OneMoment and            *)
(* StatusBacked rest on what the carts that were counted left as evidence.  *)
(*                                                                         *)
(* The tabs, in the second part: whatever they do, the service sees requests*)
(* it allows for (TabsUseTheService), so that its theorems hold here too.   *)
(* What a tab shows rests on TabInv, which ties each call of a tab to the   *)
(* request it made, and what the tab was told to what the service recorded. *)
(***************************************************************************)
EXTENDS ShopifyTab, SetTheorems

\* The launch link is spent in the transaction that mints the session.
LinkSpent == \A c \in minted : pairing[c[1]].status \notin {"none", "created"}

\* The ten statuses, and the six that end a trial.
LEMMA PairingStatuses ==
    /\ PairingStatus = {"created", "paired", "armed", "verifying", "passed",
                        "passed_with_warnings", "failed", "expired", "cancelled", "error"}
    /\ TERMINAL_PAIRING_STATUSES =
           {"passed", "passed_with_warnings", "failed", "expired", "cancelled", "error"}
<1>1. PairingStatus = {"created", "paired", "armed", "verifying", "passed",
                       "passed_with_warnings", "failed", "expired", "cancelled", "error"}
  BY DEF PairingStatus, PAIRING_TRANSITIONS
<1> QED
  BY <1>1 DEF TERMINAL_PAIRING_STATUSES, PAIRING_TRANSITIONS

\* Only a paired trial is armed, and only an armed one is verified.
LEMMA PermittedFrom ==
    ASSUME TypeOK, NEW p \in Pairings, pairing[p].status # "none"
    PROVE  /\ require_transition(p, "armed") => pairing[p].status = "paired"
           /\ require_transition(p, "verifying") => pairing[p].status = "armed"
<1>1. pairing[p].status \in PairingStatus
  BY DEF TypeOK, Pairing
<1> QED
  BY <1>1, PairingStatuses DEF require_transition, PAIRING_TRANSITIONS

\* The run states this module writes, and which of them are in flight.
LEMMA RunStates ==
    /\ {"armed", "running", "verifying", "error", "cancelled", "passed",
        "passed_with_warnings", "failed"} \subseteq RunState
    /\ NONTERMINAL_RUN_STATES \subseteq RunState
    /\ NONTERMINAL_RUN_STATES \cap VERDICT_RUN_STATES = {}
    /\ VERDICT_RUN_STATES = {"passed", "passed_with_warnings", "failed"}
    /\ {"none", "purged"} \cap RunState = {}
BY DEF RunState, RUN_TRANSITIONS, NONTERMINAL_RUN_STATES, VERDICT_RUN_STATES, is_terminal

\* A pairing that changes in its status, its session or its run is a pairing.
LEMMA PairingTyped ==
    ASSUME TypeOK, NEW p \in Pairings, NEW s \in PairingStatus
    PROVE  /\ [pairing[p] EXCEPT !.status = s] \in Pairing
           /\ \A c \in Requests \cup {None} :
                  [pairing[p] EXCEPT !.status = s, !.session = c] \in Pairing
           /\ [pairing[p] EXCEPT !.status = s, !.run = p] \in Pairing
           /\ [pairing[p] EXCEPT !.lifetime = "elapsed"] \in Pairing
           /\ [pairing EXCEPT ![p].status = s] \in [Pairings -> Pairing]
           /\ [pairing EXCEPT ![p].lifetime = "elapsed"] \in [Pairings -> Pairing]
BY DEF TypeOK, Pairing

\* A step that moves one trial's status and nothing else of any trial.
LEMMA StatusMoved ==
    ASSUME TypeOK, NEW p \in Pairings, NEW s \in PairingStatus,
           pairing' = [pairing EXCEPT ![p].status = s]
    PROVE  /\ pairing' \in [Pairings -> Pairing]
           /\ pairing'[p].status = s
           /\ \A x \in Pairings \ {p} : pairing'[x] = pairing[x]
<1>1. pairing' \in [Pairings -> Pairing]
  BY PairingTyped
<1> QED
  BY <1>1 DEF TypeOK, Pairing

\* A request that moves on keeps what it presented.
LEMMA RequestTyped ==
    ASSUME TypeOK, NEW q \in Requests
    PROVE  /\ \A pc \in {"gate", "seal"} : [req[q] EXCEPT !.pc = pc] \in Request
           /\ \A answer \in Answer :
                  [req[q] EXCEPT !.pc = "done", !.answer = answer] \in Request
<1>1. req[q] \in Request
  BY DEF TypeOK
<1> QED
  BY <1>1 DEF Request

\* A request between its read and its last transaction, and the trial it is about.
UnderWay == {"write", "gate", "seal"}

FlightInv ==
    \A q \in Requests :
        req[q].pc \in UnderWay =>
            /\ req[q].pairing \in Pairings
            /\ req[q].cart \in Carts
            /\ pairing[req[q].pairing].status # "none"

\* A request that ends is typed, and no longer under way.
LEMMA AnsweredTyped ==
    ASSUME TypeOK, NEW q \in Requests, NEW answer \in Answer, Answered(q, answer)
    PROVE  /\ req' \in [Requests -> Request]
           /\ req'[q].pc = "done"
           /\ \A r \in Requests \ {q} : req'[r] = req[r]
<1>1. [req[q] EXCEPT !.pc = "done", !.answer = answer] \in Request
  BY RequestTyped
<1>2. req'[q].pc = "done"
  BY DEF Answered, TypeOK, Request
<1> QED
  BY <1>1, <1>2 DEF Answered, TypeOK

\* Requests that were under way keep their trial, and no trial is forgotten.
LEMMA FlightFrame ==
    ASSUME FlightInv,
           \A p \in Pairings : pairing[p].status # "none" => pairing'[p].status # "none",
           \A q \in Requests :
               req'[q].pc \in UnderWay =>
                   /\ req[q].pc \in UnderWay
                   /\ req'[q].pairing = req[q].pairing
                   /\ req'[q].cart = req[q].cart
    PROVE  FlightInv'
BY DEF FlightInv, UnderWay

\* A request that is turned away is typed and over.
LEMMA TurnedAwayTyped == TurnedAway \in Request /\ TurnedAway.pc = "done"
BY DEF TurnedAway, NoRequest, Request, Answer

\* A refusal changes the request that is refused and nothing else.
LEMMA RefusedTyped ==
    ASSUME TypeOK, FlightInv, NEW q \in Requests, Refused(q)
    PROVE  TypeOK' /\ FlightInv'
<1>2. /\ req' \in [Requests -> Request]
      /\ req'[q].pc = "done"
      /\ \A r \in Requests \ {q} : req'[r] = req[r]
  BY TurnedAwayTyped DEF Refused, TypeOK
<1>3. UNCHANGED <<pairing, active_pairing, run, active_run, snapshot, operator, minted>>
  BY DEF Refused
<1>4. TypeOK'
  BY <1>2, <1>3 DEF TypeOK
<1>5. FlightInv'
  BY <1>2, <1>3, FlightFrame DEF UnderWay
<1> QED
  BY <1>4, <1>5

\* The records of the trials are typed, and every trial and request is accounted
\* for, after every step.
LEMMA TypeStep == TypeOK /\ FlightInv /\ [Next]_vars => TypeOK' /\ FlightInv'
<1> SUFFICES ASSUME TypeOK, FlightInv, [Next]_vars PROVE TypeOK' /\ FlightInv'
  OBVIOUS
<1> USE PairingStatuses
<1>1. ASSUME NEW p \in Pairings, create(p) PROVE TypeOK' /\ FlightInv'
  <2>1. pairing' \in [Pairings -> Pairing]
    BY <1>1, PairingTyped DEF create
  <2>2. TypeOK'
    BY <1>1, <2>1 DEF create, TypeOK
  <2>3. FlightInv'
    BY <1>1, FlightFrame DEF create, TypeOK, Pairing, UnderWay
  <2> QED BY <2>2, <2>3
<1>2. ASSUME NEW p \in Pairings, Lapse(p) PROVE TypeOK' /\ FlightInv'
  <2>1. pairing' \in [Pairings -> Pairing]
    BY <1>2, PairingTyped DEF Lapse
  <2>2. TypeOK'
    BY <1>2, <2>1 DEF Lapse, TypeOK
  <2>3. FlightInv'
    BY <1>2, FlightFrame DEF Lapse, TypeOK, Pairing, UnderWay
  <2> QED BY <2>2, <2>3
<1>3. ASSUME NEW p \in Pairings, OperatorGate(p) \/ OperatorAbandon(p)
      PROVE  TypeOK' /\ FlightInv'
  <2>1. p \in RunIds
    BY DEF RunIds
  <2>2. run' \in [RunIds -> RunState \cup {"none", "purged"}]
    BY <1>3, <2>1, RunStates DEF OperatorGate, OperatorAbandon, TypeOK
  <2>3. UNCHANGED <<pairing, active_pairing, active_run, snapshot, req, minted>>
    BY <1>3 DEF OperatorGate, OperatorAbandon
  <2>4. operator' \subseteq Pairings
    BY <1>3 DEF OperatorGate, OperatorAbandon, TypeOK
  <2>5. TypeOK'
    BY <2>2, <2>3, <2>4 DEF TypeOK
  <2>6. FlightInv'
    BY <2>3 DEF FlightInv
  <2> QED BY <2>5, <2>6
<1>4. ASSUME NEW q \in Requests, NEW p \in Pairings, redeem(q, p) PROVE TypeOK' /\ FlightInv'
  <2> DEFINE served == [NoRequest EXCEPT
                 !.pc = "done", !.op = "redeem", !.pairing = p, !.answer = "paired"]
  <2>1. served \in Request /\ served.pc = "done"
    BY DEF NoRequest, Request, Answer
  <2> HIDE DEF served
  <2>2. req' = [req EXCEPT ![q] = served] \/ req' = [req EXCEPT ![q] = TurnedAway]
    BY <1>4 DEF redeem, served
  <2>3. /\ req' \in [Requests -> Request]
        /\ req'[q].pc = "done"
        /\ \A r \in Requests \ {q} : req'[r] = req[r]
    BY <2>1, <2>2, TurnedAwayTyped DEF TypeOK
  <2>4. \/ /\ pairing' = [pairing EXCEPT ![p] = [@ EXCEPT !.status = "paired", !.session = q]]
           /\ minted' = minted \cup {<<p, q>>}
        \/ UNCHANGED <<pairing, minted>>
    BY <1>4 DEF redeem
  <2>5. [pairing[p] EXCEPT !.status = "paired", !.session = q] \in Pairing
    BY PairingTyped
  <2>6. /\ pairing' \in [Pairings -> Pairing]
        /\ minted' \subseteq Pairings \X Requests
    BY <2>4, <2>5 DEF TypeOK
  <2>7. TypeOK'
    BY <1>4, <2>3, <2>6 DEF redeem, TypeOK
  <2>8. \A x \in Pairings : pairing[x].status # "none" => pairing'[x].status # "none"
    BY <2>4 DEF TypeOK, Pairing
  <2>9. FlightInv'
    BY <2>3, <2>8, FlightFrame DEF UnderWay
  <2> QED BY <2>7, <2>9
<1>5. ASSUME NEW q \in Requests, NEW op \in {"before", "verify"}, NEW p \in Pairings,
             NEW s \in {c[2] : c \in minted} \cup {None},
             NEW cart \in Carts \cup {None},
             BridgeRead(q, op, p, s, cart)
      PROVE  TypeOK' /\ FlightInv'
  <2> DEFINE reads == [pc |-> "write", op |-> op, pairing |-> p, session |-> s,
                       cart |-> cart, answer |-> "none"]
  <2>1. s \in Requests \cup {None}
    BY DEF TypeOK
  <2>2. reads \in Request /\ reads.pairing = p /\ reads.cart = cart
    BY <2>1 DEF Request, Answer
  <2> HIDE DEF reads
  <2>3. \/ req' = [req EXCEPT ![q] = TurnedAway]
        \/ req' = [req EXCEPT ![q] = reads] /\ cart # None
    BY <1>5 DEF BridgeRead, reads
  <2>4. /\ req' \in [Requests -> Request]
        /\ req'[q] = TurnedAway \/ (req'[q] = reads /\ cart \in Carts)
        /\ \A r \in Requests \ {q} : req'[r] = req[r]
    BY <2>2, <2>3, TurnedAwayTyped DEF TypeOK
  <2>5. pairing' = pairing \/ pairing' = [pairing EXCEPT ![p] = Expire(p)]
    BY <1>5 DEF BridgeRead
  <2>6. Expire(p) \in Pairing /\ (pairing[p].status # "none" => Expire(p).status # "none")
    <3>1. pairing[p] \in Pairing
      BY DEF TypeOK
    <3> DEFINE lapsed == [pairing[p] EXCEPT !.status = "expired"]
    <3>2. lapsed \in Pairing /\ lapsed.status = "expired"
      BY <3>1 DEF Pairing
    <3> HIDE DEF lapsed
    <3>3. Expire(p) \in {pairing[p], lapsed}
      BY DEF Expire, lapsed
    <3> QED BY <3>1, <3>2, <3>3
  <2>7. /\ pairing' \in [Pairings -> Pairing]
        /\ \A x \in Pairings : pairing[x].status # "none" => pairing'[x].status # "none"
    BY <2>5, <2>6 DEF TypeOK
  <2>8. UNCHANGED <<active_pairing, run, active_run, snapshot, operator, minted>>
    BY <1>5 DEF BridgeRead
  <2>9. TypeOK'
    BY <2>4, <2>7, <2>8 DEF TypeOK
  <2>10. pairing[p].status # "none"
    BY <1>5 DEF BridgeRead
  <2>11. FlightInv'
    <3> SUFFICES ASSUME NEW r \in Requests, req'[r].pc \in UnderWay
                 PROVE  /\ req'[r].pairing \in Pairings
                        /\ req'[r].cart \in Carts
                        /\ pairing'[req'[r].pairing].status # "none"
      BY DEF FlightInv, UnderWay
    <3>1. CASE r = q
      BY <3>1, <2>2, <2>4, <2>7, <2>10, TurnedAwayTyped DEF UnderWay
    <3>2. CASE r # q
      BY <3>2, <2>4, <2>7 DEF FlightInv, UnderWay
    <3> QED BY <3>1, <3>2
  <2> QED BY <2>9, <2>11
<1>6. ASSUME NEW q \in Requests, WriteBefore(q) PROVE TypeOK' /\ FlightInv'
  <2> DEFINE p == req[q].pairing
  <2>1. p \in Pairings /\ p \in RunIds /\ req[q].cart \in Carts
    BY <1>6 DEF WriteBefore, FlightInv, RunIds, UnderWay
  <2>2. Answered(q, "captured") /\ "captured" \in Answer
    BY <1>6 DEF WriteBefore, Answer
  <2>3. /\ req' \in [Requests -> Request]
        /\ req'[q].pc = "done"
        /\ \A r \in Requests \ {q} : req'[r] = req[r]
    BY <2>2, AnsweredTyped
  <2>4. [pairing[p] EXCEPT !.status = "armed", !.run = p] \in Pairing
    BY <2>1, PairingTyped
  <2>5. pairing' = [pairing EXCEPT ![p] = [pairing[p] EXCEPT !.status = "armed", !.run = p]]
    BY <1>6 DEF WriteBefore
  <2>6. /\ pairing' \in [Pairings -> Pairing]
        /\ \A x \in Pairings : pairing[x].status # "none" => pairing'[x].status # "none"
    BY <2>1, <2>4, <2>5 DEF TypeOK, Pairing
  <2>7. run' = [run EXCEPT ![p] = "armed"] /\ active_run' = p
    BY <1>6 DEF WriteBefore, create_run
  <2>8. snapshot' = [snapshot EXCEPT ![p].before = req[q].cart]
    BY <1>6 DEF WriteBefore, create_run
  <2>9. snapshot' \in [Pairings -> Snapshots]
    BY <2>1, <2>8 DEF TypeOK, Snapshots
  <2>10. run' \in [RunIds -> RunState \cup {"none", "purged"}]
    BY <2>1, <2>7, RunStates DEF TypeOK
  <2>11. TypeOK'
    BY <1>6, <2>1, <2>3, <2>6, <2>7, <2>9, <2>10 DEF WriteBefore, TypeOK
  <2>12. FlightInv'
    BY <2>3, <2>6, FlightFrame DEF UnderWay
  <2> QED BY <2>11, <2>12
<1>7. ASSUME NEW q \in Requests, WriteVerify(q) PROVE TypeOK' /\ FlightInv'
  <2> DEFINE p == req[q].pairing
  <2>1. p \in Pairings /\ p \in RunIds /\ req[q].pc \in UnderWay
    BY <1>7 DEF WriteVerify, FlightInv, RunIds, UnderWay
  <2>2. req' = [req EXCEPT ![q] = [req[q] EXCEPT !.pc = "gate"]]
    BY <1>7 DEF WriteVerify
  <2>3. /\ req' \in [Requests -> Request]
        /\ req'[q].pairing = p /\ req'[q].cart = req[q].cart
        /\ \A r \in Requests \ {q} : req'[r] = req[r]
    BY <2>2, RequestTyped DEF TypeOK, Request
  <2>4. pairing' = [pairing EXCEPT ![p].status = "verifying"]
    BY <1>7 DEF WriteVerify
  <2>5. /\ pairing' \in [Pairings -> Pairing]
        /\ \A x \in Pairings : pairing[x].status # "none" => pairing'[x].status # "none"
    BY <2>1, <2>4, StatusMoved
  <2>6. run' = [run EXCEPT ![p] = "running"]
    BY <1>7 DEF WriteVerify, accept_external_observation
  <2>9. run' \in [RunIds -> RunState \cup {"none", "purged"}]
    BY <2>1, <2>6, RunStates DEF TypeOK
  <2>7. TypeOK'
    BY <1>7, <2>3, <2>5, <2>9 DEF WriteVerify, TypeOK
  <2>8. FlightInv'
    BY <2>1, <2>3, <2>5, FlightFrame
  <2> QED BY <2>7, <2>8
<1>8. ASSUME NEW q \in Requests, Replay(q) PROVE TypeOK' /\ FlightInv'
  <2>1. Answered(q, "replayed") /\ "replayed" \in Answer
    BY <1>8 DEF Replay, Answer
  <2>2. /\ req' \in [Requests -> Request]
        /\ req'[q].pc = "done"
        /\ \A r \in Requests \ {q} : req'[r] = req[r]
    BY <2>1, AnsweredTyped
  <2>3. UNCHANGED <<pairing, active_pairing, run, active_run, snapshot, operator, minted>>
    BY <1>8 DEF Replay
  <2>4. TypeOK'
    BY <2>2, <2>3 DEF TypeOK
  <2>5. FlightInv'
    BY <2>2, <2>3, FlightFrame DEF UnderWay
  <2> QED BY <2>4, <2>5
<1>9. ASSUME NEW q \in Requests, WriteRefused(q) PROVE TypeOK' /\ FlightInv'
  BY <1>9, RefusedTyped DEF WriteRefused
<1>10. ASSUME NEW q \in Requests, Gate(q) PROVE TypeOK' /\ FlightInv'
  <2> DEFINE p == req[q].pairing
  <2>1. CASE run[p] = "running"
    <3>1. p \in RunIds /\ req[q].pc \in UnderWay
      BY <1>10 DEF Gate, FlightInv, RunIds, UnderWay
    <3>2. req' = [req EXCEPT ![q] = [req[q] EXCEPT !.pc = "seal"]]
      BY <1>10, <2>1 DEF Gate
    <3>3. /\ req' \in [Requests -> Request]
          /\ req'[q].pairing = p /\ req'[q].cart = req[q].cart
          /\ \A r \in Requests \ {q} : req'[r] = req[r]
      BY <3>2, RequestTyped DEF TypeOK, Request
    <3>4. run' = [run EXCEPT ![p] = "verifying"]
      BY <1>10, <2>1 DEF Gate
    <3>5. run' \in [RunIds -> RunState \cup {"none", "purged"}]
      BY <3>1, <3>4, RunStates DEF TypeOK
    <3>6. UNCHANGED <<pairing, active_pairing, active_run, snapshot, operator, minted>>
      BY <1>10, <2>1 DEF Gate
    <3>7. TypeOK'
      BY <3>3, <3>5, <3>6 DEF TypeOK
    <3>8. FlightInv'
      BY <3>1, <3>3, <3>6, FlightFrame
    <3> QED BY <3>7, <3>8
  <2>2. CASE run[p] # "running"
    BY <1>10, <2>2, RefusedTyped DEF Gate
  <2> QED BY <2>1, <2>2
<1>11. ASSUME NEW q \in Requests, Seal(q) PROVE TypeOK' /\ FlightInv'
  <2> DEFINE p == req[q].pairing
             seals == run[p] = "verifying" /\ ArtifactRows < ArtifactRoom /\ on_seal(p)
  <2>1. CASE seals
    <3>1. p \in Pairings /\ p \in RunIds /\ req[q].cart \in Carts
      BY <1>11 DEF Seal, FlightInv, RunIds, UnderWay
    <3>2. PICK result \in VERDICT_RUN_STATES :
              /\ run' = [run EXCEPT ![p] = result]
              /\ snapshot' = [snapshot EXCEPT ![p].after = req[q].cart]
              /\ pairing' = [pairing EXCEPT ![p].status = result]
              /\ Answered(q, "captured")
              /\ UNCHANGED <<active_pairing, active_run, operator, minted>>
      BY <1>11, <2>1 DEF Seal
    <3>3. result \in PairingStatus /\ result \in RunState
      BY RunStates
    <3>4. /\ pairing' \in [Pairings -> Pairing]
          /\ pairing'[p].status = result
          /\ \A x \in Pairings \ {p} : pairing'[x] = pairing[x]
      BY <3>1, <3>2, <3>3, StatusMoved
    <3>5. snapshot' \in [Pairings -> Snapshots]
      BY <3>1, <3>2 DEF TypeOK, Snapshots
    <3>6. run' \in [RunIds -> RunState \cup {"none", "purged"}]
      BY <3>1, <3>2, <3>3 DEF TypeOK
    <3>7. /\ req' \in [Requests -> Request]
          /\ req'[q].pc = "done"
          /\ \A r \in Requests \ {q} : req'[r] = req[r]
      BY <3>2, AnsweredTyped DEF Answer
    <3>8. TypeOK'
      BY <3>2, <3>4, <3>5, <3>6, <3>7 DEF TypeOK
    <3>9. \A x \in Pairings : pairing[x].status # "none" => pairing'[x].status # "none"
      BY <3>2, <3>4, RunStates
    <3>10. FlightInv'
      BY <3>7, <3>9, FlightFrame DEF UnderWay
    <3> QED BY <3>8, <3>10
  <2>2. CASE ~ seals
    BY <1>11, <2>2, RefusedTyped DEF Seal
  <2> QED BY <2>1, <2>2
<1>12. ASSUME NEW r \in Ordinary, OrdinaryArm(r) \/ OrdinaryEnds(r) PROVE TypeOK' /\ FlightInv'
  <2>1. r \in RunIds
    BY DEF RunIds
  <2>2. run' \in [RunIds -> RunState \cup {"none", "purged"}]
    BY <1>12, <2>1, RunStates DEF OrdinaryArm, OrdinaryEnds, TypeOK
  <2>3. UNCHANGED <<pairing, active_pairing, snapshot, req, operator, minted>>
    BY <1>12 DEF OrdinaryArm, OrdinaryEnds
  <2>4. active_run' \in RunIds \cup {None}
    BY <1>12, <2>1 DEF OrdinaryArm, OrdinaryEnds, TypeOK
  <2>5. TypeOK'
    BY <2>2, <2>3, <2>4 DEF TypeOK
  <2>6. FlightInv'
    BY <2>3 DEF FlightInv
  <2> QED BY <2>5, <2>6
<1>13. ASSUME NEW purge \in BOOLEAN, Reset(purge) PROVE TypeOK' /\ FlightInv'
  <2>1. \A p \in Pairings :
            /\ cancel_live_shopify_pairing(p) \in Pairing
            /\ pairing[p].status # "none" => cancel_live_shopify_pairing(p).status # "none"
    <3> TAKE p \in Pairings
    <3> DEFINE closed == [pairing[p] EXCEPT !.status = "cancelled", !.session = None]
    <3>1. pairing[p] \in Pairing
      BY DEF TypeOK
    <3>2. closed \in Pairing /\ closed.status = "cancelled"
      BY <3>1 DEF Pairing
    <3> HIDE DEF closed
    <3>3. cancel_live_shopify_pairing(p) \in {pairing[p], closed}
      BY DEF cancel_live_shopify_pairing, closed
    <3> QED BY <3>1, <3>2, <3>3
  <2>2. \A row \in Pairing : /\ [row EXCEPT !.run = None] \in Pairing
                             /\ [row EXCEPT !.run = None].status = row.status
    BY DEF Pairing
  <2>3. /\ pairing' \in [Pairings -> Pairing]
        /\ \A p \in Pairings : pairing[p].status # "none" => pairing'[p].status # "none"
    <3>1. CASE purge
      <4>1. pairing' = [p \in Pairings |-> [cancel_live_shopify_pairing(p) EXCEPT !.run = None]]
        BY <1>13, <3>1 DEF Reset, deleted_run
      <4> QED BY <2>1, <2>2, <4>1
    <3>2. CASE ~ purge
      <4>1. pairing' = [p \in Pairings |-> cancel_live_shopify_pairing(p)]
        BY <1>13, <3>2 DEF Reset
      <4> QED BY <2>1, <4>1
    <3> QED BY <3>1, <3>2
  <2>4. run' \in [RunIds -> RunState \cup {"none", "purged"}]
    BY <1>13, RunStates DEF Reset, TypeOK
  <2>5. snapshot' \in [Pairings -> Snapshots]
    BY <1>13 DEF Reset, TypeOK, Snapshots, NoSnapshots
  <2>6. UNCHANGED <<req, operator, minted>> /\ active_pairing' = None /\ active_run' = None
    BY <1>13 DEF Reset
  <2>7. TypeOK'
    BY <2>3, <2>4, <2>5, <2>6 DEF TypeOK
  <2>8. FlightInv'
    BY <2>3, <2>6, FlightFrame
  <2> QED BY <2>7, <2>8
<1>14. CASE Crash
  <2>2. req' \in [Requests -> Request]
    BY <1>14, TurnedAwayTyped DEF Crash, TypeOK
  <2>3. \A q \in Requests : req'[q].pc \notin UnderWay
    BY <1>14, TurnedAwayTyped DEF Crash, UnderWay
  <2>4. TypeOK'
    BY <1>14, <2>2 DEF Crash, TypeOK
  <2>5. FlightInv'
    BY <2>3 DEF FlightInv, UnderWay
  <2> QED BY <2>4, <2>5
<1>15. CASE UNCHANGED vars
  BY <1>15 DEF vars, TypeOK, FlightInv
<1> QED
  BY <1>1, <1>2, <1>3, <1>4, <1>5, <1>6, <1>7, <1>8, <1>9, <1>10, <1>11, <1>12, <1>13, <1>14,
     <1>15 DEF Next, Bridge

----------------------------------------------------------------------------
\* The safety of the trial

Safe == OneLivePairing /\ OneSession /\ LinkSpent /\ VerdictsAgree

\* What a step keeps of every finished trial.
FinishedStep ==
    \A p \in Pairings :
        is_terminal_pairing(p) =>
            /\ pairing'[p].status = pairing[p].status
            /\ snapshot'[p] \in {snapshot[p], NoSnapshots}

\* A step that creates no trial, mints nothing, and moves only trials in progress.
StatusFrame ==
    /\ UNCHANGED <<active_pairing, minted>>
    /\ \A p \in Pairings :
           \/ pairing'[p].status = pairing[p].status
           \/ Live(p) /\ pairing'[p].status \in PairingStatus \ {"created"}

\* Within that frame the pairing stays single and its link spent.
LEMMA StatusFrameKeeps ==
    ASSUME TypeOK, OneLivePairing, OneSession, LinkSpent, StatusFrame
    PROVE  OneLivePairing' /\ OneSession' /\ LinkSpent'
<1>1. OneLivePairing'
  BY DEF OneLivePairing, StatusFrame, Live, is_terminal_pairing
<1>2. OneSession'
  BY DEF OneSession, StatusFrame
<1>3. LinkSpent'
  <2>1. \A c \in minted : c[1] \in Pairings
    BY DEF TypeOK
  <2> QED
    BY <2>1, PairingStatuses DEF LinkSpent, StatusFrame
<1> QED
  BY <1>1, <1>2, <1>3

\* A step that gives no verdict and takes none away.
VerdictFrame ==
    \A p \in Pairings :
        \/ pairing'[p].status = pairing[p].status /\ run'[p] = run[p]
        \/ {pairing'[p].status, run'[p]} \cap VERDICT_RUN_STATES = {}

\* Within that frame the verdicts go on agreeing.
LEMMA VerdictFrameKeeps ==
    ASSUME VerdictsAgree, VerdictFrame
    PROVE  VerdictsAgree'
BY DEF VerdictsAgree, VerdictFrame

\* A trial in progress has no verdict, and neither has its run.
LEMMA NoVerdictYet ==
    ASSUME TypeOK, VerdictsAgree, NEW p \in Pairings, ~ is_terminal_pairing(p)
    PROVE  {pairing[p].status, run[p]} \cap VERDICT_RUN_STATES = {}
BY PairingStatuses, RunStates DEF VerdictsAgree, is_terminal_pairing

\* A run in flight belongs to a trial without a verdict.
LEMMA NoVerdictInFlight ==
    ASSUME TypeOK, VerdictsAgree, NEW p \in Pairings, run[p] \in {"running", "verifying"}
    PROVE  pairing[p].status \notin VERDICT_RUN_STATES
BY RunStates DEF VerdictsAgree

\* A step that leaves trials and their evidence as they are, and the runs too.
LEMMA QuietStep ==
    ASSUME TypeOK, Safe, UNCHANGED <<pairing, active_pairing, snapshot, minted>>,
           \A p \in Pairings : run'[p] = run[p]
    PROVE  Safe' /\ FinishedStep
<1>1. StatusFrame /\ VerdictFrame
  BY DEF StatusFrame, VerdictFrame
<1> QED
  BY <1>1, StatusFrameKeeps, VerdictFrameKeeps DEF Safe, FinishedStep

\* A step that moves only the run of one trial, out of flight or within it.
LEMMA RunMoves ==
    ASSUME TypeOK, Safe, UNCHANGED <<pairing, active_pairing, snapshot, minted>>,
           NEW p \in Pairings, run[p] \in {"running", "verifying"},
           NEW s \in {"verifying", "error"}, run' = [run EXCEPT ![p] = s]
    PROVE  Safe' /\ FinishedStep
<1>1. pairing[p].status \notin VERDICT_RUN_STATES
  BY NoVerdictInFlight DEF Safe
<1>2. VerdictFrame
  BY <1>1, RunStates DEF VerdictFrame, TypeOK, RunIds
<1>3. StatusFrame
  BY DEF StatusFrame
<1> QED
  BY <1>2, <1>3, StatusFrameKeeps, VerdictFrameKeeps DEF Safe, FinishedStep

\* A trial that advances in progress, its run with it or not at all.
LEMMA TrialAdvances ==
    ASSUME TypeOK, Safe, UNCHANGED <<active_pairing, minted>>,
           NEW p \in Pairings, Live(p),
           pairing'[p].status \in {"armed", "verifying", "expired"},
           \A x \in Pairings \ {p} : pairing'[x] = pairing[x] /\ snapshot'[x] = snapshot[x],
           run' = run \/ (\E s \in {"armed", "running"} : run' = [run EXCEPT ![p] = s])
    PROVE  Safe' /\ FinishedStep
<1>1. ~ is_terminal_pairing(p)
  BY DEF Live
<1>2. StatusFrame
  BY PairingStatuses DEF StatusFrame
<1>3. run[p] \notin VERDICT_RUN_STATES
  BY <1>1, NoVerdictYet DEF Safe
<1>4. p \in RunIds /\ \A x \in Pairings : x \in RunIds
  BY DEF RunIds
<1>5. VerdictFrame
  BY <1>3, <1>4, RunStates DEF VerdictFrame, TypeOK
<1>6. FinishedStep
  BY <1>1 DEF FinishedStep
<1> QED
  BY <1>2, <1>5, <1>6, StatusFrameKeeps, VerdictFrameKeeps DEF Safe

\* The trial stays safe, and a finished one stays as it is, after every step.
LEMMA SafeStep == TypeOK /\ FlightInv /\ Safe /\ [Next]_vars => Safe' /\ FinishedStep
<1> SUFFICES ASSUME TypeOK, FlightInv, Safe, [Next]_vars PROVE Safe' /\ FinishedStep
  OBVIOUS
<1>1. ASSUME NEW p \in Pairings, create(p) PROVE Safe' /\ FinishedStep
  <2>1. /\ pairing' = [pairing EXCEPT ![p].status = "created"]
        /\ pairing[p].status = "none" /\ active_pairing' = p
        /\ UNCHANGED <<run, snapshot, minted>>
    BY <1>1 DEF create
  <2>2. pairing'[p].status = "created" /\ \A x \in Pairings \ {p} : pairing'[x] = pairing[x]
    BY <2>1, StatusMoved, PairingStatuses
  <2>3. \A x \in Pairings : ~ Live(x)
    BY <1>1 DEF create, require_no_live_pairing
  <2>4. OneLivePairing'
    BY <2>1, <2>2, <2>3 DEF OneLivePairing, Live, is_terminal_pairing
  <2>5. OneSession'
    BY <2>1 DEF Safe, OneSession
  <2>6. LinkSpent'
    <3>1. \A c \in minted : c[1] \in Pairings
      BY DEF TypeOK
    <3> QED BY <2>1, <2>2, <3>1 DEF Safe, LinkSpent
  <2>7. ~ is_terminal_pairing(p)
    BY <2>1, PairingStatuses DEF is_terminal_pairing
  <2>8. VerdictFrame
    BY <2>1, <2>2, <2>7, NoVerdictYet, RunStates DEF Safe, VerdictFrame
  <2>9. FinishedStep
    BY <2>1, <2>2, <2>7 DEF FinishedStep
  <2> QED BY <2>4, <2>5, <2>6, <2>8, <2>9, VerdictFrameKeeps DEF Safe
<1>2. ASSUME NEW p \in Pairings, Lapse(p) PROVE Safe' /\ FinishedStep
  <2>1. /\ pairing' = [pairing EXCEPT ![p].lifetime = "elapsed"]
        /\ UNCHANGED <<active_pairing, run, snapshot, minted>>
    BY <1>2 DEF Lapse
  <2>2. \A x \in Pairings : pairing'[x].status = pairing[x].status
    BY <2>1 DEF TypeOK, Pairing
  <2>3. StatusFrame /\ VerdictFrame
    BY <2>1, <2>2 DEF StatusFrame, VerdictFrame
  <2>4. FinishedStep
    BY <2>1, <2>2 DEF FinishedStep
  <2> QED BY <2>3, <2>4, StatusFrameKeeps, VerdictFrameKeeps DEF Safe
<1>3. ASSUME NEW p \in Pairings, OperatorGate(p) PROVE Safe' /\ FinishedStep
  BY <1>3, RunMoves DEF OperatorGate
<1>4. ASSUME NEW p \in Pairings, OperatorAbandon(p) PROVE Safe' /\ FinishedStep
  <2>1. CASE run[p] = "verifying"
    <3>1. run' = [run EXCEPT ![p] = "error"]
      BY <1>4, <2>1 DEF OperatorAbandon
    <3> QED BY <1>4, <2>1, <3>1, RunMoves DEF OperatorAbandon
  <2>2. CASE run[p] # "verifying"
    <3>1. \A x \in Pairings : run'[x] = run[x]
      BY <1>4, <2>2 DEF OperatorAbandon, TypeOK, RunIds
    <3> QED BY <1>4, <3>1, QuietStep DEF OperatorAbandon
  <2> QED BY <2>1, <2>2
<1>5. ASSUME NEW q \in Requests, NEW p \in Pairings, redeem(q, p) PROVE Safe' /\ FinishedStep
  <2>1. UNCHANGED <<active_pairing, run, snapshot>>
    BY <1>5 DEF redeem
  <2>2. CASE ~ redeemable(p)
    <3>1. UNCHANGED <<pairing, minted>>
      BY <1>5, <2>2 DEF redeem
    <3> QED BY <2>1, <3>1, QuietStep
  <2>3. CASE redeemable(p)
    <3>1. /\ pairing' = [pairing EXCEPT ![p] = [pairing[p] EXCEPT !.status = "paired", !.session = q]]
          /\ minted' = minted \cup {<<p, q>>}
      BY <1>5, <2>3 DEF redeem
    <3>2. pairing[p].status = "created"
      BY <2>3 DEF redeemable
    <3>3. pairing'[p].status = "paired" /\ \A x \in Pairings \ {p} : pairing'[x] = pairing[x]
      BY <3>1 DEF TypeOK, Pairing
    <3>4. ~ is_terminal_pairing(p) /\ Live(p)
      BY <3>2, PairingStatuses DEF is_terminal_pairing, Live
    <3>5. OneLivePairing'
      BY <2>1, <3>3, <3>4 DEF Safe, OneLivePairing, Live, is_terminal_pairing
    <3>6. \A c \in minted : c[1] # p /\ c[1] \in Pairings
      BY <3>2 DEF Safe, LinkSpent, TypeOK
    <3>7. OneSession'
      BY <3>1, <3>6 DEF Safe, OneSession
    <3>8. LinkSpent'
      BY <3>1, <3>3, <3>6 DEF Safe, LinkSpent
    <3>9. VerdictFrame
      BY <2>1, <3>3, <3>4, NoVerdictYet, RunStates DEF Safe, VerdictFrame
    <3>10. FinishedStep
      BY <2>1, <3>3, <3>4 DEF FinishedStep
    <3> QED BY <3>5, <3>7, <3>8, <3>9, <3>10, VerdictFrameKeeps DEF Safe
  <2> QED BY <2>2, <2>3
<1>6. ASSUME NEW q \in Requests, NEW op \in {"before", "verify"}, NEW p \in Pairings,
             NEW s \in {c[2] : c \in minted} \cup {None},
             NEW cart \in Carts \cup {None},
             BridgeRead(q, op, p, s, cart)
      PROVE  Safe' /\ FinishedStep
  <2>1. UNCHANGED <<active_pairing, run, snapshot, minted>> /\ pairing[p].status # "none"
    BY <1>6 DEF BridgeRead
  <2>2. CASE pairing[p].lifetime = "elapsed" /\ ~ is_terminal_pairing(p)
    <3>1. pairing' = [pairing EXCEPT ![p] = [pairing[p] EXCEPT !.status = "expired"]]
      BY <1>6, <2>2 DEF BridgeRead, Expire
    <3>2. pairing'[p].status = "expired" /\ \A x \in Pairings \ {p} : pairing'[x] = pairing[x]
      BY <3>1 DEF TypeOK, Pairing
    <3>3. Live(p)
      BY <2>1, <2>2 DEF Live
    <3> QED BY <2>1, <3>2, <3>3, TrialAdvances
  <2>3. CASE ~ (pairing[p].lifetime = "elapsed" /\ ~ is_terminal_pairing(p))
    <3>1. pairing' = pairing \/ pairing' = [pairing EXCEPT ![p] = pairing[p]]
      BY <1>6, <2>3 DEF BridgeRead, Expire
    <3>2. pairing' = pairing
      BY <3>1 DEF TypeOK
    <3> QED BY <2>1, <3>2, QuietStep
  <2> QED BY <2>2, <2>3
<1>7. ASSUME NEW q \in Requests, WriteBefore(q) PROVE Safe' /\ FinishedStep
  <2> DEFINE p == req[q].pairing
  <2>1. p \in Pairings /\ pairing[p].status # "none"
    BY <1>7 DEF WriteBefore, FlightInv, UnderWay
  <2>2. pairing[p].status = "paired"
    BY <1>7, <2>1, PermittedFrom DEF WriteBefore, ArmsRun
  <2>3. Live(p)
    BY <2>2, PairingStatuses DEF Live, is_terminal_pairing
  <2>4. /\ pairing' = [pairing EXCEPT ![p] = [pairing[p] EXCEPT !.status = "armed", !.run = p]]
        /\ run' = [run EXCEPT ![p] = "armed"]
        /\ snapshot' = [snapshot EXCEPT ![p].before = req[q].cart]
        /\ UNCHANGED <<active_pairing, minted>>
    BY <1>7 DEF WriteBefore, create_run
  <2>5. /\ pairing'[p].status = "armed"
        /\ \A x \in Pairings \ {p} : pairing'[x] = pairing[x] /\ snapshot'[x] = snapshot[x]
    BY <2>1, <2>4 DEF TypeOK, Pairing
  <2> QED BY <2>1, <2>3, <2>4, <2>5, TrialAdvances
<1>8. ASSUME NEW q \in Requests, WriteVerify(q) PROVE Safe' /\ FinishedStep
  <2> DEFINE p == req[q].pairing
  <2>1. p \in Pairings /\ pairing[p].status # "none"
    BY <1>8 DEF WriteVerify, FlightInv, UnderWay
  <2>2. pairing[p].status = "armed"
    BY <1>8, <2>1, PermittedFrom DEF WriteVerify, AcceptsAfter
  <2>3. Live(p)
    BY <2>2, PairingStatuses DEF Live, is_terminal_pairing
  <2>4. /\ pairing' = [pairing EXCEPT ![p].status = "verifying"]
        /\ run' = [run EXCEPT ![p] = "running"]
        /\ UNCHANGED <<active_pairing, snapshot, minted>>
    BY <1>8 DEF WriteVerify, accept_external_observation
  <2>5. pairing'[p].status = "verifying" /\ \A x \in Pairings \ {p} : pairing'[x] = pairing[x]
    BY <2>1, <2>4, StatusMoved, PairingStatuses
  <2> QED BY <2>1, <2>3, <2>4, <2>5, TrialAdvances
<1>9. ASSUME NEW q \in Requests, Replay(q) \/ WriteRefused(q) PROVE Safe' /\ FinishedStep
  BY <1>9, QuietStep DEF Replay, WriteRefused, Refused
<1>10. ASSUME NEW q \in Requests, Gate(q) PROVE Safe' /\ FinishedStep
  <2>1. req[q].pairing \in Pairings
    BY <1>10 DEF Gate, FlightInv, UnderWay
  <2>2. CASE run[req[q].pairing] = "running"
    BY <1>10, <2>1, <2>2, RunMoves DEF Gate
  <2>3. CASE run[req[q].pairing] # "running"
    BY <1>10, <2>3, QuietStep DEF Gate, Refused
  <2> QED BY <2>2, <2>3
<1>11. ASSUME NEW q \in Requests, Seal(q) PROVE Safe' /\ FinishedStep
  <2> DEFINE p == req[q].pairing
             seals == run[p] = "verifying" /\ ArtifactRows < ArtifactRoom /\ on_seal(p)
  <2>1. CASE seals
    <3>1. p \in Pairings /\ p \in RunIds /\ \A x \in Pairings : x \in RunIds
      BY <1>11 DEF Seal, FlightInv, UnderWay, RunIds
    <3>2. PICK result \in VERDICT_RUN_STATES :
              /\ run' = [run EXCEPT ![p] = result]
              /\ snapshot' = [snapshot EXCEPT ![p].after = req[q].cart]
              /\ pairing' = [pairing EXCEPT ![p].status = result]
              /\ UNCHANGED <<active_pairing, minted>>
      BY <1>11, <2>1 DEF Seal
    <3>3. result \in PairingStatus /\ result # "created"
      BY RunStates, PairingStatuses
    <3>4. pairing'[p].status = result /\ \A x \in Pairings \ {p} : pairing'[x] = pairing[x]
      BY <3>1, <3>2, <3>3, StatusMoved
    <3>5. Live(p) /\ ~ is_terminal_pairing(p)
      BY <2>1, PairingStatuses DEF on_seal, Live, is_terminal_pairing
    <3>6. StatusFrame
      BY <3>2, <3>3, <3>4, <3>5 DEF StatusFrame
    <3>7. run'[p] = result /\ \A x \in Pairings \ {p} : run'[x] = run[x]
      BY <3>1, <3>2 DEF TypeOK
    <3>8. VerdictsAgree'
      BY <3>4, <3>7 DEF Safe, VerdictsAgree
    <3>9. FinishedStep
      BY <3>1, <3>2, <3>4, <3>5 DEF FinishedStep, TypeOK
    <3> QED BY <3>6, <3>8, <3>9, StatusFrameKeeps DEF Safe
  <2>2. CASE ~ seals
    BY <1>11, <2>2, QuietStep DEF Seal, Refused
  <2> QED BY <2>1, <2>2
<1>12. ASSUME NEW r \in Ordinary, OrdinaryArm(r) \/ OrdinaryEnds(r) PROVE Safe' /\ FinishedStep
  <2>1. \A p \in Pairings : p # r /\ p \in RunIds
    BY PairingAssumption DEF RunIds
  <2>2. \A p \in Pairings : run'[p] = run[p]
    BY <1>12, <2>1 DEF OrdinaryArm, OrdinaryEnds, TypeOK
  <2> QED BY <1>12, <2>2, QuietStep DEF OrdinaryArm, OrdinaryEnds
<1>13. ASSUME NEW purge \in BOOLEAN, Reset(purge) PROVE Safe' /\ FinishedStep
  <2>1. \A p \in Pairings :
            pairing'[p].status = IF Live(p) THEN "cancelled" ELSE pairing[p].status
    <3> DEFINE closed(p) == cancel_live_shopify_pairing(p)
    <3>1. \A p \in Pairings : closed(p) \in Pairing
                /\ closed(p).status = IF Live(p) THEN "cancelled" ELSE pairing[p].status
      BY PairingStatuses DEF cancel_live_shopify_pairing, TypeOK, Pairing
    <3>2. \A row \in Pairing : [row EXCEPT !.run = None].status = row.status
      BY DEF Pairing
    <3>3. CASE purge
      <4>1. pairing' = [p \in Pairings |-> [closed(p) EXCEPT !.run = None]]
        BY <1>13, <3>3 DEF Reset, deleted_run
      <4> HIDE DEF closed
      <4> QED BY <3>1, <3>2, <4>1
    <3>4. CASE ~ purge
      <4>1. pairing' = [p \in Pairings |-> closed(p)]
        BY <1>13, <3>4 DEF Reset
      <4> HIDE DEF closed
      <4> QED BY <3>1, <4>1
    <3> QED BY <3>3, <3>4
  <2>2. UNCHANGED minted
    BY <1>13 DEF Reset
  <2>3. OneLivePairing'
    BY <2>1, PairingStatuses DEF OneLivePairing, Live, is_terminal_pairing
  <2>4. OneSession'
    BY <2>2 DEF Safe, OneSession
  <2>5. LinkSpent'
    <3>1. \A c \in minted : c[1] \in Pairings
      BY DEF TypeOK
    <3> QED BY <2>1, <2>2, <3>1 DEF Safe, LinkSpent
  <2>6. \A p \in Pairings :
            run'[p] = IF purge /\ run[p] # "none" THEN "purged"
                      ELSE IF run[p] \in NONTERMINAL_RUN_STATES THEN "cancelled" ELSE run[p]
    BY <1>13 DEF Reset, RunIds
  <2>7. VerdictsAgree'
    <3> SUFFICES ASSUME NEW p \in Pairings
                 PROVE  /\ run'[p] \in VERDICT_RUN_STATES => pairing'[p].status = run'[p]
                        /\ pairing'[p].status \in VERDICT_RUN_STATES =>
                               run'[p] \in {pairing'[p].status, "purged"}
      BY DEF VerdictsAgree
    <3>1. /\ run[p] \in VERDICT_RUN_STATES => pairing[p].status = run[p]
          /\ pairing[p].status \in VERDICT_RUN_STATES => run[p] \in {pairing[p].status, "purged"}
      BY DEF Safe, VerdictsAgree
    <3>2. pairing[p].status \in VERDICT_RUN_STATES => ~ Live(p)
      BY RunStates, PairingStatuses DEF Live, is_terminal_pairing
    <3> QED BY <2>1, <2>6, <3>1, <3>2, RunStates
  <2>8. FinishedStep
    <3>1. \A p \in Pairings : snapshot'[p] \in {snapshot[p], NoSnapshots}
      BY <1>13 DEF Reset
    <3> QED BY <2>1, <3>1 DEF FinishedStep, Live
  <2> QED BY <2>3, <2>4, <2>5, <2>7, <2>8 DEF Safe
<1>14. CASE Crash
  BY <1>14, QuietStep DEF Crash
<1>15. CASE UNCHANGED vars
  BY <1>15, QuietStep DEF vars
<1> QED
  BY <1>1, <1>2, <1>3, <1>4, <1>5, <1>6, <1>7, <1>8, <1>9, <1>10, <1>11, <1>12, <1>13, <1>14,
     <1>15 DEF Next, Bridge

----------------------------------------------------------------------------
\* The theorems

\* The beginning: no pairing, no run, no request.
LEMMA StartsWell == Init => TypeOK /\ FlightInv /\ Safe
<1> SUFFICES ASSUME Init PROVE TypeOK /\ FlightInv /\ Safe
  OBVIOUS
<1>1. /\ NoPairing \in Pairing /\ NoPairing.status = "none"
      /\ NoSnapshots \in Snapshots
      /\ NoRequest \in Request /\ NoRequest.pc = "idle"
  BY DEF NoPairing, Pairing, NoSnapshots, Snapshots, NoRequest, Request, Answer
<1>2. TypeOK
  BY <1>1 DEF Init, TypeOK
<1>3. FlightInv
  BY <1>1 DEF Init, FlightInv, UnderWay
<1>4. OneLivePairing /\ VerdictsAgree
  BY <1>1, RunStates DEF Init, OneLivePairing, Live, VerdictsAgree, RunIds
<1>5. OneSession /\ LinkSpent
  BY DEF Init, OneSession, LinkSpent
<1> QED
  BY <1>2, <1>3, <1>4, <1>5 DEF Safe

\* The invariant of the module.
LEMMA AlwaysSafe == Spec => [](TypeOK /\ FlightInv /\ Safe)
<1>1. TypeOK /\ FlightInv /\ Safe /\ [Next]_vars => (TypeOK /\ FlightInv /\ Safe)'
  BY TypeStep, SafeStep
<1> QED
  BY <1>1, StartsWell, PTL DEF Spec

\* Every reachable state of the trial is one of the records and statuses the schema
\* admits.
THEOREM Typed == Spec => []TypeOK
BY AlwaysSafe, PTL

\* create and reset: at most one trial is in progress, and the workspace names it.
THEOREM PairingIsSingle == Spec => []OneLivePairing
<1>1. Safe => OneLivePairing
  BY DEF Safe
<1> QED
  BY <1>1, AlwaysSafe, PTL

\* redeem: a launch link is exchanged for one session credential and no more.
THEOREM LinkOpensOnce == Spec => []OneSession
<1>1. Safe => OneSession
  BY DEF Safe
<1> QED
  BY <1>1, AlwaysSafe, PTL

\* _finalizer: a run and its pairing never carry different verdicts.
THEOREM VerdictsAlwaysAgree == Spec => []VerdictsAgree
<1>1. Safe => VerdictsAgree
  BY DEF Safe
<1> QED
  BY <1>1, AlwaysSafe, PTL

\* Whatever arrives late, a finished trial keeps its status and its evidence.
THEOREM FinishedTrialsStay == Spec => FinishedStays
<1>1. TypeOK /\ FlightInv /\ Safe /\ [Next]_vars => [FinishedStep]_vars
  BY SafeStep
<1>2. Spec => [][FinishedStep]_vars
  BY <1>1, AlwaysSafe, PTL DEF Spec
<1> QED
  BY <1>2 DEF FinishedStays, FinishedStep

\* capture_before and verify look at the lifetime again in the transaction that writes:
\* a pairing whose lifetime elapsed while its cart was normalised moves no run.
THEOREM CapturesAreInTime == Spec => CaptureInTime
<1> DEFINE InTime(p) ==
      pairing[p].lifetime = "elapsed" /\ run'[p] # run[p] => run'[p] \notin {"armed", "running"}
<1>1. ASSUME TypeOK, FlightInv, [Next]_vars, NEW p \in Pairings PROVE InTime(p)
  <2>1. ASSUME NEW x \in Pairings, create(x) \/ Lapse(x) \/ OperatorGate(x) \/ OperatorAbandon(x)
        PROVE  InTime(p)
    BY <1>1, <2>1 DEF create, Lapse, OperatorGate, OperatorAbandon, TypeOK, RunIds
  <2>2. ASSUME NEW q \in Requests, WriteBefore(q) \/ WriteVerify(q) PROVE InTime(p)
    <3>1. authorized(req[q].pairing, req[q].session)
      BY <2>2 DEF WriteBefore, WriteVerify, ArmsRun, AcceptsAfter
    <3>2. \E s \in {"armed", "running"} : run' = [run EXCEPT ![req[q].pairing] = s]
      BY <2>2 DEF WriteBefore, WriteVerify, create_run, accept_external_observation
    <3> QED BY <1>1, <3>1, <3>2 DEF authorized, TypeOK, RunIds
  <2>3. ASSUME NEW q \in Requests, Gate(q) \/ Seal(q) PROVE InTime(p)
    BY <1>1, <2>3, RunStates DEF Gate, Seal, Refused, TypeOK, RunIds
  <2>4. ASSUME NEW q \in Requests, Bridge(q) PROVE InTime(p)
    BY <2>2, <2>3, <2>4 DEF Bridge, redeem, BridgeRead, Replay, WriteRefused, Refused
  <2>5. ASSUME NEW r \in Ordinary, OrdinaryArm(r) \/ OrdinaryEnds(r) PROVE InTime(p)
    BY <1>1, <2>5, PairingAssumption DEF OrdinaryArm, OrdinaryEnds, TypeOK, RunIds
  <2>6. ASSUME NEW purge \in BOOLEAN, Reset(purge) PROVE InTime(p)
    BY <1>1, <2>6 DEF Reset, TypeOK, RunIds
  <2>7. CASE Crash \/ UNCHANGED vars
    BY <2>7 DEF Crash, vars
  <2> QED BY <1>1, <2>1, <2>4, <2>5, <2>6, <2>7 DEF Next
<1>2. TypeOK /\ FlightInv /\ Safe /\ [Next]_vars => [\A p \in Pairings : InTime(p)]_vars
  BY <1>1
<1> QED BY <1>2, AlwaysSafe, PTL DEF Spec, CaptureInTime

----------------------------------------------------------------------------
\* A reset reaches the tab

\* A cancelled pairing has no session left for a credential to match.
SessionClosed == \A p \in Pairings : pairing[p].status = "cancelled" => pairing[p].session = None

\* What may happen to a pairing without opening a cancelled one: it stays, it changes in
\* neither field, it moves to another status, or it is cancelled with its session.
Closing(p) ==
    \/ pairing'[p].status # "cancelled"
    \/ pairing'[p].status = pairing[p].status /\ pairing'[p].session = pairing[p].session
    \/ pairing'[p].session = None

\* _cancel_live_shopify_pairing is the one writer of cancelled, and every other status is
\* left by nobody but for one that is not cancelled.
LEMMA ClosingStep ==
    ASSUME TypeOK, FlightInv, [Next]_vars, NEW p \in Pairings
    PROVE  Closing(p)
<1> USE DEF Closing
<1>1. pairing[p] \in Pairing
  BY DEF TypeOK
<1>2. ASSUME NEW x \in Pairings, create(x) \/ Lapse(x) \/ OperatorGate(x) \/ OperatorAbandon(x)
      PROVE  Closing(p)
  BY <1>1, <1>2 DEF create, Lapse, OperatorGate, OperatorAbandon, TypeOK, Pairing
<1>3. ASSUME NEW q \in Requests, Bridge(q) PROVE Closing(p)
  <2>1. ASSUME NEW x \in Pairings, redeem(q, x) PROVE Closing(p)
    <3>1. CASE redeemable(x)
      <4>1. pairing' = [pairing EXCEPT ![x] = [pairing[x] EXCEPT !.status = "paired", !.session = q]]
        BY <2>1, <3>1 DEF redeem
      <4>2. CASE x = p
        <5>1. pairing'[p] = [pairing[p] EXCEPT !.status = "paired", !.session = q]
          BY <4>1, <4>2 DEF TypeOK
        <5> QED BY <1>1, <5>1 DEF Pairing
      <4>3. CASE x # p
        BY <4>1, <4>3 DEF TypeOK
      <4> QED BY <4>2, <4>3
    <3>2. CASE ~redeemable(x)
      BY <2>1, <3>2 DEF redeem
    <3> QED BY <3>1, <3>2
  <2>2. ASSUME NEW op, NEW x \in Pairings, NEW s, NEW cart, BridgeRead(q, op, x, s, cart)
        PROVE  Closing(p)
    BY <1>1, <2>2 DEF BridgeRead, Expire, TypeOK, Pairing
  <2>3. CASE WriteBefore(q)
    BY <1>1, <2>3 DEF WriteBefore, TypeOK, Pairing
  <2>4. CASE WriteVerify(q)
    BY <1>1, <2>4 DEF WriteVerify, TypeOK, Pairing
  <2>5. CASE Seal(q)
    BY <1>1, <2>5, RunStates DEF Seal, Refused, TypeOK, Pairing
  <2> QED BY <1>3, <2>1, <2>2, <2>3, <2>4, <2>5 DEF Bridge, Replay, WriteRefused, Gate, Refused
<1>4. ASSUME NEW r \in Ordinary, OrdinaryArm(r) \/ OrdinaryEnds(r) PROVE Closing(p)
  BY <1>4 DEF OrdinaryArm, OrdinaryEnds
<1>5. ASSUME NEW purge \in BOOLEAN, Reset(purge) PROVE Closing(p)
  BY <1>1, <1>5 DEF Reset, deleted_run, cancel_live_shopify_pairing, Pairing
<1>6. CASE Crash \/ UNCHANGED vars
  BY <1>6 DEF Crash, vars
<1> QED BY <1>2, <1>3, <1>4, <1>5, <1>6 DEF Next

\* No cancelled pairing keeps its session, in any behaviour.
LEMMA SessionsClose == Spec => []SessionClosed
<1>1. Init => SessionClosed
  BY DEF Init, SessionClosed, NoPairing
<1>2. TypeOK /\ FlightInv /\ Safe /\ SessionClosed /\ [Next]_vars => SessionClosed'
  BY ClosingStep DEF SessionClosed, Closing
<1> QED BY <1>1, <1>2, AlwaysSafe, PTL DEF Spec

\* A bridge request that is told its cart counted belongs to a trial that is not
\* cancelled: the write finds the session closed, and the seal the pairing moved.
LEMMA AnswersCount ==
    ASSUME TypeOK, FlightInv, SessionClosed, [Next]_vars, NEW q \in Requests,
           req'[q].answer # req[q].answer, req'[q].answer \in {"captured", "replayed"}
    PROVE  pairing[req[q].pairing].status # "cancelled"
<1>1. req[q] \in Request
  BY DEF TypeOK
<1>2. \A r \in Requests : req[r].pc \in UnderWay => req[r].pairing \in Pairings
  BY DEF FlightInv, TypeOK, Request
<1>3. TurnedAway.answer = "refused"
  BY DEF TurnedAway, NoRequest
<1>4. ASSUME NEW r \in Requests, Bridge(r) PROVE pairing[req[q].pairing].status # "cancelled"
  <2>1. CASE WriteBefore(r) \/ Replay(r)
    <3>1. req[r].pc = "write" /\ authorized(req[r].pairing, req[r].session)
      BY <2>1 DEF WriteBefore, ArmsRun, Replay, RepeatsBefore, RepeatsAfter
    <3>2. r = q
      BY <2>1 DEF WriteBefore, Replay, Answered, TypeOK
    <3> QED BY <1>2, <3>1, <3>2 DEF authorized, SessionClosed, UnderWay
  <2>2. CASE Seal(r)
    <3>1. CASE run[req[r].pairing] = "verifying" /\ ArtifactRows < ArtifactRoom /\ on_seal(req[r].pairing)
      <4>1. r = q
        BY <2>2, <3>1 DEF Seal, Answered, TypeOK
      <4> QED BY <3>1, <4>1 DEF on_seal
    <3>2. CASE Refused(r)
      BY <1>3, <3>2 DEF Refused, TypeOK
    <3> QED BY <2>2, <3>1, <3>2 DEF Seal
  <2>3. CASE Gate(r) \/ WriteVerify(r) \/ WriteRefused(r)
    BY <1>1, <1>3, <2>3 DEF Gate, WriteVerify, WriteRefused, Refused, TypeOK, Request
  <2>4. ASSUME NEW p \in Pairings, redeem(r, p) PROVE FALSE
    BY <1>1, <1>3, <2>4 DEF redeem, NoRequest, TypeOK
  <2>5. ASSUME NEW op, NEW p, NEW s, NEW cart, BridgeRead(r, op, p, s, cart) PROVE FALSE
    BY <1>1, <1>3, <2>5 DEF BridgeRead, TypeOK
  <2> QED BY <1>4, <2>1, <2>2, <2>3, <2>4, <2>5 DEF Bridge
<1>5. ASSUME NEW p \in Pairings, create(p) \/ Lapse(p) \/ OperatorGate(p) \/ OperatorAbandon(p)
      PROVE  FALSE
  BY <1>5 DEF create, Lapse, OperatorGate, OperatorAbandon
<1>6. ASSUME NEW r \in Ordinary, OrdinaryArm(r) \/ OrdinaryEnds(r) PROVE FALSE
  BY <1>6 DEF OrdinaryArm, OrdinaryEnds
<1>7. ASSUME NEW purge \in BOOLEAN, Reset(purge) PROVE FALSE
  BY <1>7 DEF Reset
<1>8. CASE Crash \/ UNCHANGED vars
  BY <1>3, <1>8 DEF Crash, vars
<1> QED BY <1>4, <1>5, <1>6, <1>7, <1>8 DEF Next

\* _cancel_live_shopify_pairing: after a reset no request of the cancelled trial, new or
\* already in flight, is told that its cart counted.
THEOREM ResetsReachTheTab == Spec => ResetReachesTab
<1> DEFINE Reached(q) ==
      req'[q].answer # req[q].answer /\ req'[q].answer \in {"captured", "replayed"} =>
          pairing[req[q].pairing].status # "cancelled"
<1>1. TypeOK /\ FlightInv /\ Safe /\ SessionClosed /\ [Next]_vars
        => [\A q \in Requests : Reached(q)]_vars
  BY AnswersCount
<1> QED BY <1>1, AlwaysSafe, SessionsClose, PTL DEF Spec, ResetReachesTab

----------------------------------------------------------------------------
\* What a trial observed

\* A trial before its first cart.
Unarmed == {"none", "created", "paired"}

\* A trial whose run a purge deleted.
Gone(p) == pairing[p].run = None /\ is_terminal_pairing(p)

\* The evidence of a trial: its run and its first cart are there together, and a final
\* cart is there exactly when the trial was sealed.
Backed(p) ==
    /\ pairing[p].run # None =>
           /\ run[p] \in RunState
           /\ snapshot[p].before = Empty
           /\ pairing[p].status \notin Unarmed
    /\ snapshot[p].after # None => is_terminal_pairing(p)
    /\ pairing[p].status \in VERDICT_RUN_STATES /\ pairing[p].run # None =>
           snapshot[p].after # None

Counted(q) == req[q].answer \in {"captured", "replayed"}

\* A cart that was told to count is the one its trial keeps, until a purge.
Stands(q) ==
    /\ req[q].pc = "done"
    /\ req[q].pairing \in Pairings
    /\ req[q].op \in {"before", "verify"}
    /\ req[q].op = "before" =>
           /\ pairing[req[q].pairing].status \notin Unarmed
           /\ snapshot[req[q].pairing].before = req[q].cart \/ Gone(req[q].pairing)
    /\ req[q].op = "verify" =>
           /\ is_terminal_pairing(req[q].pairing)
           /\ snapshot[req[q].pairing].after = req[q].cart \/ Gone(req[q].pairing)

\* Only a final cart is on its way to a verdict.
OnlyFinal(q) == req[q].pc \in {"gate", "seal"} => req[q].op = "verify"

Evidence ==
    /\ \A q \in Requests : OnlyFinal(q)
    /\ \A p \in Pairings : Backed(p)
    /\ \A q \in Requests : Counted(q) => Stands(q)
    /\ OneMoment

\* A step that adds no evidence of a trial: its status moves on without a verdict, or
\* stays.
Untouched(p) ==
    /\ pairing'[p].run = pairing[p].run
    /\ snapshot'[p] = snapshot[p]
    /\ \/ pairing'[p].status = pairing[p].status
       \/ /\ Live(p) \/ pairing[p].status = "none"
          /\ pairing'[p].status \in PairingStatus \ VERDICT_RUN_STATES
          /\ pairing'[p].status \in Unarmed => pairing[p].status \in Unarmed
    /\ run[p] \in RunState => run'[p] \in RunState

\* A purge of a trial's run.
Purged(p) ==
    /\ pairing'[p].run = None
    /\ snapshot'[p] = NoSnapshots
    /\ pairing'[p].status = IF Live(p) THEN "cancelled" ELSE pairing[p].status

\* A request that is not told, in this step, that its cart counted.
Uncounted(q) ==
    \/ req'[q] = req[q]
    \/ ~ Counted(q)' /\ OnlyFinal(q)'

\* What was terminal stays so, and the evidence of a trial stays backed.
LEMMA BackedFrame ==
    ASSUME TypeOK, NEW p \in Pairings, Backed(p), Untouched(p) \/ Purged(p)
    PROVE  /\ Backed(p)'
           /\ is_terminal_pairing(p) => is_terminal_pairing(p)'
           /\ pairing[p].status \notin Unarmed => pairing'[p].status \notin Unarmed
           /\ Gone(p) => Gone(p)'
           /\ pairing[p].status \notin Unarmed => snapshot'[p] = snapshot[p] \/ Gone(p)'
<1>1. TERMINAL_PAIRING_STATUSES \cap Unarmed = {}
  BY PairingStatuses DEF Unarmed
<1>2. CASE Untouched(p)
  <2>1. is_terminal_pairing(p) => pairing'[p].status = pairing[p].status
    BY <1>1, <1>2 DEF Untouched, Live, is_terminal_pairing, Unarmed
  <2> QED BY <1>1, <1>2, <2>1 DEF Untouched, Backed, Gone, is_terminal_pairing
<1>3. CASE Purged(p)
  <2>1. pairing'[p].run = None /\ snapshot'[p].after = None
    BY <1>3 DEF Purged, NoSnapshots
  <2>2. pairing[p].status # "none" => is_terminal_pairing(p)'
    BY <1>3, PairingStatuses DEF Purged, Live, is_terminal_pairing
  <2>3. is_terminal_pairing(p) => pairing'[p].status = pairing[p].status
    BY <1>3 DEF Purged, Live
  <2> QED BY <1>1, <2>1, <2>2, <2>3 DEF Backed, Gone, is_terminal_pairing, Unarmed
<1> QED BY <1>2, <1>3

\* A cart that counted goes on standing while trials are left alone or purged.
LEMMA StandsFrame ==
    ASSUME TypeOK, Evidence, NEW q \in Requests, Counted(q), req'[q] = req[q],
           Untouched(req[q].pairing) \/ Purged(req[q].pairing)
    PROVE  Stands(q)'
<1> DEFINE p == req[q].pairing
<1>1. Stands(q) /\ p \in Pairings /\ Backed(p)
  BY DEF Evidence, Stands
<1>2. /\ is_terminal_pairing(p) => is_terminal_pairing(p)'
      /\ pairing[p].status \notin Unarmed => pairing'[p].status \notin Unarmed
      /\ Gone(p) => Gone(p)'
      /\ pairing[p].status \notin Unarmed => snapshot'[p] = snapshot[p] \/ Gone(p)'
  BY <1>1, BackedFrame
<1>3. is_terminal_pairing(p) => pairing[p].status \notin Unarmed
  BY PairingStatuses DEF is_terminal_pairing, Unarmed
<1> QED BY <1>1, <1>2, <1>3 DEF Stands

\* A step that tells nobody that a cart counted keeps the evidence.
LEMMA EvidenceFrame ==
    ASSUME TypeOK, Evidence,
           \A p \in Pairings : Untouched(p) \/ Purged(p),
           \A q \in Requests : Uncounted(q)
    PROVE  Evidence'
<1>1. \A q \in Requests : OnlyFinal(q)'
  BY DEF Evidence, Uncounted, OnlyFinal
<1>2. \A p \in Pairings : Backed(p)'
  BY BackedFrame DEF Evidence
<1>3. \A q \in Requests : Counted(q)' => Counted(q) /\ req'[q] = req[q]
  BY DEF Uncounted, Counted
<1>4. \A q \in Requests : Counted(q)' => Stands(q)'
  <2> TAKE q \in Requests
  <2> HAVE Counted(q)'
  <2>1. Counted(q) /\ req'[q] = req[q] /\ req[q].pairing \in Pairings
    BY <1>3 DEF Evidence, Stands
  <2> QED BY <2>1, StandsFrame
<1>5. OneMoment'
  BY <1>3 DEF Evidence, OneMoment, Counted
<1> QED BY <1>1, <1>2, <1>4, <1>5 DEF Evidence

\* A trial whose record, evidence and run are what they were.
LEMMA Same ==
    ASSUME NEW p \in Pairings, pairing'[p] = pairing[p], snapshot'[p] = snapshot[p],
           run[p] \in RunState => run'[p] \in RunState
    PROVE  Untouched(p)
BY DEF Untouched

\* A trial under way that takes another status short of a verdict, its run with it or not.
LEMMA Moved ==
    ASSUME TypeOK, NEW p \in Pairings, NEW s \in PairingStatus \ VERDICT_RUN_STATES,
           Live(p) \/ pairing[p].status = "none",
           s \in Unarmed => pairing[p].status \in Unarmed,
           \/ pairing'[p] = [pairing[p] EXCEPT !.status = s]
           \/ \E c : pairing'[p] = [pairing[p] EXCEPT !.status = s, !.session = c],
           snapshot'[p] = snapshot[p], run[p] \in RunState => run'[p] \in RunState
    PROVE  Untouched(p)
<1>1. pairing[p] \in Pairing
  BY DEF TypeOK
<1>2. pairing'[p].status = s /\ pairing'[p].run = pairing[p].run
  BY <1>1 DEF Pairing
<1> QED BY <1>2 DEF Untouched

\* A request that is under way was not told anything yet.
LEMMA NotYetCounted ==
    ASSUME Evidence, NEW q \in Requests, req[q].pc \in UnderWay
    PROVE  ~ Counted(q)
BY DEF Evidence, Stands, UnderWay

\* A request that is turned away is not told that its cart counted.
LEMMA TurnedAwayUncounted ==
    ASSUME NEW q \in Requests, req'[q] = TurnedAway
    PROVE  Uncounted(q)
BY DEF TurnedAway, NoRequest, Uncounted, Counted, OnlyFinal

\* A refusal leaves the evidence of every trial alone.
LEMMA RefusedKeepsEvidence ==
    ASSUME TypeOK, Evidence, NEW q \in Requests, Refused(q)
    PROVE  Evidence'
<1>1. \A p \in Pairings : Untouched(p)
  BY Same DEF Refused
<1>2. \A r \in Requests : Uncounted(r)
  <2>1. req'[q] = TurnedAway /\ \A r \in Requests \ {q} : req'[r] = req[r]
    BY DEF Refused, TypeOK
  <2> QED BY <2>1, TurnedAwayUncounted DEF Uncounted
<1> QED BY <1>1, <1>2, EvidenceFrame

\* A final cart on its way to its verdict has not been told that it counts.
LEMMA MovesOn ==
    ASSUME TypeOK, Evidence, NEW q \in Requests, req[q].pc \in UnderWay, req[q].op = "verify",
           NEW pc \in {"gate", "seal"}, req' = [req EXCEPT ![q].pc = pc]
    PROVE  \A r \in Requests : Uncounted(r)
<1>1. req[q] \in Request /\ ~ Counted(q)
  BY NotYetCounted DEF TypeOK
<1>2. /\ req'[q].op = "verify" /\ req'[q].answer = req[q].answer
      /\ \A r \in Requests \ {q} : req'[r] = req[r]
  BY <1>1 DEF TypeOK, Request
<1> QED BY <1>1, <1>2 DEF Uncounted, Counted, OnlyFinal

\* A request that is told its cart counted keeps what it presented.
LEMMA CountedNow ==
    ASSUME TypeOK, NEW q \in Requests, NEW answer, Answered(q, answer)
    PROVE  /\ req'[q].pc = "done" /\ req'[q].answer = answer
           /\ req'[q].op = req[q].op
           /\ req'[q].pairing = req[q].pairing
           /\ req'[q].cart = req[q].cart
           /\ \A r \in Requests \ {q} : req'[r] = req[r]
<1>1. req[q] \in Request
  BY DEF TypeOK
<1> QED BY <1>1 DEF Answered, TypeOK, Request

\* The carts that stand for one phase of a trial that is not gone are one cart.
LEMMA OneMomentKept ==
    ASSUME TypeOK, Evidence, NEW q \in Requests, NEW answer, Answered(q, answer),
           \A r \in Requests \ {q} :
               Counted(r) /\ req[r].pairing = req[q].pairing /\ req[r].op = req[q].op =>
                   req[r].cart = req[q].cart /\ answer = "replayed"
    PROVE  OneMoment'
<1>1. /\ req'[q].answer = answer
      /\ req'[q].op = req[q].op
      /\ req'[q].pairing = req[q].pairing
      /\ req'[q].cart = req[q].cart
      /\ \A r \in Requests \ {q} : req'[r] = req[r]
  BY CountedNow
<1> SUFFICES ASSUME NEW r \in Requests, NEW t \in Requests, r # t, Counted(r)', Counted(t)',
                    req'[r].pairing = req'[t].pairing, req'[r].op = req'[t].op
             PROVE  /\ req'[r].cart = req'[t].cart
                    /\ "replayed" \in {req'[r].answer, req'[t].answer}
  BY DEF OneMoment, Counted
<1>2. CASE r # q /\ t # q
  BY <1>1, <1>2 DEF Evidence, OneMoment, Counted
<1>3. CASE r = q
  BY <1>1, <1>3 DEF Counted
<1>4. CASE t = q
  BY <1>1, <1>4 DEF Counted
<1> QED BY <1>2, <1>3, <1>4

\* capture_before arms the trial: no request of its first phase counted before.
LEMMA WriteBeforeEvidence ==
    ASSUME TypeOK, FlightInv, Evidence, NEW q \in Requests, WriteBefore(q)
    PROVE  Evidence'
<1>0. PICK p \in Pairings : p = req[q].pairing
  BY DEF WriteBefore, FlightInv, UnderWay
<1>1. p \in RunIds /\ p # None /\ req[q].op = "before" /\ req[q].cart = Empty
      /\ pairing[p].status # "none" /\ require_transition(p, "armed")
  BY <1>0, PairingAssumption DEF WriteBefore, ArmsRun, FlightInv, UnderWay, RunIds
<1>2. pairing[p].status = "paired"
  BY <1>1, PermittedFrom
<1>3. /\ pairing' = [pairing EXCEPT ![p] = [pairing[p] EXCEPT !.status = "armed", !.run = p]]
      /\ run' = [run EXCEPT ![p] = "armed"]
      /\ snapshot' = [snapshot EXCEPT ![p].before = req[q].cart]
      /\ Answered(q, "captured")
  BY <1>0 DEF WriteBefore, create_run
<1>4. /\ pairing'[p].status = "armed" /\ pairing'[p].run = p
      /\ run'[p] = "armed"
      /\ snapshot'[p].before = req[q].cart /\ snapshot'[p].after = snapshot[p].after
  BY <1>1, <1>3 DEF TypeOK, Pairing, Snapshots
<1>5. \A x \in Pairings \ {p} : Untouched(x)
  BY <1>1, <1>3, Same DEF TypeOK, RunIds
<1>6. ~ is_terminal_pairing(p) /\ ~ is_terminal_pairing(p)'
  BY <1>2, <1>4, PairingStatuses DEF is_terminal_pairing
<1>7. Backed(p)'
  BY <1>1, <1>4, <1>6, RunStates DEF Evidence, Backed, Unarmed
<1>8. \A x \in Pairings : Backed(x)'
  BY <1>5, <1>7, BackedFrame DEF Evidence
<1>9. /\ req'[q].pc = "done" /\ req'[q].answer = "captured" /\ req'[q].op = "before"
      /\ req'[q].pairing = p /\ req'[q].cart = req[q].cart
      /\ \A r \in Requests \ {q} : req'[r] = req[r]
  BY <1>1, <1>3, <1>0, CountedNow
<1>10. \A r \in Requests : Counted(r) => req[r].pairing # p
  BY <1>2, <1>6 DEF Evidence, Stands, Unarmed
<1>11. Stands(q)'
  BY <1>1, <1>4, <1>9 DEF Stands, Unarmed
<1>12. \A r \in Requests \ {q} : Counted(r)' => Stands(r)'
  <2> TAKE r \in Requests \ {q}
  <2> HAVE Counted(r)'
  <2>1. Counted(r) /\ req'[r] = req[r] /\ req[r].pairing \in Pairings \ {p}
    BY <1>9, <1>10 DEF Counted, Evidence, Stands
  <2> QED BY <1>5, <2>1, StandsFrame
<1>13. OneMoment'
  BY <1>3, <1>10, <1>0, OneMomentKept
<1>14. \A r \in Requests : OnlyFinal(r)'
  BY <1>9 DEF Evidence, OnlyFinal
<1> QED BY <1>8, <1>11, <1>12, <1>13, <1>14 DEF Evidence

\* _seal and on_seal: the trial has its final cart, and no request of its second phase
\* counted before.
LEMMA SealEvidence ==
    ASSUME TypeOK, FlightInv, Evidence, NEW q \in Requests, Seal(q), ~ Refused(q)
    PROVE  Evidence'
<1>0. PICK p \in Pairings : p = req[q].pairing
  BY DEF Seal, FlightInv, UnderWay
<1>1. PICK result \in VERDICT_RUN_STATES :
          /\ run' = [run EXCEPT ![p] = result]
          /\ snapshot' = [snapshot EXCEPT ![p].after = req[q].cart]
          /\ pairing' = [pairing EXCEPT ![p].status = result]
          /\ Answered(q, "captured")
          /\ on_seal(p)
  BY <1>0 DEF Seal
<1>2. /\ p \in RunIds /\ req[q].cart \in Carts /\ req[q].cart # None
      /\ req[q].op = "verify" /\ pairing[p].status = "verifying"
  BY <1>0, <1>1, PairingAssumption DEF Seal, FlightInv, UnderWay, RunIds, Evidence, OnlyFinal, on_seal
<1>3. result \in PairingStatus /\ result \in TERMINAL_PAIRING_STATUSES /\ result \in RunState
  BY RunStates, PairingStatuses
<1>4. /\ pairing'[p].status = result /\ pairing'[p].run = pairing[p].run
      /\ run'[p] = result
      /\ snapshot'[p].after = req[q].cart /\ snapshot'[p].before = snapshot[p].before
  BY <1>1, <1>2 DEF TypeOK, Pairing, Snapshots
<1>5. \A x \in Pairings \ {p} : Untouched(x)
  BY <1>1, <1>2, Same DEF TypeOK, RunIds
<1>6. ~ is_terminal_pairing(p) /\ is_terminal_pairing(p)' /\ ~ Gone(p)
  BY <1>2, <1>3, <1>4, PairingStatuses DEF is_terminal_pairing, Gone
<1>7. TERMINAL_PAIRING_STATUSES \cap Unarmed = {}
  BY PairingStatuses DEF Unarmed
<1>8. Backed(p)'
  BY <1>2, <1>3, <1>4, <1>6, <1>7 DEF Evidence, Backed
<1>9. \A x \in Pairings : Backed(x)'
  BY <1>5, <1>8, BackedFrame DEF Evidence
<1>10. /\ req'[q].pc = "done" /\ req'[q].answer = "captured" /\ req'[q].op = "verify"
       /\ req'[q].pairing = p /\ req'[q].cart = req[q].cart
       /\ \A r \in Requests \ {q} : req'[r] = req[r]
  BY <1>1, <1>2, <1>0, CountedNow
<1>11. \A r \in Requests : Counted(r) => req[r].pairing # p \/ req[r].op = "before"
  BY <1>6 DEF Evidence, Stands
<1>12. Stands(q)'
  BY <1>2, <1>4, <1>6, <1>10 DEF Stands
<1>13. \A r \in Requests \ {q} : Counted(r)' => Stands(r)'
  <2> TAKE r \in Requests \ {q}
  <2> HAVE Counted(r)'
  <2>1. Counted(r) /\ Stands(r) /\ req'[r] = req[r]
    BY <1>10 DEF Counted, Evidence
  <2>2. CASE req[r].pairing # p
    BY <1>5, <2>1, <2>2, StandsFrame DEF Stands
  <2>3. CASE req[r].pairing = p
    BY <1>3, <1>4, <1>6, <1>7, <1>11, <2>1, <2>3 DEF Stands
  <2> QED BY <2>2, <2>3
<1>14. OneMoment'
  BY <1>1, <1>2, <1>11, <1>0, OneMomentKept
<1>15. \A r \in Requests : OnlyFinal(r)'
  BY <1>10 DEF Evidence, OnlyFinal
<1> QED BY <1>9, <1>12, <1>13, <1>14, <1>15 DEF Evidence

\* _replayed: a repeat is told it counted only where its cart is the one that is kept.
LEMMA ReplayEvidence ==
    ASSUME TypeOK, FlightInv, Evidence, NEW q \in Requests, Replay(q)
    PROVE  Evidence'
<1>0. PICK p \in Pairings : p = req[q].pairing
  BY DEF Replay, FlightInv, UnderWay
<1>1. /\ req[q].cart \in Carts /\ req[q].cart # None
      /\ Answered(q, "replayed") /\ UNCHANGED <<pairing, run, snapshot>>
  BY PairingAssumption DEF Replay, FlightInv, UnderWay
<1>2. pairing[p].run # None /\ ~ Gone(p) /\ Backed(p)
  BY <1>0, <1>1 DEF Replay, RepeatsBefore, RepeatsAfter, Gone, Evidence
<1>3. \/ req[q].op = "before" /\ snapshot[p].before = req[q].cart
      \/ req[q].op = "verify" /\ snapshot[p].after = req[q].cart
  BY <1>0 DEF Replay, RepeatsBefore, RepeatsAfter, replayed
<1>4. \A x \in Pairings : Untouched(x)
  BY <1>1, Same
<1>5. \A x \in Pairings : Backed(x)'
  BY <1>4, BackedFrame DEF Evidence
<1>6. /\ req'[q].pc = "done" /\ req'[q].answer = "replayed" /\ req'[q].op = req[q].op
      /\ req'[q].pairing = p /\ req'[q].cart = req[q].cart
      /\ \A r \in Requests \ {q} : req'[r] = req[r]
  BY <1>1, <1>0, CountedNow
<1>7. Stands(q)'
  BY <1>1, <1>2, <1>3, <1>6 DEF Stands, Backed, is_terminal_pairing
<1>8. \A r \in Requests \ {q} : Counted(r)' => Stands(r)'
  <2> TAKE r \in Requests \ {q}
  <2> HAVE Counted(r)'
  <2>1. Counted(r) /\ req'[r] = req[r] /\ req[r].pairing \in Pairings
    BY <1>6 DEF Counted, Evidence, Stands
  <2> QED BY <1>4, <2>1, StandsFrame
<1>9. \A r \in Requests \ {q} :
          Counted(r) /\ req[r].pairing = p /\ req[r].op = req[q].op => req[r].cart = req[q].cart
  BY <1>2, <1>3 DEF Evidence, Stands
<1>10. OneMoment'
  BY <1>1, <1>9, <1>0, OneMomentKept
<1>11. \A r \in Requests : OnlyFinal(r)'
  BY <1>6 DEF Evidence, OnlyFinal
<1> QED BY <1>5, <1>7, <1>8, <1>10, <1>11 DEF Evidence

\* A reset cancels what is live, and a purge takes the run and its evidence with it.
LEMMA ResetTouches ==
    ASSUME TypeOK, NEW purge \in BOOLEAN, Reset(purge), NEW p \in Pairings
    PROVE  Untouched(p) \/ Purged(p)
<1> DEFINE closed == cancel_live_shopify_pairing(p)
<1>1. pairing[p] \in Pairing
  BY DEF TypeOK
<1>2. /\ closed \in Pairing /\ closed.run = pairing[p].run
      /\ closed.status = IF Live(p) THEN "cancelled" ELSE pairing[p].status
  <2>1. CASE Live(p)
    <3>1. closed = [pairing[p] EXCEPT !.status = "cancelled", !.session = None]
      BY <2>1 DEF cancel_live_shopify_pairing
    <3> QED BY <1>1, <2>1, <3>1, PairingStatuses DEF Pairing
  <2>2. CASE ~ Live(p)
    BY <1>1, <2>2 DEF cancel_live_shopify_pairing
  <2> QED BY <2>1, <2>2
<1> HIDE DEF closed
<1>3. CASE purge
  <2>1. pairing'[p] = [closed EXCEPT !.run = None]
    BY <1>3 DEF Reset, deleted_run, closed
  <2>2. pairing'[p].run = None /\ pairing'[p].status = closed.status
    BY <1>2, <2>1 DEF Pairing
  <2>3. snapshot'[p] = NoSnapshots
    BY <1>3 DEF Reset
  <2> QED BY <1>2, <2>2, <2>3 DEF Purged
<1>4. CASE ~ purge
  <2>1. pairing'[p] = closed /\ snapshot'[p] = snapshot[p]
    BY <1>4 DEF Reset, closed
  <2>2. run[p] \in RunState => run'[p] \in RunState
    BY <1>4, RunStates DEF Reset, RunIds
  <2> QED BY <1>2, <2>1, <2>2, PairingStatuses, RunStates DEF Untouched, Unarmed
<1> QED BY <1>3, <1>4

\* No step parts a trial from its evidence, or counts a second cart for one phase.
LEMMA EvidenceStep ==
    ASSUME TypeOK, FlightInv, Evidence, [Next]_vars
    PROVE  Evidence'
<1>1. ASSUME NEW p \in Pairings, create(p) \/ Lapse(p) PROVE Evidence'
  <2>1. \A x \in Pairings \ {p} : Untouched(x)
    BY <1>1, Same DEF create, Lapse, TypeOK
  <2>2. CASE create(p)
    <3>1. pairing'[p] = [pairing[p] EXCEPT !.status = "created"]
      BY <2>2 DEF create, TypeOK
    <3> QED BY <2>1, <2>2, <3>1, Moved, PairingStatuses, RunStates, EvidenceFrame
            DEF create, Unarmed, Uncounted
  <2>3. CASE Lapse(p)
    <3>1. pairing'[p].run = pairing[p].run /\ pairing'[p].status = pairing[p].status
      BY <2>3 DEF Lapse, TypeOK, Pairing
    <3>2. Untouched(p)
      BY <2>3, <3>1 DEF Lapse, Untouched
    <3> QED BY <2>1, <2>3, <3>2, EvidenceFrame DEF Lapse, Uncounted
  <2> QED BY <1>1, <2>2, <2>3
<1>2. ASSUME NEW p \in Pairings, OperatorGate(p) \/ OperatorAbandon(p) PROVE Evidence'
  <2>1. \A x \in Pairings : run[x] \in RunState => run'[x] \in RunState
    BY <1>2, RunStates DEF OperatorGate, OperatorAbandon, TypeOK, RunIds
  <2>2. UNCHANGED <<pairing, snapshot, req>>
    BY <1>2 DEF OperatorGate, OperatorAbandon
  <2> QED BY <2>1, <2>2, Same, EvidenceFrame DEF Uncounted
<1>3. ASSUME NEW q \in Requests, NEW p \in Pairings, redeem(q, p) PROVE Evidence'
  <2>1. UNCHANGED <<run, snapshot>> /\ \A r \in Requests \ {q} : req'[r] = req[r]
    BY <1>3 DEF redeem, TypeOK
  <2>2. \A x \in Pairings \ {p} : Untouched(x)
    BY <1>3, Same DEF redeem, TypeOK
  <2>3. CASE redeemable(p)
    <3>1. pairing'[p] = [pairing[p] EXCEPT !.status = "paired", !.session = q]
      BY <1>3, <2>3 DEF redeem, TypeOK
    <3>2. pairing[p].status = "created" /\ Live(p)
      BY <2>3, PairingStatuses DEF redeemable, Live, is_terminal_pairing
    <3>3. Untouched(p)
      BY <2>1, <3>1, <3>2, Moved, PairingStatuses, RunStates DEF Unarmed
    <3>4. req'[q].pc = "done" /\ req'[q].answer = "paired"
      BY <1>3, <2>3 DEF redeem, NoRequest, TypeOK
    <3>5. \A r \in Requests : Uncounted(r)
      BY <2>1, <3>4 DEF Uncounted, Counted, OnlyFinal
    <3> QED BY <2>2, <3>3, <3>5, EvidenceFrame
  <2>4. CASE ~ redeemable(p)
    <3>1. pairing' = pairing /\ req'[q] = TurnedAway
      BY <1>3, <2>4 DEF redeem, TypeOK
    <3> QED BY <2>1, <3>1, Same, TurnedAwayUncounted, EvidenceFrame DEF Uncounted
  <2> QED BY <2>3, <2>4
<1>4. ASSUME NEW q \in Requests, NEW op, NEW p \in Pairings, NEW s, NEW cart,
             BridgeRead(q, op, p, s, cart)
      PROVE  Evidence'
  <2>1. UNCHANGED <<run, snapshot>> /\ \A r \in Requests \ {q} : req'[r] = req[r]
    BY <1>4 DEF BridgeRead, TypeOK
  <2>2. Uncounted(q)
    <3>1. req'[q] = TurnedAway \/ (req'[q].pc = "write" /\ req'[q].answer = "none")
      BY <1>4 DEF BridgeRead, TypeOK
    <3> QED BY <3>1, TurnedAwayUncounted DEF Uncounted, Counted, OnlyFinal
  <2>3. \A x \in Pairings \ {p} : Untouched(x)
    BY <1>4, Same DEF BridgeRead, TypeOK
  <2>4. Untouched(p)
    <3>1. pairing'[p] = pairing[p] \/
            (pairing'[p] = [pairing[p] EXCEPT !.status = "expired"] /\ ~ is_terminal_pairing(p))
      BY <1>4 DEF BridgeRead, Expire, TypeOK
    <3>2. pairing[p].status # "none"
      BY <1>4 DEF BridgeRead
    <3> QED BY <2>1, <3>1, <3>2, Same, Moved, PairingStatuses, RunStates DEF Live, Unarmed
  <2> QED BY <2>1, <2>2, <2>3, <2>4, EvidenceFrame DEF Uncounted
<1>5. ASSUME NEW q \in Requests, WriteVerify(q) PROVE Evidence'
  <2>1. PICK p \in Pairings : p = req[q].pairing /\ pairing[p].status # "none"
    BY <1>5 DEF WriteVerify, FlightInv, UnderWay
  <2>2. /\ pairing' = [pairing EXCEPT ![p].status = "verifying"]
        /\ run' = [run EXCEPT ![p] = "running"]
        /\ req' = [req EXCEPT ![q].pc = "gate"]
        /\ UNCHANGED snapshot
        /\ req[q].pc \in UnderWay /\ req[q].op = "verify" /\ require_transition(p, "verifying")
    BY <1>5, <2>1 DEF WriteVerify, accept_external_observation, AcceptsAfter, UnderWay
  <2>3. pairing[p].status = "armed" /\ Live(p)
    BY <2>1, <2>2, PermittedFrom, PairingStatuses DEF Live, is_terminal_pairing
  <2>4. pairing'[p] = [pairing[p] EXCEPT !.status = "verifying"]
    BY <2>2 DEF TypeOK
  <2>5. \A x \in Pairings : run[x] \in RunState => run'[x] \in RunState
    BY <2>2, RunStates DEF TypeOK, RunIds
  <2>6. Untouched(p)
    BY <2>2, <2>3, <2>4, <2>5, Moved, PairingStatuses, RunStates DEF Unarmed
  <2>7. \A x \in Pairings \ {p} : Untouched(x)
    BY <2>2, <2>5, Same DEF TypeOK
  <2>8. \A r \in Requests : Uncounted(r)
    BY <2>2, MovesOn
  <2> QED BY <2>6, <2>7, <2>8, EvidenceFrame
<1>6. ASSUME NEW q \in Requests, Gate(q) PROVE Evidence'
  <2>1. CASE run[req[q].pairing] = "running"
    <3>1. /\ run' = [run EXCEPT ![req[q].pairing] = "verifying"]
          /\ req' = [req EXCEPT ![q].pc = "seal"]
          /\ UNCHANGED <<pairing, snapshot>>
          /\ req[q].pc \in UnderWay /\ req[q].op = "verify"
      BY <1>6, <2>1 DEF Gate, UnderWay, Evidence, OnlyFinal
    <3>2. \A x \in Pairings : run[x] \in RunState => run'[x] \in RunState
      BY <3>1, RunStates DEF TypeOK, RunIds
    <3>3. \A r \in Requests : Uncounted(r)
      BY <3>1, MovesOn
    <3> QED BY <3>1, <3>2, <3>3, Same, EvidenceFrame
  <2>2. CASE run[req[q].pairing] # "running"
    BY <1>6, <2>2, RefusedKeepsEvidence DEF Gate
  <2> QED BY <2>1, <2>2
<1>7. ASSUME NEW q \in Requests, Bridge(q) PROVE Evidence'
  <2>1. CASE WriteRefused(q)
    BY <2>1, RefusedKeepsEvidence DEF WriteRefused
  <2>2. CASE Seal(q)
    BY <2>2, SealEvidence, RefusedKeepsEvidence
  <2> QED BY <1>3, <1>4, <1>5, <1>6, <1>7, <2>1, <2>2, WriteBeforeEvidence, ReplayEvidence DEF Bridge
<1>8. ASSUME NEW r \in Ordinary, OrdinaryArm(r) \/ OrdinaryEnds(r) PROVE Evidence'
  <2>1. \A p \in Pairings : run'[p] = run[p]
    BY <1>8, PairingAssumption DEF OrdinaryArm, OrdinaryEnds, TypeOK, RunIds
  <2> QED BY <1>8, <2>1, Same, EvidenceFrame DEF OrdinaryArm, OrdinaryEnds, Uncounted
<1>9. ASSUME NEW purge \in BOOLEAN, Reset(purge) PROVE Evidence'
  BY <1>9, ResetTouches, EvidenceFrame DEF Reset, Uncounted
<1>10. CASE Crash
  <2>1. \A q \in Requests : req'[q] = req[q] \/ req'[q] = TurnedAway
    BY <1>10 DEF Crash
  <2> QED BY <1>10, <2>1, Same, TurnedAwayUncounted, EvidenceFrame DEF Crash, Uncounted
<1>11. CASE UNCHANGED vars
  BY <1>11, Same, EvidenceFrame DEF vars, Uncounted
<1> QED BY <1>1, <1>2, <1>7, <1>8, <1>9, <1>10, <1>11 DEF Next

\* At the beginning there is no evidence, and none is claimed.
LEMMA EvidenceStarts == Init => Evidence
<1> SUFFICES ASSUME Init PROVE Evidence
  OBVIOUS
<1>1. \A q \in Requests : req[q].pc = "idle" /\ req[q].answer = "none"
  BY DEF Init, NoRequest
<1>2. \A p \in Pairings : Backed(p)
  BY RunStates DEF Init, Backed, NoPairing, NoSnapshots
<1> QED BY <1>1, <1>2 DEF Evidence, OnlyFinal, Counted, OneMoment

\* The evidence of every trial holds together in every behaviour.
LEMMA EvidenceAlways == Spec => []Evidence
<1>1. TypeOK /\ FlightInv /\ Safe /\ Evidence /\ [Next]_vars => Evidence'
  BY EvidenceStep
<1> QED BY <1>1, EvidenceStarts, AlwaysSafe, PTL DEF Spec

\* _replayed: the carts that were told to count for one phase of one trial are one cart,
\* and one request at most captured it, however many tabs and retries there are.
THEOREM TrialsObserveOneMoment == Spec => []OneMoment
<1>1. Evidence => OneMoment
  BY DEF Evidence
<1> QED BY <1>1, EvidenceAlways, PTL

\* status_document: a trial that names a run names one that is there with its first
\* cart, and offers a report only where that run has that verdict on two carts.
THEOREM StatusesAreBacked == Spec => []StatusBacked
<1>1. TypeOK /\ Safe /\ Evidence => StatusBacked
  <2> SUFFICES ASSUME TypeOK, Safe, Evidence, NEW p \in Pairings
               PROVE  /\ status_readable(p)
                      /\ pairing[p].run # None => snapshot[p].before = Empty
                      /\ report_offered(p) => run[p] = reported(p) /\ snapshot[p].after # None
    BY DEF StatusBacked, Safe
  <2>1. Backed(p)
    BY DEF Evidence
  <2>2. report_offered(p) => /\ reported(p) = pairing[p].status
                             /\ pairing[p].status \in VERDICT_RUN_STATES
                             /\ pairing[p].run # None
    BY RunStates DEF report_offered, reported
  <2>3. pairing[p].status \in VERDICT_RUN_STATES => run[p] \in {pairing[p].status, "purged"}
    BY DEF Safe, VerdictsAgree
  <2> QED BY <2>1, <2>2, <2>3, RunStates DEF Backed, status_readable
<1> QED BY <1>1, AlwaysSafe, EvidenceAlways, PTL

----------------------------------------------------------------------------
\* What the exact-cart contract says of the body that was read

\* The count of a body is of units, and no line holds none.
CountsUnits ==
    \A d \in Documents :
        d.items # Absent /\ d.item_count \in Int => d.item_count >= Len(d.items)

\* The page fact changes nothing else of a body.
LEMMA ObservationOf ==
    ASSUME NEW d \in Documents
    PROVE  LET e == cartObservation(d)
           IN /\ e.capture_path = d.capture_path /\ e.items = d.items
              /\ e.item_count = d.item_count /\ e.subtotal = d.subtotal
              /\ e.discount = d.discount /\ e.total = d.total /\ e.currency = d.currency
              /\ e.page = [checkout |-> "stayed", store_origin |-> Absent]
              /\ d.items \in {Absent} \cup Seq(Line)
              /\ {d.item_count, d.subtotal, d.discount, d.total} \subseteq Amount
<1>1. d \in Document
  BY TabAssumption
<1> QED BY <1>1 DEF cartObservation, Document

\* A passed contract: the cart's one line is one unit of the variant.
LEMMA PassedTerms ==
    ASSUME NEW c, verdict(c) = "passed"
    PROVE  /\ Cardinality(DOMAIN c.items) = 1 /\ TestVariant \in DOMAIN c.items
           /\ c.items[TestVariant].quantity = 1 /\ c.item_count = 1
           /\ c.totals_consistent /\ c.currency = ExpectedCurrency
<1>1. Unmet(c) = {}
  BY DEF verdict
<1>2. /\ \A t \in DOMAIN EXACT_CART(c) : EXACT_CART(c)[t]
      /\ \A t \in DOMAIN expand(c) : expand(c)[t]
  BY <1>1 DEF Unmet
<1>3. /\ EXACT_CART(c).exactly_one_cart_line /\ EXACT_CART(c).test_variant_quantity_is_one
      /\ EXACT_CART(c).cart_holds_one_item /\ EXACT_CART(c).totals_are_internally_consistent
  BY <1>2 DEF EXACT_CART
<1>4. expand(c).the_configured_test_variant /\ expand(c).the_expected_currency
  BY <1>2 DEF expand
<1> QED BY <1>3, <1>4 DEF EXACT_CART, expand

\* The sum over a cart of one line is that line.
LEMMA OneLineSum ==
    ASSUME NEW items, NEW v, DOMAIN items = {v}, items[v].line_total \in Int
    PROVE  MapThenSumSet(LAMBDA x : items[x].line_total, DOMAIN items) = items[v].line_total
<1> DEFINE w == [x \in {v} |-> items[x].line_total]
           Sums(g) == g = [s \in SUBSET {v} |->
                             IF s = {} THEN 0 ELSE items[Pick(s)].line_total + g[s \ {Pick(s)}]]
<1>1. MapThenSumSet(LAMBDA x : items[x].line_total, DOMAIN items) = (CHOOSE g : Sums(g))[{v}]
  BY DEF MapThenSumSet, MapThenFoldSet, Pick
<1>2. \E g : Sums(g)
  <2> DEFINE h == [s \in SUBSET {v} |-> IF s = {} THEN 0 ELSE items[v].line_total]
  <2>1. ASSUME NEW s \in SUBSET {v}, s # {}
        PROVE  Pick(s) = v /\ s \ {Pick(s)} = {}
    BY <2>1, PickIn
  <2>2. ASSUME NEW s \in SUBSET {v}
        PROVE  h[s] = IF s = {} THEN 0 ELSE items[Pick(s)].line_total + h[s \ {Pick(s)}]
    <3>1. h[{}] = 0 /\ (s # {} => h[s] = items[v].line_total)
      OBVIOUS
    <3> HIDE DEF h
    <3>2. CASE s = {}
      BY <3>1, <3>2
    <3>3. CASE s # {}
      <4>1. Pick(s) = v /\ h[s \ {Pick(s)}] = 0 /\ h[s] = items[v].line_total
        BY <2>1, <3>1, <3>3
      <4> QED BY <3>3, <4>1
    <3> QED BY <3>2, <3>3
  <2>3. Sums(h)
    BY <2>2
  <2> QED BY <2>3
<1>3. Sums(CHOOSE g : Sums(g))
  <2> HIDE DEF Sums
  <2> QED BY <1>2
<1>4. PICK g : g = (CHOOSE f : Sums(f)) /\ Sums(g)
  BY <1>3
<1>5. g[{}] = 0
  BY <1>4
<1>6. g[{v}] = items[v].line_total + g[{}]
  <2>1. Pick({v}) = v /\ {v} \ {v} = {}
    BY PickIn
  <2>2. g[{v}] = items[Pick({v})].line_total + g[{v} \ {Pick({v})}]
    BY <1>4
  <2> QED BY <2>1, <2>2
<1> QED BY <1>1, <1>4, <1>5, <1>6

\* The normaliser keys the lines by variant, so that a cart of one key may be of two
\* lines; that there is one unit in the cart excludes it.
LEMMA ExactCart ==
    ASSUME CountsUnits, NEW d \in Documents, NEW c, c = observe(cartObservation(d)), c # None,
           verdict(c) = "passed"
    PROVE  HoldsExactlyTheVariant(d)
<1> DEFINE e == cartObservation(d)
           variants == {d.items[i].variant : i \in DOMAIN d.items}
<1>1. usable(e) /\ c = project_cart(e)
  BY DEF observe
<1>2. /\ e.items = d.items /\ e.item_count = d.item_count /\ e.subtotal = d.subtotal
      /\ e.discount = d.discount /\ e.total = d.total /\ e.currency = d.currency
      /\ {d.item_count, d.subtotal, d.discount, d.total} \subseteq Amount
      /\ d.items \in {Absent} \cup Seq(Line)
  BY ObservationOf
<1>3. /\ d.items \in Seq(Line) /\ d.items # Absent /\ d.item_count \in Int
      /\ \A i \in DOMAIN d.items : line_usable(d.items[i])
      /\ get(d.total, 0) \in Int /\ get(d.discount, 0) \in Int
  <2>1. /\ session_read(e) /\ usable_count(e.item_count)
        /\ \A i \in DOMAIN e.items : line_usable(e.items[i])
        /\ usable_amount(get(e.total, 0)) /\ usable_amount(get(e.discount, 0))
    BY <1>1 DEF usable
  <2> HIDE DEF e
  <2>2. d.items # Absent
    BY <1>2, <2>1 DEF session_read
  <2>3. d.item_count \in Int
    BY <1>2, <2>1 DEF usable_count, Amount
  <2>4. get(d.total, 0) \in Int /\ get(d.discount, 0) \in Int
    BY <1>2, <2>1 DEF usable_amount, get, Amount
  <2> QED BY <1>2, <2>1, <2>2, <2>3, <2>4
<1>4. /\ DOMAIN c.items = variants
      /\ c.item_count = d.item_count /\ c.currency = Upper[d.currency]
      /\ c.totals_consistent = totals_agree(c.items, get(d.subtotal, get(d.total, 0)),
                                            get(d.discount, 0), get(d.total, 0))
  <2> DEFINE n == normalize_cart(e)
  <2>1. /\ c.items = n.items /\ c.item_count = n.item_count /\ c.currency = n.currency
        /\ c.totals_consistent = totals_agree(n.items, n.subtotal, get(e.discount, 0), n.total)
    <3> HIDE DEF e, n
    <3> QED BY <1>1 DEF project_cart, n
  <2>2. /\ DOMAIN n.items = {e.items[i].variant : i \in DOMAIN e.items}
        /\ n.item_count = e.item_count /\ n.currency = Upper[e.currency]
        /\ n.subtotal = get(e.subtotal, get(e.total, 0)) /\ n.total = get(e.total, 0)
    <3> HIDE DEF e
    <3> QED BY DEF normalize_cart
  <2> HIDE DEF e, n
  <2> QED BY <1>2, <2>1, <2>2
<1>5. Len(d.items) = 1 /\ d.items[1].variant = TestVariant
  <2>1. d.item_count = 1 /\ TestVariant \in variants
    BY <1>4, PassedTerms
  <2>2. Len(d.items) \in Nat /\ Len(d.items) <= 1 /\ DOMAIN d.items = 1..Len(d.items)
    BY <1>3, <2>1 DEF CountsUnits
  <2>3. PICK i \in 1..Len(d.items) : d.items[i].variant = TestVariant
    BY <2>1, <2>2
  <2> DEFINE n == Len(d.items)
  <2>4. n \in Nat /\ n <= 1 /\ i \in 1..n
    BY <2>2
  <2> HIDE DEF n
  <2>5. n = 1 /\ i = 1
    BY <2>4
  <2> QED BY <2>3, <2>5 DEF n
<1> DEFINE line == d.items[1]
<1>6. c.items[TestVariant] = [quantity |-> line.quantity, unit_price |-> line.price,
                              line_total |-> get(line.line_price, line.price)]
  <2> DEFINE last(v) == CHOOSE i \in DOMAIN e.items :
                           /\ e.items[i].variant = v
                           /\ \A j \in DOMAIN e.items : e.items[j].variant = v => j <= i
  <2>1. DOMAIN d.items = {1}
    BY <1>3, <1>5
  <2>2. last(TestVariant) = 1
    BY <1>2, <1>5, <2>1
  <2>3. TestVariant \in {e.items[i].variant : i \in DOMAIN e.items}
    BY <1>2, <1>5, <2>1
  <2>4. c.items[TestVariant] =
          LET l == e.items[last(TestVariant)] IN
          [quantity |-> l.quantity, unit_price |-> l.price,
           line_total |-> get(l.line_price, l.price)]
    <3>1. c.items = normalize_cart(e).items
      <4> HIDE DEF e
      <4> QED BY <1>1 DEF project_cart
    <3> HIDE DEF e
    <3>2. normalize_cart(e).items =
            [v \in {e.items[i].variant : i \in DOMAIN e.items} |->
               LET l == e.items[last(v)] IN
               [quantity |-> l.quantity, unit_price |-> l.price,
                line_total |-> get(l.line_price, l.price)]]
      BY DEF normalize_cart
    <3> HIDE DEF last
    <3> QED BY <2>3, <3>1, <3>2
  <2> QED BY <1>2, <2>2, <2>4
<1>7. line.quantity = 1
  BY <1>6, PassedTerms
<1>8. line.price \in Int /\ get(line.line_price, line.price) \in Int
  <2>1. line \in Line /\ line_usable(line)
    BY <1>3, <1>5
  <2> QED BY <2>1 DEF line_usable, usable_amount, get, Line, Amount
<1>9. get(d.total, 0) + get(d.discount, 0) = line.price
  <2> DEFINE subtotal == get(d.subtotal, get(d.total, 0))
             lines == c.items
             total == get(d.total, 0)
             discount == get(d.discount, 0)
             paid == get(line.line_price, line.price)
  <2>1. DOMAIN lines = {TestVariant}
    BY <1>3, <1>4, <1>5
  <2>2. /\ lines[TestVariant].line_total = paid /\ lines[TestVariant].unit_price = line.price
        /\ lines[TestVariant].quantity = 1
    BY <1>6, <1>7
  <2>3. totals_agree(lines, subtotal, discount, total)
    BY <1>4, PassedTerms
  <2>4. paid \in Int /\ line.price \in Int /\ total \in Int /\ discount \in Int
    BY <1>3, <1>8
  <2> HIDE DEF lines, subtotal, total, discount, paid
  <2>5. /\ paid = line.price * 1
        /\ MapThenSumSet(LAMBDA v : lines[v].line_total, DOMAIN lines) = subtotal
        /\ subtotal - discount = total
    BY <2>1, <2>2, <2>3 DEF totals_agree
  <2>6. MapThenSumSet(LAMBDA v : lines[v].line_total, DOMAIN lines) = paid
    BY <2>1, <2>2, <2>4, OneLineSum
  <2>7. total + discount = line.price
    BY <2>4, <2>5, <2>6
  <2> QED BY <2>7 DEF total, discount
<1>10. Upper[d.currency] = ExpectedCurrency
  BY <1>4, PassedTerms
<1> QED BY <1>5, <1>7, <1>9, <1>10 DEF HoldsExactlyTheVariant

----------------------------------------------------------------------------
\* The storefront tabs

\* The session that redeemed the launch link is the tab's own.
Holder(t, p) == <<p, <<t, "redeem">>>> \in minted

CallRecord == [at : {"off", "read", "got", "post", "over"}, doc : Documents \cup {None}]

\* A tab that opened a link: its credential is its own, and a verdict it shows is
\* the one of the trial whose session it holds.
Fit(t, b) ==
    /\ b \in Tab /\ b.at # "off" /\ b.pairing \in Pairings
    /\ b.session # None => b.session = <<t, "redeem">> /\ Holder(t, b.pairing)
    /\ b.at = "got" => b.doc \in Documents
    /\ b.state \in VERDICT_RUN_STATES =>
           Holder(t, b.pairing) /\ pairing[b.pairing].status = b.state

Unopened(t) ==
    /\ tab[t].at = "off" /\ tab[t].state = "idle" /\ tab[t].pairing = None
    /\ tab[t].session = None /\ ~ tab[t].timer /\ ~ tab[t].offered
    /\ \A c \in Calls : call[<<t, c>>].at = "off"

InTab(t) == Unopened(t) \/ Fit(t, tab[t])

\* A call keeps the cart it read.
InCall(i) ==
    /\ call[i].at \in {"off", "read"} => call[i].doc = None
    /\ call[i].at = "got" => call[i].doc \in Documents

\* What a tab posts is about its own trial, and what a call posts is what it read.
Posted(q) ==
    mail[q] # None =>
        /\ mail[q] \in Message /\ mail[q].pairing = tab[q[1]].pairing
        /\ mail[q].session # None =>
               mail[q].session = <<q[1], "redeem">> /\ Holder(q[1], mail[q].pairing)
        /\ q[2] = "before" => mail[q].doc \in {cartObservation(d) : d \in Documents}
        /\ q[2] \in Calls =>
               call[q].doc \in Documents /\ mail[q].doc = cartObservation(call[q].doc)

\* A request that the harness took up, in one step or in several, is by a session
\* of the tab that sent it, and for what it sent.
Told(q) ==
    /\ req[q].pc = "idle" => req[q].pairing = None
    /\ req[q].pc = "done" /\ req[q].answer # "refused" => req[q].pairing # None
    /\ req[q].pairing # None =>
        /\ req[q].pairing = tab[q[1]].pairing /\ Holder(q[1], req[q].pairing)
        /\ q[2] = "redeem" => req[q].op = "redeem"
        /\ q[2] = "before" => req[q].op = "before"
        /\ q[2] \in Calls => /\ req[q].op = "verify" /\ call[q].doc \in Documents
                             /\ req[q].cart = observe(cartObservation(call[q].doc))

\* An answer is a status that the trial had; a verdict among them is there for good.
Replied(q) ==
    Accepted(q) =>
        /\ reply[q] \in PairingStatus
        /\ reply[q] \in VERDICT_RUN_STATES => pairing[req[q].pairing].status = reply[q]

\* A trial that was armed was armed on an empty cart, by the tab that holds its
\* session; one that passed did so on a cart of which a call of that tab read the body.
ArmedOn == {"armed", "verifying", "passed", "passed_with_warnings", "failed"}

ArmedBy(t, p) ==
    Holder(t, p) /\ req[<<t, "before">>].pc = "done" /\ req[<<t, "before">>].cart = Empty

PassedBy(i, p) ==
    /\ Holder(i[1], p) /\ call[i].doc \in Documents
    /\ CountsUnits => HoldsExactlyTheVariant(call[i].doc)

Grounded(p) ==
    /\ pairing[p].status \in ArmedOn => \E t \in Tabs : ArmedBy(t, p)
    /\ pairing[p].status = "passed" => \E i \in Tabs \X Calls : PassedBy(i, p)

TabInv ==
    /\ tab \in [Tabs -> Tab] /\ call \in [Tabs \X Calls -> CallRecord]
    /\ DOMAIN mail = Requests /\ mail = [q \in Requests |-> mail[q]]
    /\ \A t \in Tabs : InTab(t)
    /\ \A i \in Tabs \X Calls : InCall(i)
    /\ \A q \in Requests : Posted(q)
    /\ \A q \in Requests : Told(q)
    /\ \A q \in Requests : Replied(q)
    /\ \A p \in Pairings : Grounded(p)

\* The requests are the tabs' own.
LEMMA RequestsAre ==
    /\ \A q \in Requests : q[1] \in Tabs /\ q = <<q[1], q[2]>>
                           /\ q[2] \in {"redeem", "before"} \cup Calls
                           /\ (q[2] \in Calls => q \in Tabs \X Calls)
    /\ \A t \in Tabs : <<t, "redeem">> \in Requests /\ <<t, "before">> \in Requests
    /\ \A i \in Tabs \X Calls : i \in Requests /\ i[1] \in Tabs /\ i[2] \in Calls
    /\ "redeem" \notin Calls /\ "before" \notin Calls
    /\ None \notin Requests /\ None \notin Pairings /\ None \notin Documents /\ None \notin Carts
<1>1. Requests = Tabs \X ({"redeem", "before"} \cup Calls) /\ {"redeem", "before"} \cap Calls = {}
  BY TabAssumption
<1>2. ASSUME NEW q \in Requests
      PROVE  /\ q[1] \in Tabs /\ q = <<q[1], q[2]>> /\ q[2] \in {"redeem", "before"} \cup Calls
             /\ q[2] \in Calls => q \in Tabs \X Calls
  BY <1>1
<1>3. \A t \in Tabs : <<t, "redeem">> \in Requests /\ <<t, "before">> \in Requests
  BY <1>1
<1>4. ASSUME NEW i \in Tabs \X Calls PROVE i \in Requests /\ i[1] \in Tabs /\ i[2] \in Calls
  BY <1>1
<1>5. None \notin Requests /\ None \notin Pairings /\ None \notin Documents /\ None \notin Carts
  BY TabAssumption, PairingAssumption
<1> QED BY <1>1, <1>2, <1>3, <1>4, <1>5

\* Of one trial one tab holds the session.
LEMMA OneHolder ==
    ASSUME OneSession, NEW p, NEW t, NEW u, Holder(t, p), Holder(u, p)
    PROVE  t = u
<1>1. <<p, <<t, "redeem">>>> = <<p, <<u, "redeem">>>>
  <2>1. <<p, <<t, "redeem">>>>[1] = <<p, <<u, "redeem">>>>[1]
    OBVIOUS
  <2> QED BY <2>1 DEF OneSession, Holder
<1>2. <<p, <<t, "redeem">>>>[2] = <<p, <<u, "redeem">>>>[2]
  BY <1>1
<1>3. <<t, "redeem">>[1] = <<u, "redeem">>[1]
  BY <1>2
<1> QED BY <1>3

\* What a tab shows is true where these facts hold.
LEMMA ShownFrom ==
    ASSUME CountsUnits, OneSession, TabInv
    PROVE  ShownIsTrue
<1> USE RequestsAre
<1>1. ASSUME NEW t \in Tabs, tab[t].state \in VERDICT_RUN_STATES
      PROVE  /\ tab[t].pairing \in Pairings /\ Holder(t, tab[t].pairing)
             /\ pairing[tab[t].pairing].status = tab[t].state
  <2>1. InTab(t)
    BY DEF TabInv
  <2>2. ~ Unopened(t)
    BY <1>1, RunStates DEF Unopened
  <2> QED BY <1>1, <2>1, <2>2 DEF InTab, Fit
<1>2. ASSUME NEW t \in Tabs, tab[t].state = "passed"
      PROVE  /\ req[<<t, "before">>].cart = Empty
             /\ \E c \in Calls : /\ call[<<t, c>>].doc # None
                                 /\ HoldsExactlyTheVariant(call[<<t, c>>].doc)
  <2> DEFINE p == tab[t].pairing
  <2>1. p \in Pairings /\ Holder(t, p) /\ pairing[p].status = "passed"
    BY <1>1, <1>2, RunStates
  <2>2. Grounded(p)
    BY <2>1 DEF TabInv
  <2>3. PICK u \in Tabs : ArmedBy(u, p)
    BY <2>1, <2>2 DEF Grounded, ArmedOn
  <2>4. PICK i \in Tabs \X Calls : PassedBy(i, p)
    BY <2>1, <2>2 DEF Grounded
  <2>5. u = t /\ i[1] = t
    BY <2>1, <2>3, <2>4, OneHolder DEF ArmedBy, PassedBy
  <2>6. i = <<t, i[2]>> /\ i[2] \in Calls
    BY <2>5
  <2> QED BY <2>3, <2>4, <2>5, <2>6 DEF ArmedBy, PassedBy
<1> QED BY <1>1, <1>2 DEF ShownIsTrue, ShownIsSealed, PassIsExact

----------------------------------------------------------------------------
\* A step of a tab

\* moveTo gives nothing away, and shows what it is told to show.
LEMMA MoveFits ==
    ASSUME NEW t \in Tabs, NEW b, Fit(t, b), NEW next \in PairingStatus,
           next \in VERDICT_RUN_STATES =>
               Holder(t, b.pairing) /\ pairing[b.pairing].status = next
    PROVE  /\ Fit(t, moveTo(b, next))
           /\ moveTo(b, next).pairing = b.pairing
           /\ moveTo(b, next).at = b.at
           /\ moveTo(b, next).session \in {b.session, None}
<1> DEFINE ends == [b EXCEPT !.state = next, !.offered = FALSE, !.session = None, !.timer = FALSE]
           goes == [b EXCEPT !.state = next]
<1>1. b \in Tab
  BY DEF Fit
<1>2. /\ ends \in Tab /\ ends.at = b.at /\ ends.pairing = b.pairing
      /\ ends.session = None /\ ends.doc = b.doc /\ ends.state = next
  BY <1>1 DEF Tab
<1>3. /\ goes \in Tab /\ goes.at = b.at /\ goes.pairing = b.pairing
      /\ goes.session = b.session /\ goes.doc = b.doc /\ goes.state = next
  BY <1>1 DEF Tab
<1>4. moveTo(b, next) = ends \/ moveTo(b, next) = goes
  BY DEF moveTo
<1> HIDE DEF ends, goes
<1> QED BY <1>2, <1>3, <1>4 DEF Fit

\* A tab that stops, whatever it was waiting for.
LEMMA StopFits ==
    ASSUME NEW t \in Tabs, NEW b, Fit(t, b), NEW offered \in BOOLEAN
    PROVE  /\ Fit(t, [b EXCEPT !.at = "over", !.offered = offered])
           /\ [b EXCEPT !.at = "over", !.offered = offered].pairing = b.pairing
           /\ Fit(t, [b EXCEPT !.at = "over"])
           /\ [b EXCEPT !.at = "over"].pairing = b.pairing
<1>1. b \in Tab
  BY DEF Fit
<1> DEFINE x == [b EXCEPT !.at = "over", !.offered = offered]
           y == [b EXCEPT !.at = "over"]
<1>2. /\ x \in Tab /\ x.at = "over" /\ x.pairing = b.pairing /\ x.session = b.session
      /\ x.state = b.state
  BY <1>1 DEF Tab
<1>3. /\ y \in Tab /\ y.at = "over" /\ y.pairing = b.pairing /\ y.session = b.session
      /\ y.state = b.state
  BY <1>1 DEF Tab
<1> HIDE DEF x, y
<1>4. Fit(t, x) /\ Fit(t, y)
  BY <1>2, <1>3 DEF Fit
<1> QED BY <1>2, <1>3, <1>4 DEF x, y

\* A tab that is past its opening is fit.
LEMMA Opened ==
    ASSUME TabInv, NEW t \in Tabs,
           \/ tab[t].at # "off" \/ tab[t].state # "idle" \/ tab[t].timer \/ tab[t].offered
           \/ \E c \in Calls : call[<<t, c>>].at # "off"
    PROVE  Fit(t, tab[t])
BY DEF TabInv, InTab, Unopened

\* Tabs step one at a time: the others stay as fit as they were.
LEMMA OneTabMoves ==
    ASSUME TabInv, UNCHANGED vars, NEW t \in Tabs, NEW b, Fit(t, b),
           tab' = [tab EXCEPT ![t] = b],
           \A u \in Tabs \ {t}, c \in Calls : call'[<<u, c>>] = call[<<u, c>>]
    PROVE  tab' \in [Tabs -> Tab] /\ (\A u \in Tabs : InTab(u)') /\ tab'[t] = b
           /\ \A u \in Tabs \ {t} : tab'[u] = tab[u]
<1>1. tab \in [Tabs -> Tab] /\ b \in Tab
  BY DEF TabInv, Fit
<1>2. /\ tab' \in [Tabs -> Tab] /\ tab'[t] = b
      /\ \A u \in Tabs \ {t} : tab'[u] = tab[u]
  BY <1>1
<1>3. ASSUME NEW u \in Tabs PROVE InTab(u)'
  <2>1. UNCHANGED <<pairing, minted>>
    BY DEF vars
  <2>2. CASE u = t
    <3>1. Fit(t, tab[t])'
      BY <1>2, <2>1 DEF Fit, Holder
    <3> QED BY <2>2, <3>1 DEF InTab
  <2>3. CASE u # t
    <3>1. InTab(u) /\ tab'[u] = tab[u] /\ \A c \in Calls : call'[<<u, c>>] = call[<<u, c>>]
      BY <1>2, <2>3 DEF TabInv
    <3>2. CASE Unopened(u)
      <4>1. Unopened(u)'
        BY <3>1, <3>2 DEF Unopened
      <4> QED BY <4>1 DEF InTab
    <3>3. CASE Fit(u, tab[u])
      <4>1. Fit(u, tab[u])'
        BY <2>1, <3>1, <3>3 DEF Fit, Holder
      <4> QED BY <4>1 DEF InTab
    <3> QED BY <3>1, <3>2, <3>3 DEF InTab
  <2> QED BY <2>2, <2>3
<1> QED BY <1>2, <1>3

\* A step of the tabs that keeps every tab, call and message in order: what the
\* harness was told before it still is what was read and sent.
LEMMA TabsKeep ==
    ASSUME TabInv, UNCHANGED <<vars, reply>>,
           tab' \in [Tabs -> Tab], \A t \in Tabs : InTab(t)',
           call' \in [Tabs \X Calls -> CallRecord], \A i \in Tabs \X Calls : InCall(i)',
           mail' = [q \in Requests |-> mail'[q]],
           \A t \in Tabs : tab[t].pairing # None => tab'[t].pairing = tab[t].pairing,
           \A i \in Tabs \X Calls : call[i].doc \in Documents => call'[i].doc = call[i].doc,
           \A q \in Requests : mail'[q] = mail[q] \/ Posted(q)'
    PROVE  TabInv'
<1> USE RequestsAre
<1>1. UNCHANGED <<pairing, req, minted, reply>>
  BY DEF vars
<1>2. \A t, p : Holder(t, p)' <=> Holder(t, p)
  BY <1>1 DEF Holder
<1>3. ASSUME NEW q \in Requests PROVE Posted(q)'
  <2>1. CASE mail'[q] = mail[q] /\ mail[q] # None
    <3>1. Posted(q) /\ q[1] \in Tabs /\ (q[2] \in Calls => q \in Tabs \X Calls)
      BY DEF TabInv
    <3>2. mail[q].pairing # None
      BY <2>1, <3>1 DEF Posted, Message
    <3>3. tab'[q[1]].pairing = tab[q[1]].pairing
      BY <2>1, <3>1, <3>2 DEF Posted
    <3>4. q[2] \in Calls => call'[q].doc = call[q].doc
      BY <2>1, <3>1 DEF Posted
    <3> QED BY <1>2, <2>1, <3>1, <3>3, <3>4 DEF Posted
  <2>2. CASE mail'[q] = None
    BY <2>2 DEF Posted
  <2> QED BY <2>1, <2>2
<1>4. ASSUME NEW q \in Requests PROVE Told(q)'
  <2>1. Told(q) /\ q[1] \in Tabs /\ (q[2] \in Calls => q \in Tabs \X Calls)
    BY DEF TabInv
  <2>2. req[q].pairing # None => tab'[q[1]].pairing = tab[q[1]].pairing
    BY <2>1 DEF Told
  <2>3. req[q].pairing # None /\ q[2] \in Calls => call'[q].doc = call[q].doc
    BY <2>1 DEF Told
  <2> QED BY <1>1, <1>2, <2>1, <2>2, <2>3 DEF Told
<1>5. ASSUME NEW q \in Requests PROVE Replied(q)'
  <2>1. Replied(q)
    BY DEF TabInv
  <2> QED BY <1>1, <2>1 DEF Replied, Accepted
<1>6. ASSUME NEW p \in Pairings PROVE Grounded(p)'
  <2>1. Grounded(p)
    BY DEF TabInv
  <2>2. ASSUME NEW t \in Tabs, ArmedBy(t, p) PROVE ArmedBy(t, p)'
    BY <1>1, <1>2, <2>2 DEF ArmedBy
  <2>3. ASSUME NEW i \in Tabs \X Calls, PassedBy(i, p) PROVE PassedBy(i, p)'
    <3>1. call'[i].doc = call[i].doc
      BY <2>3 DEF PassedBy
    <3> QED BY <1>2, <2>3, <3>1 DEF PassedBy
  <2> QED BY <1>1, <2>1, <2>2, <2>3 DEF Grounded
<1> QED BY <1>3, <1>4, <1>5, <1>6 DEF TabInv

\* A step of one tab that calls nothing and sends nothing.
LEMMA TabAloneKeeps ==
    ASSUME TabInv, UNCHANGED <<vars, reply, call, mail>>, NEW t \in Tabs, NEW b, Fit(t, b),
           tab' = [tab EXCEPT ![t] = b], b.pairing = tab[t].pairing
    PROVE  TabInv'
<1>1. UNCHANGED vars
  OBVIOUS
<1>2. /\ tab' \in [Tabs -> Tab] /\ \A u \in Tabs : InTab(u)'
      /\ \A u \in Tabs : tab'[u].pairing = tab[u].pairing
  BY <1>1, OneTabMoves
<1>3. /\ call' \in [Tabs \X Calls -> CallRecord] /\ \A i \in Tabs \X Calls : InCall(i)'
      /\ mail' = [q \in Requests |-> mail'[q]]
  BY DEF TabInv, InCall
<1> QED BY <1>2, <1>3, TabsKeep

\* What is posted is put in its place, and nothing else is.
LEMMA PostKeeps ==
    ASSUME TabInv, NEW q \in Requests, NEW p, NEW s, NEW d, postToHarness(q, p, s, d)
    PROVE  /\ mail' = [r \in Requests |-> mail'[r]]
           /\ mail'[q] = [pairing |-> p, session |-> s, doc |-> d]
           /\ \A r \in Requests \ {q} : mail'[r] = mail[r]
BY DEF TabInv, postToHarness

\* A call that goes on keeps what the others read.
LEMMA CallMoves ==
    ASSUME TabInv, NEW i \in Tabs \X Calls, NEW k \in CallRecord,
           call' = [call EXCEPT ![i] = k],
           k.at \in {"off", "read"} => k.doc = None,
           k.at = "got" => k.doc \in Documents,
           call[i].doc \in Documents => k.doc = call[i].doc
    PROVE  /\ call' \in [Tabs \X Calls -> CallRecord] /\ \A j \in Tabs \X Calls : InCall(j)'
           /\ call'[i] = k
           /\ \A j \in Tabs \X Calls : call[j].doc \in Documents => call'[j].doc = call[j].doc
           /\ \A j \in (Tabs \X Calls) \ {i} : call'[j] = call[j]
<1>1. /\ call' \in [Tabs \X Calls -> CallRecord] /\ call'[i] = k
      /\ \A j \in (Tabs \X Calls) \ {i} : call'[j] = call[j]
  BY DEF TabInv
<1>2. ASSUME NEW j \in Tabs \X Calls PROVE InCall(j)'
  <2>1. InCall(j)
    BY DEF TabInv
  <2>2. CASE j = i
    BY <1>1, <2>2 DEF InCall
  <2>3. CASE j # i
    BY <1>1, <2>1, <2>3 DEF InCall
  <2> QED BY <2>2, <2>3
<1> QED BY <1>1, <1>2

\* A launch link is opened in a tab that is fit for it.
LEMMA LaunchKeeps ==
    ASSUME TypeOK, TabInv, NEW t \in Tabs, Launch(t)
    PROVE  TabInv'
<1> USE RequestsAre
<1>1. PICK p \in Pairings :
         /\ pairing[p].status # "none"
         /\ tab' = [tab EXCEPT ![t] = moveTo([tab[t] EXCEPT !.at = "redeem", !.pairing = p], "created")]
         /\ postToHarness(<<t, "redeem">>, p, None, None)
  BY DEF Launch
<1>2. tab[t].at = "off" /\ UNCHANGED <<vars, reply, call>>
  BY DEF Launch, TabAlone
<1>3. Unopened(t) /\ tab[t] \in Tab
  BY <1>2 DEF TabInv, InTab, Fit
<1> DEFINE opens == [tab[t] EXCEPT !.at = "redeem", !.pairing = p]
           b == moveTo(opens, "created")
           q == <<t, "redeem">>
<1>4. /\ opens \in Tab /\ opens.at = "redeem" /\ opens.pairing = p /\ opens.session = None
      /\ opens.state = "idle"
  BY <1>3 DEF Unopened, Tab
<1>5. Fit(t, opens)
  <2> HIDE DEF opens
  <2> QED BY <1>4, RunStates DEF Fit
<1>6. Fit(t, b) /\ b.pairing = p
  <2>1. "created" \in PairingStatus /\ "created" \notin VERDICT_RUN_STATES
    BY PairingStatuses, RunStates
  <2> HIDE DEF opens
  <2> QED BY <1>4, <1>5, <2>1, MoveFits
<1> HIDE DEF opens, b
<1>7. tab' = [tab EXCEPT ![t] = b]
  BY <1>1 DEF b, opens
<1>8. /\ tab' \in [Tabs -> Tab] /\ (\A u \in Tabs : InTab(u)') /\ tab'[t] = b
      /\ \A u \in Tabs \ {t} : tab'[u] = tab[u]
  BY <1>2, <1>6, <1>7, OneTabMoves
<1>9. /\ mail' = [r \in Requests |-> mail'[r]]
      /\ mail'[q] = [pairing |-> p, session |-> None, doc |-> None]
      /\ \A r \in Requests \ {q} : mail'[r] = mail[r]
  BY <1>1, PostKeeps
<1>10. Posted(q)'
  <2>1. q \in Requests /\ q[1] = t /\ q[2] = "redeem" /\ q[2] \notin Calls
    OBVIOUS
  <2>2. mail'[q] \in Message
    BY <1>9 DEF Message
  <2>3. Message' = Message
    BY DEF Message
  <2>4. tab'[t].pairing = p
    BY <1>6, <1>8
  <2> HIDE DEF q
  <2> QED BY <1>9, <2>1, <2>2, <2>3, <2>4 DEF Posted
<1>11. \A u \in Tabs : tab[u].pairing # None => tab'[u].pairing = tab[u].pairing
  BY <1>3, <1>8 DEF Unopened
<1>12. call' \in [Tabs \X Calls -> CallRecord] /\ \A i \in Tabs \X Calls : InCall(i)'
  BY <1>2 DEF TabInv, InCall
<1>13. \A r \in Requests : mail'[r] = mail[r] \/ Posted(r)'
  <2> HIDE DEF q
  <2> QED BY <1>9, <1>10
<1> HIDE DEF q
<1> QED BY <1>2, <1>8, <1>9, <1>11, <1>12, <1>13, TabsKeep

\* The redemption that a tab learns of was its own.
LEMMA RedeemedKeeps ==
    ASSUME TypeOK, TabInv, NEW t \in Tabs, Redeemed(t)
    PROVE  TabInv'
<1> USE RequestsAre
<1> DEFINE opens == [tab[t] EXCEPT !.at = "read", !.session = <<t, "redeem">>, !.timer = TRUE]
           b == moveTo(opens, "paired")
<1>1. /\ tab[t].at = "redeem" /\ Accepted(<<t, "redeem">>) /\ tab' = [tab EXCEPT ![t] = b]
      /\ UNCHANGED <<vars, reply, call, mail>>
  BY DEF Redeemed, TabAlone
<1>2. Fit(t, tab[t]) /\ tab[t] \in Tab
  BY <1>1, Opened DEF Fit
<1>3. Holder(t, tab[t].pairing)
  <2>1. Told(<<t, "redeem">>)
    BY DEF TabInv
  <2> QED BY <1>1, <2>1 DEF Told, Accepted
<1>4. /\ opens \in Tab /\ opens.at = "read" /\ opens.pairing = tab[t].pairing
      /\ opens.session = <<t, "redeem">> /\ opens.state = tab[t].state
  BY <1>2 DEF Tab
<1>5. Fit(t, opens)
  <2> HIDE DEF opens
  <2> QED BY <1>2, <1>3, <1>4 DEF Fit
<1>6. Fit(t, b) /\ b.pairing = tab[t].pairing
  <2>1. "paired" \in PairingStatus /\ "paired" \notin VERDICT_RUN_STATES
    BY PairingStatuses, RunStates
  <2> HIDE DEF opens
  <2> QED BY <1>4, <1>5, <2>1, MoveFits
<1> HIDE DEF b
<1> QED BY <1>1, <1>6, TabAloneKeeps

\* The cart that a tab reads is one that the store serves.
LEMMA ReadsCartKeeps ==
    ASSUME TabInv, NEW t \in Tabs, ReadsCart(t)
    PROVE  TabInv'
<1>1. PICK d \in Documents : tab' = [tab EXCEPT ![t].at = "got", ![t].doc = d]
  BY DEF ReadsCart
<1>2. tab[t].at = "read" /\ UNCHANGED <<vars, reply, call, mail>>
  BY DEF ReadsCart, TabAlone
<1>3. Fit(t, tab[t]) /\ tab[t] \in Tab /\ tab \in [Tabs -> Tab]
  BY <1>2, Opened DEF Fit, TabInv
<1> DEFINE b == [tab[t] EXCEPT !.at = "got", !.doc = d]
<1>4. tab' = [tab EXCEPT ![t] = b]
  BY <1>1, <1>3
<1>5. /\ b \in Tab /\ b.at = "got" /\ b.doc = d /\ b.pairing = tab[t].pairing
      /\ b.session = tab[t].session /\ b.state = tab[t].state
  BY <1>3 DEF Tab
<1> HIDE DEF b
<1>6. Fit(t, b)
  BY <1>3, <1>5 DEF Fit
<1> QED BY <1>2, <1>4, <1>5, <1>6, TabAloneKeeps

\* A tab posts the cart that it read, with the session it still holds.
LEMMA SendsBeforeKeeps ==
    ASSUME TypeOK, TabInv, NEW t \in Tabs, SendsBefore(t)
    PROVE  TabInv'
<1> USE RequestsAre
<1> DEFINE q == <<t, "before">>
           b == [tab[t] EXCEPT !.at = "before"]
           d == cartObservation(tab[t].doc)
<1>1. /\ tab[t].at = "got" /\ tab' = [tab EXCEPT ![t].at = "before"]
      /\ postToHarness(q, tab[t].pairing, tab[t].session, d)
      /\ UNCHANGED <<vars, reply, call>>
  BY DEF SendsBefore, TabAlone
<1>2. Fit(t, tab[t]) /\ tab[t] \in Tab /\ tab \in [Tabs -> Tab]
  BY <1>1, Opened DEF Fit, TabInv
<1>3. tab[t].doc \in Documents /\ tab[t].pairing \in Pairings
  BY <1>1, <1>2 DEF Fit
<1>4. /\ b \in Tab /\ b.at = "before" /\ b.pairing = tab[t].pairing
      /\ b.session = tab[t].session /\ b.state = tab[t].state
  BY <1>2 DEF Tab
<1>5. tab' = [tab EXCEPT ![t] = b]
  BY <1>1, <1>2
<1> HIDE DEF b
<1>6. Fit(t, b)
  BY <1>2, <1>4 DEF Fit
<1>7. /\ tab' \in [Tabs -> Tab] /\ (\A u \in Tabs : InTab(u)') /\ tab'[t] = b
      /\ \A u \in Tabs \ {t} : tab'[u] = tab[u]
  BY <1>1, <1>5, <1>6, OneTabMoves
<1>8. q \in Requests /\ q[1] = t /\ q[2] = "before" /\ q[2] \notin Calls
  OBVIOUS
<1>9. d \in {cartObservation(x) : x \in Documents}
  BY <1>3
<1> HIDE DEF q, d
<1>10. /\ mail' = [r \in Requests |-> mail'[r]]
       /\ mail'[q] = [pairing |-> tab[t].pairing, session |-> tab[t].session, doc |-> d]
       /\ \A r \in Requests \ {q} : mail'[r] = mail[r]
  BY <1>1, <1>8, PostKeeps
<1>11. Posted(q)'
  <2>1. tab[t].session \in Requests \cup {None}
    BY <1>2 DEF Tab
  <2>2. mail'[q] \in Message
    BY <1>3, <1>9, <1>10, <2>1 DEF Message
  <2>3. Message' = Message
    BY DEF Message
  <2>4. mail'[q].pairing = tab'[t].pairing /\ mail'[q].session = tab[t].session /\ mail'[q].doc = d
    BY <1>4, <1>7, <1>10
  <2>5. tab[t].session # None =>
            tab[t].session = <<t, "redeem">> /\ <<tab[t].pairing, <<t, "redeem">>>> \in minted
    BY <1>2 DEF Fit, Holder
  <2>6. UNCHANGED minted
    BY <1>1 DEF vars
  <2>7. mail'[q].session # None =>
            mail'[q].session = <<t, "redeem">> /\ <<mail'[q].pairing, <<t, "redeem">>>> \in minted'
    BY <1>4, <1>7, <2>4, <2>5, <2>6
  <2> QED BY <1>8, <1>9, <2>2, <2>3, <2>4, <2>7 DEF Posted, Holder
<1>12. \A u \in Tabs : tab[u].pairing # None => tab'[u].pairing = tab[u].pairing
  BY <1>4, <1>7
<1>13. call' \in [Tabs \X Calls -> CallRecord] /\ \A i \in Tabs \X Calls : InCall(i)'
  BY <1>1 DEF TabInv, InCall
<1>14. \A r \in Requests : mail'[r] = mail[r] \/ Posted(r)'
  BY <1>10, <1>11
<1> QED BY <1>1, <1>7, <1>10, <1>12, <1>13, <1>14, TabsKeep

\* What a tab is answered is what became of its own trial.
LEMMA AnsweredTab ==
    ASSUME TabInv, NEW q \in Requests, Accepted(q)
    PROVE  /\ reply[q] \in PairingStatus
           /\ reply[q] \in VERDICT_RUN_STATES =>
                  /\ Holder(q[1], tab[q[1]].pairing)
                  /\ pairing[tab[q[1]].pairing].status = reply[q]
<1>1. Told(q) /\ Replied(q)
  BY DEF TabInv
<1> QED BY <1>1 DEF Told, Replied, Accepted

\* start's last step shows the status that came back.
LEMMA ArmsKeeps ==
    ASSUME TabInv, NEW t \in Tabs, Arms(t)
    PROVE  TabInv'
<1> USE RequestsAre
<1> DEFINE q == <<t, "before">>
           moved == moveTo(tab[t], reply[q])
<1>1. PICK offered \in BOOLEAN :
         tab' = [tab EXCEPT ![t] = [moved EXCEPT !.at = "over", !.offered = offered]]
  BY DEF Arms
<1>2. tab[t].at = "before" /\ Accepted(q) /\ UNCHANGED <<vars, reply, call, mail>>
  BY DEF Arms, TabAlone
<1>3. Fit(t, tab[t])
  BY <1>2, Opened
<1>4. Fit(t, moved) /\ moved.pairing = tab[t].pairing
  <2>1. q \in Requests /\ q[1] = t
    OBVIOUS
  <2> HIDE DEF q
  <2>2. /\ reply[q] \in PairingStatus
        /\ reply[q] \in VERDICT_RUN_STATES =>
               Holder(t, tab[t].pairing) /\ pairing[tab[t].pairing].status = reply[q]
    BY <1>2, <2>1, AnsweredTab
  <2> QED BY <1>3, <2>2, MoveFits
<1> HIDE DEF moved
<1> DEFINE b == [moved EXCEPT !.at = "over", !.offered = offered]
<1>5. Fit(t, b) /\ b.pairing = tab[t].pairing /\ tab' = [tab EXCEPT ![t] = b]
  BY <1>1, <1>4, StopFits
<1> HIDE DEF b
<1> QED BY <1>2, <1>5, TabAloneKeeps

\* A start that fails shows no verdict.
LEMMA StartFailsKeeps ==
    ASSUME TabInv, NEW t \in Tabs, StartFails(t)
    PROVE  TabInv'
<1> DEFINE moved == moveTo(tab[t], "error")
           b == [moved EXCEPT !.at = "over"]
<1>1. /\ tab[t].at # "off" /\ tab' = [tab EXCEPT ![t] = b]
      /\ UNCHANGED <<vars, reply, call, mail>>
  BY DEF StartFails, StartThrows, TabAlone
<1>2. Fit(t, tab[t])
  BY <1>1, Opened
<1>3. "error" \in PairingStatus /\ "error" \notin VERDICT_RUN_STATES
  BY PairingStatuses, RunStates
<1>4. Fit(t, moved) /\ moved.pairing = tab[t].pairing
  BY <1>2, <1>3, MoveFits
<1> HIDE DEF moved
<1>5. Fit(t, b) /\ b.pairing = tab[t].pairing
  BY <1>4, StopFits
<1> HIDE DEF b
<1> QED BY <1>1, <1>5, TabAloneKeeps

\* Nor does the expiry.
LEMMA ExpiresKeeps ==
    ASSUME TabInv, NEW t \in Tabs, Expires(t)
    PROVE  TabInv'
<1> DEFINE b == moveTo(tab[t], "expired")
<1>1. tab[t].timer /\ tab' = [tab EXCEPT ![t] = b] /\ UNCHANGED <<vars, reply, call, mail>>
  BY DEF Expires, TabAlone
<1>2. Fit(t, tab[t])
  BY <1>1, Opened
<1>3. "expired" \in PairingStatus /\ "expired" \notin VERDICT_RUN_STATES
  BY PairingStatuses, RunStates
<1>4. Fit(t, b) /\ b.pairing = tab[t].pairing
  BY <1>2, <1>3, MoveFits
<1> HIDE DEF b
<1> QED BY <1>1, <1>4, TabAloneKeeps

\* A page that is hidden keeps what it posted and what it read.
LEMMA ClosesKeeps ==
    ASSUME TabInv, NEW t \in Tabs, Closes(t)
    PROVE  TabInv'
<1> USE RequestsAre
<1> DEFINE b == [tab[t] EXCEPT !.at = "over", !.state = "gone", !.offered = FALSE,
                               !.session = None, !.timer = FALSE]
<1>1. /\ tab[t].state # "idle" /\ tab' = [tab EXCEPT ![t] = b]
      /\ call' = [i \in Tabs \X Calls |-> IF i[1] = t THEN [call[i] EXCEPT !.at = "over"] ELSE call[i]]
      /\ UNCHANGED <<vars, reply, mail>>
  BY DEF Closes, TabAlone
<1>2. Fit(t, tab[t]) /\ tab[t] \in Tab
  BY <1>1, Opened DEF Fit
<1>3. /\ b \in Tab /\ b.at = "over" /\ b.pairing = tab[t].pairing /\ b.session = None
      /\ b.state = "gone"
  BY <1>2 DEF Tab
<1> HIDE DEF b
<1>4. Fit(t, b)
  BY <1>2, <1>3, RunStates DEF Fit
<1>5. ASSUME NEW i \in Tabs \X Calls
      PROVE  /\ call'[i] \in CallRecord /\ call'[i].doc = call[i].doc
             /\ call'[i] = call[i] \/ call'[i].at = "over"
             /\ i[1] # t => call'[i] = call[i]
  <2>1. call[i] \in CallRecord
    BY DEF TabInv
  <2>2. /\ [call[i] EXCEPT !.at = "over"] \in CallRecord
        /\ [call[i] EXCEPT !.at = "over"].doc = call[i].doc
        /\ [call[i] EXCEPT !.at = "over"].at = "over"
    BY <2>1 DEF CallRecord
  <2>3. call'[i] = IF i[1] = t THEN [call[i] EXCEPT !.at = "over"] ELSE call[i]
    BY <1>1
  <2> QED BY <2>1, <2>2, <2>3
<1>6. \A u \in Tabs \ {t}, c \in Calls : call'[<<u, c>>] = call[<<u, c>>]
  BY <1>5
<1>7. /\ tab' \in [Tabs -> Tab] /\ (\A u \in Tabs : InTab(u)') /\ tab'[t] = b
      /\ \A u \in Tabs \ {t} : tab'[u] = tab[u]
  BY <1>1, <1>4, <1>6, OneTabMoves
<1>8. \A u \in Tabs : tab[u].pairing # None => tab'[u].pairing = tab[u].pairing
  BY <1>3, <1>7
<1>9. call' \in [Tabs \X Calls -> CallRecord]
  <2>1. call' = [i \in Tabs \X Calls |-> call'[i]]
    BY <1>1
  <2> QED BY <1>5, <2>1
<1>10. \A i \in Tabs \X Calls : InCall(i)'
  BY <1>5 DEF TabInv, InCall
<1>11. mail' = [q \in Requests |-> mail'[q]] /\ \A q \in Requests : mail'[q] = mail[q]
  BY <1>1 DEF TabInv
<1> QED BY <1>1, <1>5, <1>7, <1>8, <1>9, <1>10, <1>11, TabsKeep

\* A call of a tab that moves, and perhaps its tab with it.
LEMMA CallKeeps ==
    ASSUME TabInv, UNCHANGED <<vars, reply, mail>>, NEW t \in Tabs, NEW c \in Calls,
           Fit(t, tab[t]), NEW k \in CallRecord,
           k.at \in {"off", "read"} => k.doc = None,
           k.at = "got" => k.doc \in Documents,
           call[<<t, c>>].doc \in Documents => k.doc = call[<<t, c>>].doc,
           call' = [call EXCEPT ![<<t, c>>] = k],
           NEW b, Fit(t, b), b.pairing = tab[t].pairing, tab' = [tab EXCEPT ![t] = b]
    PROVE  TabInv'
<1> DEFINE i == <<t, c>>
<1>1. i \in Tabs \X Calls
  OBVIOUS
<1>2. /\ call' \in [Tabs \X Calls -> CallRecord] /\ \A j \in Tabs \X Calls : InCall(j)'
      /\ \A j \in Tabs \X Calls : call[j].doc \in Documents => call'[j].doc = call[j].doc
      /\ \A j \in (Tabs \X Calls) \ {i} : call'[j] = call[j]
  <2> HIDE DEF i
  <2>1. /\ call' = [call EXCEPT ![i] = k]
        /\ call[i].doc \in Documents => k.doc = call[i].doc
    BY DEF i
  <2> QED BY <1>1, <2>1, CallMoves
<1>3. \A u \in Tabs \ {t}, x \in Calls : call'[<<u, x>>] = call[<<u, x>>]
  BY <1>2
<1>4. UNCHANGED vars
  OBVIOUS
<1>5. /\ tab' \in [Tabs -> Tab] /\ (\A u \in Tabs : InTab(u)') /\ tab'[t] = b
      /\ \A u \in Tabs \ {t} : tab'[u] = tab[u]
  BY <1>3, <1>4, OneTabMoves
<1>6. \A u \in Tabs : tab[u].pairing # None => tab'[u].pairing = tab[u].pairing
  BY <1>5
<1>7. mail' = [q \in Requests |-> mail'[q]] /\ \A q \in Requests : mail'[q] = mail[q]
  BY DEF TabInv
<1> QED BY <1>2, <1>5, <1>6, <1>7, TabsKeep

\* The tool is called, and reads a cart that the store serves.
LEMMA InvokeKeeps ==
    ASSUME TabInv, NEW t \in Tabs, NEW c \in Calls, Invoke(t, c) \/ CallReads(t, c)
    PROVE  TabInv'
<1> DEFINE i == <<t, c>>
<1>1. UNCHANGED <<vars, reply, mail>> /\ UNCHANGED tab
  BY DEF Invoke, CallReads, TabAlone
<1>2. call[i] \in CallRecord /\ InCall(i) /\ call \in [Tabs \X Calls -> CallRecord]
  BY DEF TabInv
<1>3. Fit(t, tab[t])
  BY Opened DEF Invoke, CallReads
<1>4. call[i].at \in {"off", "read"} /\ call[i].doc = None
  BY <1>2 DEF Invoke, CallReads, InCall
<1>5. tab' = [tab EXCEPT ![t] = tab[t]]
  BY <1>1 DEF TabInv
<1>6. call[i].doc \notin Documents
  BY <1>4, RequestsAre
<1>7. CASE Invoke(t, c)
  <2> DEFINE k == [call[i] EXCEPT !.at = "read"]
  <2>1. call' = [call EXCEPT ![i] = k]
    BY <1>2, <1>7 DEF Invoke
  <2>2. k \in CallRecord /\ k.at = "read" /\ k.doc = None
    BY <1>2, <1>4 DEF CallRecord
  <2> HIDE DEF k
  <2> QED BY <1>1, <1>3, <1>5, <1>6, <2>1, <2>2, CallKeeps
<1>8. CASE CallReads(t, c)
  <2>1. PICK d \in Documents : call' = [call EXCEPT ![i] = [at |-> "got", doc |-> d]]
    BY <1>8 DEF CallReads
  <2> DEFINE k == [at |-> "got", doc |-> d]
  <2>2. k \in CallRecord /\ k.at = "got" /\ k.doc = d
    BY DEF CallRecord
  <2>3. call' = [call EXCEPT ![i] = k]
    BY <2>1
  <2> HIDE DEF k
  <2> QED BY <1>1, <1>3, <1>5, <1>6, <2>2, <2>3, CallKeeps
<1> QED BY <1>7, <1>8

\* A call that ends keeps the cart it read; its tab shows the verdict of its own trial,
\* or none.
LEMMA CallEnds ==
    ASSUME TabInv, NEW t \in Tabs, NEW c \in Calls, Verified(t, c) \/ CallFails(t, c)
    PROVE  TabInv'
<1> USE RequestsAre
<1> DEFINE i == <<t, c>>
           k == [call[i] EXCEPT !.at = "over"]
<1>1. /\ call[i].at # "off" /\ call' = [call EXCEPT ![i].at = "over"]
      /\ UNCHANGED <<vars, reply, mail>>
  BY DEF Verified, CallFails, TabAlone
<1>2. PICK next \in PairingStatus :
         /\ tab' = [tab EXCEPT ![t] = moveTo(tab[t], next)]
         /\ next \in VERDICT_RUN_STATES =>
                Holder(t, tab[t].pairing) /\ pairing[tab[t].pairing].status = next
  <2>1. "error" \in PairingStatus /\ "error" \notin VERDICT_RUN_STATES
    BY PairingStatuses, RunStates
  <2>2. CASE CallFails(t, c)
    BY <2>1, <2>2 DEF CallFails, stopped
  <2>3. CASE Verified(t, c)
    <3>1. i \in Requests /\ i[1] = t /\ Accepted(i)
      BY <2>3 DEF Verified
    <3>2. tab' = [tab EXCEPT ![t] = moveTo(tab[t], settled(reply[i]))]
      BY <2>3 DEF Verified
    <3> HIDE DEF i
    <3>3. /\ reply[i] \in PairingStatus
          /\ reply[i] \in VERDICT_RUN_STATES =>
                 Holder(t, tab[t].pairing) /\ pairing[tab[t].pairing].status = reply[i]
      BY <3>1, AnsweredTab
    <3>4. settled(reply[i]) = reply[i] \/ settled(reply[i]) = "error"
      BY DEF settled, stopped
    <3> QED BY <2>1, <3>2, <3>3, <3>4
  <2> QED BY <2>2, <2>3
<1>3. Fit(t, tab[t])
  BY <1>1, Opened
<1> DEFINE b == moveTo(tab[t], next)
<1>4. Fit(t, b) /\ b.pairing = tab[t].pairing
  BY <1>2, <1>3, MoveFits
<1>5. call[i] \in CallRecord /\ call \in [Tabs \X Calls -> CallRecord]
  BY DEF TabInv
<1>6. k \in CallRecord /\ k.at = "over" /\ k.doc = call[i].doc
  BY <1>5 DEF CallRecord
<1>7. call' = [call EXCEPT ![i] = k]
  BY <1>1, <1>5
<1>8. tab' = [tab EXCEPT ![t] = b]
  BY <1>2
<1> HIDE DEF b, k
<1> QED BY <1>1, <1>3, <1>4, <1>6, <1>7, <1>8, CallKeeps

\* A call posts the cart that it read, with the session its tab still holds.
LEMMA CallSendsKeeps ==
    ASSUME TypeOK, TabInv, NEW t \in Tabs, NEW c \in Calls, CallSends(t, c)
    PROVE  TabInv'
<1> USE RequestsAre
<1> DEFINE q == <<t, c>>
           k == [call[q] EXCEPT !.at = "post"]
           d == cartObservation(call[q].doc)
<1>1. /\ call[q].at = "got" /\ call' = [call EXCEPT ![q].at = "post"]
      /\ postToHarness(q, tab[t].pairing, tab[t].session, d)
      /\ UNCHANGED <<vars, reply, tab>>
  BY DEF CallSends, TabAlone
<1>2. Fit(t, tab[t]) /\ tab[t] \in Tab
  BY <1>1, Opened DEF Fit
<1>3. /\ q \in Requests /\ q \in Tabs \X Calls /\ q[1] = t /\ q[2] = c
      /\ q[2] # "before"
  OBVIOUS
<1>4. call[q] \in CallRecord /\ call[q].doc \in Documents /\ call \in [Tabs \X Calls -> CallRecord]
  BY <1>1, <1>3 DEF TabInv, InCall
<1>5. k \in CallRecord /\ k.at = "post" /\ k.doc = call[q].doc
  BY <1>4 DEF CallRecord
<1>6. call' = [call EXCEPT ![q] = k]
  BY <1>1, <1>4
<1>7. d \in {cartObservation(x) : x \in Documents} /\ d = cartObservation(call[q].doc)
  BY <1>4
<1> HIDE DEF q, k, d
<1>8. /\ call' \in [Tabs \X Calls -> CallRecord] /\ \A j \in Tabs \X Calls : InCall(j)'
      /\ call'[q] = k
      /\ \A j \in Tabs \X Calls : call[j].doc \in Documents => call'[j].doc = call[j].doc
      /\ \A j \in (Tabs \X Calls) \ {q} : call'[j] = call[j]
  BY <1>3, <1>5, <1>6, CallMoves
<1>9. tab' = [tab EXCEPT ![t] = tab[t]]
  BY <1>1 DEF TabInv
<1>10. \A u \in Tabs \ {t}, x \in Calls : call'[<<u, x>>] = call[<<u, x>>]
  <2> SUFFICES ASSUME NEW u \in Tabs \ {t}, NEW x \in Calls
               PROVE  call'[<<u, x>>] = call[<<u, x>>]
    OBVIOUS
  <2>1. <<u, x>>[1] = u
    OBVIOUS
  <2>2. <<u, x>> # q
    BY <1>3, <2>1
  <2> QED BY <1>8, <2>2
<1>11. tab' \in [Tabs -> Tab] /\ (\A u \in Tabs : InTab(u)')
  BY <1>1, <1>2, <1>9, <1>10, OneTabMoves
<1>12. /\ mail' = [r \in Requests |-> mail'[r]]
       /\ mail'[q] = [pairing |-> tab[t].pairing, session |-> tab[t].session, doc |-> d]
       /\ \A r \in Requests \ {q} : mail'[r] = mail[r]
  BY <1>1, <1>3, PostKeeps
<1>13. Posted(q)'
  <2>1. tab[t].session \in Requests \cup {None} /\ tab[t].pairing \in Pairings
    BY <1>2 DEF Tab, Fit
  <2>2. mail'[q] \in Message
    BY <1>7, <1>12, <2>1 DEF Message
  <2>3. Message' = Message
    BY DEF Message
  <2>4. mail'[q].pairing = tab'[t].pairing /\ mail'[q].session = tab[t].session /\ mail'[q].doc = d
    BY <1>1, <1>12
  <2>5. tab[t].session # None =>
            tab[t].session = <<t, "redeem">> /\ <<tab[t].pairing, <<t, "redeem">>>> \in minted
    BY <1>2 DEF Fit, Holder
  <2>6. UNCHANGED minted
    BY <1>1 DEF vars
  <2>7. mail'[q].session # None =>
            mail'[q].session = <<t, "redeem">> /\ <<mail'[q].pairing, <<t, "redeem">>>> \in minted'
    BY <1>1, <2>4, <2>5, <2>6
  <2>8. call'[q].doc \in Documents /\ mail'[q].doc = cartObservation(call'[q].doc)
    BY <1>4, <1>5, <1>7, <1>8, <2>4
  <2> QED BY <1>3, <2>2, <2>3, <2>4, <2>7, <2>8 DEF Posted, Holder
<1>14. \A r \in Requests : mail'[r] = mail[r] \/ Posted(r)'
  BY <1>12, <1>13
<1> QED BY <1>1, <1>8, <1>11, <1>12, <1>14, TabsKeep

----------------------------------------------------------------------------
\* A step of the harness

\* What a step does to a request: nothing, or it is turned away, or it goes on with
\* what it came with.
Serviced(q) ==
    \/ req'[q] = req[q]
    \/ req[q].pc # "done" /\ req'[q] = TurnedAway
    \/ /\ req[q].pc \in UnderWay /\ req'[q].pc # "idle"
       /\ req'[q].pairing = req[q].pairing
       /\ req'[q].op = req[q].op
       /\ req'[q].cart = req[q].cart

\* A trial that is neither armed by this step nor passed by it.
Level(p) ==
    \/ pairing'[p].status = pairing[p].status
    \/ pairing'[p].status \notin ArmedOn
    \/ pairing[p].status \in ArmedOn /\ pairing'[p].status # "passed"

\* What a trial rests on stays: a request that is done is not touched again.
LEMMA GroundStays ==
    ASSUME TabInv, UNCHANGED call, minted \subseteq minted',
           \A q \in Requests : req[q].pc = "done" => req'[q] = req[q], NEW p \in Pairings
    PROVE  /\ \A t \in Tabs : ArmedBy(t, p) => ArmedBy(t, p)'
           /\ \A i \in Tabs \X Calls : PassedBy(i, p) => PassedBy(i, p)'
<1> USE RequestsAre
<1>1. \A t : Holder(t, p) => Holder(t, p)'
  BY DEF Holder
<1>2. ASSUME NEW t \in Tabs, ArmedBy(t, p) PROVE ArmedBy(t, p)'
  BY <1>1, <1>2 DEF ArmedBy
<1>3. ASSUME NEW i \in Tabs \X Calls, PassedBy(i, p) PROVE PassedBy(i, p)'
  BY <1>1, <1>3 DEF PassedBy
<1> QED BY <1>2, <1>3

\* A step of the harness leaves the tabs' side of every trial as it was.
LEMMA HarnessKeeps ==
    ASSUME TypeOK, TypeOK', FlightInv, Safe', FinishedStep, TabInv,
           UNCHANGED <<tab, call>>, Replies, minted \subseteq minted',
           mail' = [q \in Requests |-> mail'[q]],
           \A q \in Requests : mail'[q] \in {mail[q], None},
           \A q \in Requests : Serviced(q) \/ (req[q].pc # "done" /\ Told(q)'),
           \A p \in Pairings : Level(p) \/ Grounded(p)'
    PROVE  TabInv'
<1> USE RequestsAre
<1>1. \A t, p : Holder(t, p) => Holder(t, p)'
  BY DEF Holder
<1>2. \A q \in Requests : req[q].pc = "done" => req'[q] = req[q]
  BY DEF Serviced, UnderWay
<1>3. \A p \in Pairings : pairing[p].status \in VERDICT_RUN_STATES =>
                              pairing'[p].status = pairing[p].status
  BY PairingStatuses, RunStates DEF FinishedStep, is_terminal_pairing
<1>4. ASSUME NEW t \in Tabs PROVE InTab(t)'
  <2>1. CASE Unopened(t)
    <3>1. Unopened(t)'
      BY <2>1 DEF Unopened
    <3> QED BY <3>1 DEF InTab
  <2>2. CASE Fit(t, tab[t])
    <3>1. Fit(t, tab[t])'
      BY <1>1, <1>3, <2>2 DEF Fit
    <3> QED BY <3>1 DEF InTab
  <2> QED BY <2>1, <2>2 DEF TabInv, InTab
<1>5. ASSUME NEW q \in Requests PROVE Posted(q)'
  <2>1. CASE mail'[q] = None
    BY <2>1 DEF Posted
  <2>2. CASE mail'[q] = mail[q] /\ mail[q] # None
    <3>1. Posted(q) /\ Message' = Message
      BY DEF TabInv, Message
    <3> QED BY <1>1, <2>2, <3>1 DEF Posted
  <2> QED BY <2>1, <2>2
<1>6. ASSUME NEW q \in Requests PROVE Told(q)'
  <2>1. Told(q)
    BY DEF TabInv
  <2>2. CASE req'[q] = req[q]
    BY <1>1, <2>1, <2>2 DEF Told
  <2>3. CASE req'[q] = TurnedAway
    BY <2>3 DEF Told, TurnedAway, NoRequest
  <2>4. CASE /\ req[q].pc \in UnderWay /\ req'[q].pc # "idle"
             /\ req'[q].pairing = req[q].pairing
             /\ req'[q].op = req[q].op
             /\ req'[q].cart = req[q].cart
    <3>1. req[q].pairing # None
      BY <2>4 DEF FlightInv
    <3> QED BY <1>1, <2>1, <2>4, <3>1 DEF Told
  <2> QED BY <2>2, <2>3, <2>4 DEF Serviced
<1>7. ASSUME NEW q \in Requests PROVE Replied(q)'
  <2>1. CASE req[q].pc = "done"
    <3>1. Replied(q) /\ Told(q) /\ req'[q] = req[q]
      BY <1>2, <2>1 DEF TabInv
    <3>2. reply'[q] = reply[q]
      BY <2>1 DEF Replies
    <3>3. Accepted(q)' => Accepted(q) /\ req[q].pairing \in Pairings
      BY <3>1 DEF Accepted, Told, TypeOK, Request
    <3> QED BY <1>3, <3>1, <3>2, <3>3 DEF Replied
  <2>2. CASE req[q].pc # "done"
    <3> SUFFICES ASSUME Accepted(q)'
                 PROVE  /\ reply'[q] \in PairingStatus
                        /\ reply'[q] = pairing'[req'[q].pairing].status
      BY DEF Replied
    <3>1. req'[q].pc = "done" /\ req'[q].answer # "refused"
      BY DEF Accepted
    <3>2. reply'[q] = pairing'[req'[q].pairing].status
      BY <2>2, <3>1 DEF Replies
    <3>3. req'[q].pairing # None /\ <<req'[q].pairing, <<q[1], "redeem">>>> \in minted'
      BY <1>6, <3>1 DEF Told, Holder
    <3>4. req'[q].pairing \in Pairings /\ pairing' \in [Pairings -> Pairing]
      BY <3>3 DEF TypeOK, Request
    <3>5. pairing'[req'[q].pairing].status # "none"
      <4> DEFINE c == <<req'[q].pairing, <<q[1], "redeem">>>>
      <4>1. c \in minted' /\ c[1] = req'[q].pairing
        BY <3>3
      <4> HIDE DEF c
      <4> QED BY <4>1 DEF Safe, LinkSpent
    <3>6. pairing'[req'[q].pairing] \in Pairing
      BY <3>4
    <3> QED BY <3>2, <3>5, <3>6 DEF Pairing
  <2> QED BY <2>1, <2>2
<1>8. ASSUME NEW p \in Pairings PROVE Grounded(p)'
  <2>1. CASE Level(p)
    <3>1. Grounded(p)
      BY DEF TabInv
    <3>2. /\ \A t \in Tabs : ArmedBy(t, p) => ArmedBy(t, p)'
          /\ \A i \in Tabs \X Calls : PassedBy(i, p) => PassedBy(i, p)'
      BY <1>2, GroundStays
    <3>3. pairing'[p].status \in ArmedOn => pairing[p].status \in ArmedOn
      BY <2>1 DEF Level
    <3>4. pairing'[p].status = "passed" => pairing[p].status = "passed"
      BY <2>1 DEF Level, ArmedOn
    <3> QED BY <3>1, <3>2, <3>3, <3>4 DEF Grounded
  <2> QED BY <2>1
<1>9. tab' \in [Tabs -> Tab] /\ call' \in [Tabs \X Calls -> CallRecord]
      /\ \A i \in Tabs \X Calls : InCall(i)'
  BY DEF TabInv, InCall
<1> QED BY <1>4, <1>5, <1>6, <1>7, <1>8, <1>9 DEF TabInv

\* Changes to one request and one trial, as the lemma on the harness wants them.
LEMMA OneServed ==
    ASSUME TypeOK, TypeOK', FlightInv, Safe', FinishedStep, TabInv,
           UNCHANGED <<tab, call>>, Replies, minted \subseteq minted',
           mail' = [r \in Requests |-> mail'[r]],
           \A r \in Requests : mail'[r] \in {mail[r], None},
           NEW q \in Requests, \A r \in Requests \ {q} : req'[r] = req[r],
           Serviced(q) \/ (req[q].pc # "done" /\ Told(q)'),
           NEW p \in Pairings, \A x \in Pairings \ {p} : pairing'[x] = pairing[x],
           Level(p) \/ Grounded(p)'
    PROVE  TabInv'
<1>1. ASSUME NEW r \in Requests
      PROVE  Serviced(r) \/ (req[r].pc # "done" /\ Told(r)')
  <2>1. CASE r = q
    BY <2>1
  <2>2. CASE r # q
    BY <2>2 DEF Serviced
  <2> QED BY <2>1, <2>2
<1>2. ASSUME NEW x \in Pairings PROVE Level(x) \/ Grounded(x)'
  <2>1. CASE x = p
    BY <2>1
  <2>2. CASE x # p
    BY <2>2 DEF Level
  <2> QED BY <2>1, <2>2
<1> QED BY <1>1, <1>2, HarnessKeeps

\* Marking a trial expired arms none.
LEMMA ExpireIsLevel ==
    ASSUME TypeOK, NEW p \in Pairings,
           pairing' = pairing \/ pairing' = [pairing EXCEPT ![p] = Expire(p)]
    PROVE  Level(p) /\ \A x \in Pairings \ {p} : pairing'[x] = pairing[x]
<1>1. pairing[p] \in Pairing /\ pairing \in [Pairings -> Pairing]
  BY DEF TypeOK
<1> DEFINE lapsed == [pairing[p] EXCEPT !.status = "expired"]
<1>2. lapsed.status = "expired"
  BY <1>1 DEF Pairing
<1> HIDE DEF lapsed
<1>3. Expire(p) \in {pairing[p], lapsed}
  BY DEF Expire, lapsed
<1>4. pairing'[p] \in {pairing[p], lapsed} /\ \A x \in Pairings \ {p} : pairing'[x] = pairing[x]
  BY <1>1, <1>3
<1> QED BY <1>2, <1>4 DEF Level, ArmedOn

\* A message that arrives is taken up for the tab that sent it.
LEMMA ArrivesKeeps ==
    ASSUME TypeOK, TypeOK', FlightInv, Safe', FinishedStep, TabInv,
           NEW q \in Requests, Arrives(q)
    PROVE  TabInv'
<1> USE RequestsAre
<1>1. /\ mail[q] # None /\ mail' = [mail EXCEPT ![q] = None]
      /\ Replies /\ UNCHANGED <<tab, call>>
  BY DEF Arrives
<1>2. Posted(q) /\ mail = [r \in Requests |-> mail[r]]
  BY DEF TabInv
<1>3. /\ mail' = [r \in Requests |-> mail'[r]]
      /\ \A r \in Requests : mail'[r] \in {mail[r], None}
  BY <1>1, <1>2
<1> DEFINE p == mail[q].pairing
           s == mail[q].session
<1>4. p \in Pairings /\ p = tab[q[1]].pairing
  BY <1>1, <1>2 DEF Posted, Message
<1>5. s # None => s = <<q[1], "redeem">> /\ Holder(q[1], p)
  BY <1>1, <1>2 DEF Posted
<1>6. TurnedAway.pc = "done"
  BY TurnedAwayTyped
<1>7. CASE redeem_pairing(q)
  <2>1. q[2] = "redeem" /\ redeem(q, p) /\ q = <<q[1], "redeem">>
    BY <1>7 DEF redeem_pairing
  <2> DEFINE served == [NoRequest EXCEPT
                 !.pc = "done", !.op = "redeem", !.pairing = p, !.answer = "paired"]
  <2>2. served.pc = "done" /\ served.op = "redeem" /\ served.pairing = p
    BY DEF NoRequest
  <2>3. req[q].pc = "idle"
    BY <2>1 DEF redeem
  <2> HIDE DEF p, served
  <2>4. CASE redeemable(p)
    <3>1. /\ pairing' = [pairing EXCEPT ![p] = [pairing[p] EXCEPT !.status = "paired", !.session = q]]
          /\ minted' = minted \cup {<<p, q>>}
          /\ req' = [req EXCEPT ![q] = served]
      BY <2>1, <2>4 DEF redeem, served
    <3>2. req'[q] = served /\ \A r \in Requests \ {q} : req'[r] = req[r]
      BY <3>1 DEF TypeOK
    <3>3. pairing'[p].status = "paired" /\ \A x \in Pairings \ {p} : pairing'[x] = pairing[x]
      BY <1>4, <3>1 DEF TypeOK, Pairing, p
    <3>4. Level(p)
      BY <3>3 DEF Level, ArmedOn
    <3>5. minted \subseteq minted' /\ <<p, <<q[1], "redeem">>>> \in minted'
      BY <2>1, <3>1
    <3>6. req'[q].pairing = p /\ req'[q].op = "redeem" /\ req'[q].pc = "done"
      BY <2>2, <3>2
    <3>7. p = tab'[q[1]].pairing /\ p # None
      BY <1>1, <1>4 DEF p
    <3>8. Told(q)'
      BY <2>1, <3>5, <3>6, <3>7 DEF Told, Holder
    <3>9. p \in Pairings
      BY <1>4 DEF p
    <3> QED BY <1>1, <1>3, <2>3, <3>2, <3>3, <3>4, <3>5, <3>8, <3>9, OneServed
  <2>5. CASE ~ redeemable(p)
    <3>1. UNCHANGED <<pairing, minted>> /\ req' = [req EXCEPT ![q] = TurnedAway]
      BY <2>1, <2>5 DEF redeem
    <3>2. req'[q] = TurnedAway /\ \A r \in Requests \ {q} : req'[r] = req[r]
      BY <3>1 DEF TypeOK
    <3>3. Serviced(q)
      BY <2>3, <3>2 DEF Serviced
    <3>4. Level(p) /\ \A x \in Pairings \ {p} : pairing'[x] = pairing[x]
      BY <3>1 DEF Level
    <3>5. p \in Pairings /\ minted \subseteq minted'
      BY <1>4, <3>1 DEF p
    <3> QED BY <1>1, <1>3, <3>2, <3>3, <3>4, <3>5, OneServed
  <2> QED BY <2>4, <2>5
<1>8. ASSUME NEW op \in {"before", "verify"}, NEW cart, BridgeRead(q, op, p, s, cart),
             q[2] \in {"before"} \cup Calls, q[2] = "before" <=> op = "before",
             cart = observe(mail[q].doc)
      PROVE  TabInv'
  <2> DEFINE reads == [pc |-> "write", op |-> op, pairing |-> p, session |-> s,
                       cart |-> cart, answer |-> "none"]
  <2>1. req[q].pc = "idle" /\ UNCHANGED minted
    BY <1>8 DEF BridgeRead
  <2>2. \/ req' = [req EXCEPT ![q] = TurnedAway]
        \/ req' = [req EXCEPT ![q] = reads] /\ authorized(p, s)
    BY <1>8 DEF BridgeRead
  <2>3. reads.pc = "write" /\ reads.op = op /\ reads.pairing = p /\ reads.cart = cart
    OBVIOUS
  <2> HIDE DEF reads
  <2>4. /\ req'[q] = TurnedAway \/ (req'[q] = reads /\ authorized(p, s))
        /\ \A r \in Requests \ {q} : req'[r] = req[r]
    BY <2>2 DEF TypeOK
  <2>5. pairing' = pairing \/ pairing' = [pairing EXCEPT ![p] = Expire(p)]
    BY <1>8 DEF BridgeRead
  <2>6. Level(p) /\ \A x \in Pairings \ {p} : pairing'[x] = pairing[x]
    <3> HIDE DEF p
    <3>1. p \in Pairings
      BY <1>4 DEF p
    <3> QED BY <2>5, <3>1, ExpireIsLevel
  <2>7. Serviced(q) \/ (req[q].pc # "done" /\ Told(q)')
    <3>1. CASE req'[q] = TurnedAway
      BY <2>1, <3>1 DEF Serviced
    <3>2. CASE req'[q] = reads /\ authorized(p, s)
      <4>1. <<p, <<q[1], "redeem">>>> \in minted'
        BY <1>5, <2>1, <3>2 DEF authorized, Holder
      <4>2. p = tab'[q[1]].pairing /\ p # None
        BY <1>1, <1>4
      <4>3. q[2] \in Calls =>
               call'[q].doc \in Documents /\ cart = observe(cartObservation(call'[q].doc))
        BY <1>1, <1>2, <1>8 DEF Posted
      <4>4. q[2] # "redeem" /\ (q[2] \in Calls => op = "verify")
        BY <1>8
      <4> HIDE DEF p
      <4>5. Told(q)'
        BY <1>8, <2>3, <3>2, <4>1, <4>2, <4>3, <4>4 DEF Told, Holder
      <4> QED BY <2>1, <4>5
    <3> QED BY <2>4, <3>1, <3>2
  <2> HIDE DEF p, s
  <2>8. p \in Pairings /\ minted \subseteq minted'
    BY <1>4, <2>1 DEF p
  <2> QED BY <1>1, <1>3, <2>4, <2>6, <2>7, <2>8, OneServed
<1>9. CASE capture_initial_cart(q)
  <2>1. BridgeRead(q, "before", p, s, observe(mail[q].doc)) /\ q[2] = "before"
    BY <1>9 DEF capture_initial_cart
  <2> HIDE DEF p, s
  <2> QED BY <1>8, <2>1
<1>10. CASE verify_pairing(q)
  <2>1. BridgeRead(q, "verify", p, s, observe(mail[q].doc)) /\ q[2] \in Calls
    BY <1>10 DEF verify_pairing
  <2> HIDE DEF p, s
  <2> QED BY <1>8, <2>1
<1> QED BY <1>7, <1>9, <1>10 DEF Arrives

\* A request under way is for its sender's trial, by the step it was sent for.
LEMMA ToldUnderWay ==
    ASSUME FlightInv, TabInv, NEW q \in Requests, req[q].pc \in UnderWay
    PROVE  /\ q[1] \in Tabs /\ Holder(q[1], req[q].pairing) /\ req[q].pairing \in Pairings
           /\ req[q].op = "before" => q = <<q[1], "before">>
           /\ req[q].op = "verify" =>
                  /\ q \in Tabs \X Calls /\ call[q].doc \in Documents
                  /\ req[q].cart = observe(cartObservation(call[q].doc)) /\ req[q].cart # None
<1> USE RequestsAre
<1>1. Told(q) /\ req[q].pairing \in Pairings /\ req[q].cart # None
  BY DEF TabInv, FlightInv
<1>2. req[q].pairing # None
  BY <1>1
<1>3. q[1] \in Tabs /\ q = <<q[1], q[2]>> /\ q[2] \in {"redeem", "before"} \cup Calls
      /\ (q[2] \in Calls => q \in Tabs \X Calls)
  OBVIOUS
<1> QED BY <1>1, <1>2, <1>3 DEF Told

\* What the harness goes on to do with a request: it arms on an empty cart, and passes
\* on one that the contract passes.
LEMMA ServesKeeps ==
    ASSUME TypeOK, TypeOK', FlightInv, Safe', FinishedStep, Evidence, TabInv,
           NEW q \in Requests, Serves(q)
    PROVE  TabInv'
<1>1. Replies /\ UNCHANGED <<tab, call, mail>>
  BY DEF Serves, ServerAlone
<1>2. /\ mail' = [r \in Requests |-> mail'[r]]
      /\ \A r \in Requests : mail'[r] \in {mail[r], None}
  BY <1>1 DEF TabInv
<1>3. req[q].pc \in UnderWay
  BY DEF Serves, WriteBefore, WriteVerify, Replay, WriteRefused, Gate, JudgedSeal, Seal, UnderWay
<1> DEFINE p == req[q].pairing
<1>4. p \in Pairings /\ req[q].pc # "done" /\ req[q] \in Request
  BY <1>3 DEF FlightInv, UnderWay, TypeOK
<1>5. ASSUME Refused(q) PROVE TabInv'
  <2>1. req' = [req EXCEPT ![q] = TurnedAway] /\ UNCHANGED <<pairing, minted>>
    BY <1>5 DEF Refused
  <2>2. req'[q] = TurnedAway /\ \A r \in Requests \ {q} : req'[r] = req[r]
    BY <2>1 DEF TypeOK
  <2>3. Serviced(q) /\ Level(p) /\ minted \subseteq minted'
    BY <1>4, <2>1, <2>2 DEF Serviced, Level
  <2> HIDE DEF p
  <2> QED BY <1>1, <1>2, <1>4, <2>1, <2>2, <2>3, OneServed
<1>6. ASSUME NEW answer, Answered(q, answer)
      PROVE  /\ Serviced(q) /\ \A r \in Requests \ {q} : req'[r] = req[r]
             /\ req'[q].pc = "done" /\ req'[q].cart = req[q].cart
  <2> DEFINE ends == [req[q] EXCEPT !.pc = "done", !.answer = answer]
  <2>1. req' = [req EXCEPT ![q] = ends]
    BY <1>6 DEF Answered
  <2>2. /\ ends.pc = "done" /\ ends.pairing = req[q].pairing /\ ends.op = req[q].op
        /\ ends.cart = req[q].cart
    BY <1>4 DEF Request
  <2> HIDE DEF ends
  <2>3. req'[q] = ends /\ \A r \in Requests \ {q} : req'[r] = req[r]
    BY <2>1 DEF TypeOK
  <2> QED BY <1>3, <2>2, <2>3 DEF Serviced
<1>7. ASSUME NEW pc \in {"gate", "seal"}, req' = [req EXCEPT ![q].pc = pc]
      PROVE  Serviced(q) /\ \A r \in Requests \ {q} : req'[r] = req[r]
  <2> DEFINE goes == [req[q] EXCEPT !.pc = pc]
  <2>1. req' = [req EXCEPT ![q] = goes]
    BY <1>7 DEF TypeOK
  <2>2. /\ goes.pc = pc /\ goes.pairing = req[q].pairing /\ goes.op = req[q].op
        /\ goes.cart = req[q].cart
    BY <1>4 DEF Request
  <2> HIDE DEF goes
  <2>3. req'[q] = goes /\ \A r \in Requests \ {q} : req'[r] = req[r]
    BY <2>1 DEF TypeOK
  <2> QED BY <1>3, <2>2, <2>3 DEF Serviced
<1>8. CASE WriteBefore(q)
  <2>1. /\ pairing' = [pairing EXCEPT ![p] = [pairing[p] EXCEPT !.status = "armed", !.run = p]]
        /\ Answered(q, "captured") /\ UNCHANGED minted
        /\ req[q].op = "before" /\ req[q].cart = Empty
    BY <1>8 DEF WriteBefore, ArmsRun
  <2>2. /\ Serviced(q) /\ \A r \in Requests \ {q} : req'[r] = req[r]
        /\ req'[q].pc = "done" /\ req'[q].cart = Empty
    BY <1>6, <2>1
  <2>3. pairing'[p].status = "armed" /\ \A x \in Pairings \ {p} : pairing'[x] = pairing[x]
    BY <1>4, <2>1 DEF TypeOK, Pairing
  <2>4. q[1] \in Tabs /\ q = <<q[1], "before">> /\ Holder(q[1], p)
    BY <1>3, <2>1, ToldUnderWay
  <2> HIDE DEF p
  <2>5. \E t \in Tabs : /\ <<p, <<t, "redeem">>>> \in minted'
                        /\ req'[<<t, "before">>].pc = "done"
                        /\ req'[<<t, "before">>].cart = Empty
    <3>1. /\ <<p, <<q[1], "redeem">>>> \in minted' /\ req'[<<q[1], "before">>].pc = "done"
          /\ req'[<<q[1], "before">>].cart = Empty
      BY <2>1, <2>2, <2>4 DEF Holder
    <3> QED BY <2>4, <3>1
  <2>6. ASSUME NEW x \in Pairings, x = p PROVE Grounded(x)'
    BY <2>3, <2>5, <2>6 DEF Grounded, ArmedBy, Holder
  <2>7. ASSUME NEW x \in Pairings PROVE Level(x) \/ Grounded(x)'
    <3>1. CASE x = p
      BY <2>6, <3>1
    <3>2. CASE x # p
      BY <2>3, <3>2 DEF Level
    <3> QED BY <3>1, <3>2
  <2>8. ASSUME NEW r \in Requests PROVE Serviced(r)
    BY <2>2 DEF Serviced
  <2> QED BY <1>1, <1>2, <2>1, <2>7, <2>8, HarnessKeeps
<1>9. CASE WriteVerify(q)
  <2>1. /\ req' = [req EXCEPT ![q].pc = "gate"] /\ UNCHANGED minted
        /\ pairing' = [pairing EXCEPT ![p].status = "verifying"]
        /\ require_transition(p, "verifying")
    BY <1>9 DEF WriteVerify, AcceptsAfter
  <2>2. Serviced(q) /\ \A r \in Requests \ {q} : req'[r] = req[r]
    BY <1>7, <2>1
  <2>3. pairing[p].status = "armed"
    BY <1>3, <1>4, <2>1, PermittedFrom DEF FlightInv
  <2>4. pairing'[p].status = "verifying" /\ \A x \in Pairings \ {p} : pairing'[x] = pairing[x]
    BY <1>4, <2>1, StatusMoved, PairingStatuses
  <2>5. Level(p)
    BY <2>3, <2>4 DEF Level, ArmedOn
  <2> HIDE DEF p
  <2> QED BY <1>1, <1>2, <1>4, <2>1, <2>2, <2>4, <2>5, OneServed
<1>10. CASE Replay(q)
  <2>1. Answered(q, "replayed") /\ UNCHANGED <<pairing, minted>>
    BY <1>10 DEF Replay
  <2>2. Serviced(q) /\ \A r \in Requests \ {q} : req'[r] = req[r]
    BY <1>6, <2>1
  <2>3. Level(p) /\ minted \subseteq minted'
    BY <2>1 DEF Level
  <2> HIDE DEF p
  <2> QED BY <1>1, <1>2, <1>4, <2>1, <2>2, <2>3, OneServed
<1>11. CASE WriteRefused(q)
  BY <1>5, <1>11 DEF WriteRefused
<1>12. CASE Gate(q)
  <2>1. CASE run[p] = "running"
    <3>1. req' = [req EXCEPT ![q].pc = "seal"] /\ UNCHANGED <<pairing, minted>>
      BY <1>12, <2>1 DEF Gate
    <3>2. Serviced(q) /\ \A r \in Requests \ {q} : req'[r] = req[r]
      BY <1>7, <3>1
    <3>3. Level(p) /\ minted \subseteq minted'
      BY <3>1 DEF Level
    <3> HIDE DEF p
    <3> QED BY <1>1, <1>2, <1>4, <3>1, <3>2, <3>3, OneServed
  <2>2. CASE run[p] # "running"
    BY <1>5, <1>12, <2>2 DEF Gate
  <2> QED BY <2>1, <2>2
<1>13. CASE JudgedSeal(q)
  <2> DEFINE seals == run[p] = "verifying" /\ ArtifactRows < ArtifactRoom /\ on_seal(p)
  <2>1. CASE seals
    <3>1. PICK result \in VERDICT_RUN_STATES :
              /\ run' = [run EXCEPT ![p] = result]
              /\ pairing' = [pairing EXCEPT ![p].status = result]
              /\ Answered(q, "captured") /\ UNCHANGED minted
      BY <1>13, <2>1 DEF JudgedSeal, Seal
    <3>2. p \in RunIds /\ result \in PairingStatus /\ result # "verifying"
      BY <1>4, RunStates, PairingStatuses DEF RunIds
    <3>3. result = verdict(req[q].cart)
      <4>1. run'[p] = result /\ run[p] = "verifying"
        BY <2>1, <3>1, <3>2 DEF TypeOK
      <4> QED BY <1>13, <3>2, <4>1 DEF JudgedSeal
    <3>4. /\ pairing'[p].status = result
          /\ \A x \in Pairings \ {p} : pairing'[x] = pairing[x]
      BY <1>4, <3>1, <3>2, StatusMoved
    <3>5. /\ Serviced(q) /\ \A r \in Requests \ {q} : req'[r] = req[r]
      BY <1>6, <3>1
    <3>6. pairing[p].status = "verifying"
      BY <2>1 DEF on_seal
    <3>7. req[q].op = "verify"
      BY <1>13 DEF JudgedSeal, Seal, Evidence, OnlyFinal
    <3>8. /\ q \in Tabs \X Calls /\ call[q].doc \in Documents /\ Holder(q[1], p)
          /\ req[q].cart = observe(cartObservation(call[q].doc)) /\ req[q].cart # None
      BY <1>3, <3>7, ToldUnderWay
    <3>9. result = "passed" => (CountsUnits => HoldsExactlyTheVariant(call[q].doc))
      BY <3>3, <3>8, ExactCart
    <3> HIDE DEF p
    <3>10. ASSUME NEW r \in Requests PROVE Serviced(r)
      BY <3>5 DEF Serviced
    <3>11. \A r \in Requests : req[r].pc = "done" => req'[r] = req[r]
      BY <3>10 DEF Serviced, UnderWay
    <3>12. ASSUME NEW x \in Pairings, x = p PROVE Grounded(x)'
      <4>1. /\ \A t \in Tabs : ArmedBy(t, x) => ArmedBy(t, x)'
            /\ \A i \in Tabs \X Calls : PassedBy(i, x) => PassedBy(i, x)'
        BY <1>1, <3>1, <3>11, GroundStays
      <4>2. \E t \in Tabs : ArmedBy(t, x)
        BY <3>6, <3>12 DEF TabInv, Grounded, ArmedOn
      <4>3. pairing'[x].status = result
        BY <3>4, <3>12
      <4>4. result = "passed" => PassedBy(q, x)
        BY <3>8, <3>9, <3>12 DEF PassedBy
      <4> QED BY <3>8, <4>1, <4>2, <4>3, <4>4 DEF Grounded
    <3>13. ASSUME NEW x \in Pairings PROVE Level(x) \/ Grounded(x)'
      <4>1. CASE x = p
        BY <3>12, <4>1
      <4>2. CASE x # p
        BY <3>4, <4>2 DEF Level
      <4> QED BY <4>1, <4>2
    <3> QED BY <1>1, <1>2, <3>1, <3>10, <3>13, HarnessKeeps
  <2>2. CASE ~ seals
    BY <1>5, <1>13, <2>2 DEF JudgedSeal, Seal
  <2> QED BY <2>1, <2>2
<1> QED BY <1>8, <1>9, <1>10, <1>11, <1>12, <1>13 DEF Serves

\* What the operator, the clock and a restart do arms no trial and passes none.
LEMMA OperatesKeeps ==
    ASSUME TypeOK, TypeOK', FlightInv, Safe', FinishedStep, TabInv, Operates
    PROVE  TabInv'
<1>1. Replies /\ UNCHANGED <<tab, call, mail>>
  BY DEF Operates, ServerAlone
<1>2. /\ mail' = [r \in Requests |-> mail'[r]]
      /\ \A r \in Requests : mail'[r] \in {mail[r], None}
  BY <1>1 DEF TabInv
<1>3. ASSUME UNCHANGED minted, \A r \in Requests : Serviced(r), \A x \in Pairings : Level(x)
      PROVE  TabInv'
  BY <1>1, <1>2, <1>3, HarnessKeeps
<1>4. ASSUME NEW p \in Pairings, create(p) \/ Lapse(p) \/ OperatorGate(p) \/ OperatorAbandon(p)
      PROVE  TabInv'
  <2>1. UNCHANGED <<req, minted>>
    BY <1>4 DEF create, Lapse, OperatorGate, OperatorAbandon
  <2>2. ASSUME NEW x \in Pairings PROVE Level(x)
    <3>1. CASE create(p)
      <4>1. pairing' = [pairing EXCEPT ![p].status = "created"]
        BY <3>1 DEF create
      <4>2. pairing'[p].status = "created" /\ \A y \in Pairings \ {p} : pairing'[y] = pairing[y]
        BY <4>1, StatusMoved, PairingStatuses
      <4> QED BY <4>2 DEF Level, ArmedOn
    <3>2. CASE Lapse(p)
      <4>1. pairing' = [pairing EXCEPT ![p].lifetime = "elapsed"]
        BY <3>2 DEF Lapse
      <4>2. pairing'[x].status = pairing[x].status
        BY <4>1 DEF TypeOK, Pairing
      <4> QED BY <4>2 DEF Level
    <3>3. CASE OperatorGate(p) \/ OperatorAbandon(p)
      BY <3>3 DEF OperatorGate, OperatorAbandon, Level
    <3> QED BY <1>4, <3>1, <3>2, <3>3
  <2> QED BY <1>3, <2>1, <2>2 DEF Serviced
<1>5. ASSUME NEW purge \in BOOLEAN, Reset(purge) PROVE TabInv'
  <2>1. UNCHANGED <<req, minted>>
    BY <1>5 DEF Reset
  <2>2. ASSUME NEW x \in Pairings PROVE Level(x)
    <3> DEFINE closed == cancel_live_shopify_pairing(x)
    <3>1. closed \in Pairing /\ closed.status \in {pairing[x].status, "cancelled"}
      <4> DEFINE dropped == [pairing[x] EXCEPT !.status = "cancelled", !.session = None]
      <4>1. pairing[x] \in Pairing
        BY DEF TypeOK
      <4>2. dropped \in Pairing /\ dropped.status = "cancelled"
        BY <4>1, PairingStatuses DEF Pairing
      <4> HIDE DEF dropped
      <4>3. closed = dropped \/ closed = pairing[x]
        BY DEF cancel_live_shopify_pairing, dropped
      <4> QED BY <4>1, <4>2, <4>3
    <3>2. [closed EXCEPT !.run = None].status = closed.status
      <4> HIDE DEF closed
      <4> QED BY <3>1 DEF Pairing
    <3>3. pairing'[x] \in {closed, [closed EXCEPT !.run = None]}
      BY <1>5 DEF Reset, deleted_run
    <3> HIDE DEF closed
    <3> QED BY <3>1, <3>2, <3>3 DEF Level, ArmedOn
  <2> QED BY <1>3, <2>1, <2>2 DEF Serviced
<1>6. CASE Crash
  <2>1. UNCHANGED <<pairing, minted>>
    BY <1>6 DEF Crash
  <2>2. ASSUME NEW r \in Requests PROVE Serviced(r)
    BY <1>6 DEF Crash, Serviced
  <2> QED BY <1>3, <2>1, <2>2 DEF Level
<1> QED BY <1>4, <1>5, <1>6 DEF Operates

\* What arrives is a call of the pairing service: its session is one that was handed
\* out, or none, and its cart one that a body has, or none.
LEMMA ArrivesIsBridge ==
    ASSUME TabInv, NEW q \in Requests, Arrives(q)
    PROVE  Bridge(q)
<1> USE RequestsAre
<1> DEFINE p == mail[q].pairing
           s == mail[q].session
<1>1. mail[q] # None /\ Posted(q)
  BY DEF Arrives, TabInv
<1>2. p \in Pairings
  BY <1>1 DEF Posted, Message
<1>3. s \in {c[2] : c \in minted} \cup {None}
  <2>1. CASE s = None
    BY <2>1
  <2>2. CASE s # None
    <3>1. s = <<q[1], "redeem">> /\ <<p, <<q[1], "redeem">>>> \in minted
      BY <1>1, <2>2 DEF Posted, Holder
    <3>2. <<p, <<q[1], "redeem">>>>[2] = s
      BY <3>1
    <3> QED BY <3>1, <3>2
  <2> QED BY <2>1, <2>2
<1>4. q[2] \in {"before"} \cup Calls => observe(mail[q].doc) \in Carts \cup {None}
  <2>1. Carts = {observe(cartObservation(d)) : d \in Documents} \ {None}
    BY TabAssumption
  <2>2. q[2] \in {"before"} \cup Calls => mail[q].doc \in {cartObservation(d) : d \in Documents}
    BY <1>1 DEF Posted
  <2> QED BY <2>1, <2>2
<1> HIDE DEF p, s
<1>5. CASE redeem_pairing(q)
  BY <1>2, <1>5 DEF redeem_pairing, Bridge, p
<1>6. ASSUME NEW op \in {"before", "verify"}, NEW cart \in Carts \cup {None},
             BridgeRead(q, op, p, s, cart)
      PROVE  Bridge(q)
  BY <1>2, <1>3, <1>6 DEF Bridge
<1>7. CASE capture_initial_cart(q)
  BY <1>4, <1>6, <1>7 DEF capture_initial_cart, p, s
<1>8. CASE verify_pairing(q)
  BY <1>4, <1>6, <1>8 DEF verify_pairing, p, s
<1> QED BY <1>5, <1>7, <1>8 DEF Arrives

\* Every step with tabs is a step of the pairing service, or none of it.
LEMMA TabSimulates ==
    ASSUME TabInv, [TabNext]_tabVars
    PROVE  [Next]_vars
<1>1. ASSUME NEW t \in Tabs, Launch(t) \/ Starts(t) \/ Expires(t) \/ Closes(t)
      PROVE  UNCHANGED vars
  BY <1>1 DEF Launch, Starts, Redeemed, ReadsCart, SendsBefore, Arms, StartFails, Expires, Closes,
              TabAlone
<1>2. ASSUME NEW t \in Tabs, NEW c \in Calls, Invoke(t, c) \/ Verifies(t, c)
      PROVE  UNCHANGED vars
  BY <1>2 DEF Invoke, Verifies, CallReads, CallSends, Verified, CallFails, TabAlone
<1>3. ASSUME NEW q \in Requests, Arrives(q) \/ Serves(q)
      PROVE  Next
  <2>1. Bridge(q)
    BY <1>3, ArrivesIsBridge DEF Serves, JudgedSeal, Bridge
  <2> QED BY <2>1 DEF Next
<1>4. ASSUME Operates PROVE Next
  BY <1>4 DEF Operates, Next
<1>5. CASE UNCHANGED tabVars
  BY <1>5 DEF tabVars, vars
<1> QED BY <1>1, <1>2, <1>3, <1>4, <1>5 DEF TabNext

\* The whole step.
LEMMA TabStep ==
    ASSUME TypeOK, FlightInv, Safe, Evidence, TabInv, [TabNext]_tabVars
    PROVE  TypeOK' /\ FlightInv' /\ Safe' /\ Evidence' /\ TabInv'
<1>1. [Next]_vars
  BY TabSimulates
<1>2. TypeOK' /\ FlightInv' /\ Safe' /\ FinishedStep /\ Evidence'
  BY <1>1, TypeStep, SafeStep, EvidenceStep
<1>3. ASSUME NEW t \in Tabs, Launch(t) \/ Starts(t) \/ Expires(t) \/ Closes(t)
      PROVE  TabInv'
  BY <1>3, LaunchKeeps, RedeemedKeeps, ReadsCartKeeps, SendsBeforeKeeps, ArmsKeeps,
     StartFailsKeeps, ExpiresKeeps, ClosesKeeps DEF Starts
<1>4. ASSUME NEW t \in Tabs, NEW c \in Calls, Invoke(t, c) \/ Verifies(t, c)
      PROVE  TabInv'
  BY <1>4, InvokeKeeps, CallSendsKeeps, CallEnds DEF Verifies
<1>5. ASSUME NEW q \in Requests, Arrives(q) \/ Serves(q) PROVE TabInv'
  BY <1>2, <1>5, ArrivesKeeps, ServesKeeps
<1>6. ASSUME Operates PROVE TabInv'
  BY <1>2, <1>6, OperatesKeeps
<1>7. ASSUME UNCHANGED tabVars PROVE TabInv'
  <2>1. UNCHANGED <<vars, reply>> /\ UNCHANGED <<tab, call, mail>>
    BY <1>7 DEF tabVars, vars
  <2>2. /\ tab' \in [Tabs -> Tab] /\ call' \in [Tabs \X Calls -> CallRecord]
        /\ mail' = [q \in Requests |-> mail'[q]]
        /\ \A i \in Tabs \X Calls : InCall(i)'
    BY <2>1 DEF TabInv, InCall
  <2>3. \A t \in Tabs : InTab(t)'
    BY <2>1 DEF TabInv, InTab, Unopened, Fit, Holder, vars
  <2> QED BY <2>1, <2>2, <2>3, TabsKeep
<1>8. TabInv'
  BY <1>3, <1>4, <1>5, <1>6, <1>7 DEF TabNext
<1> QED BY <1>2, <1>8

\* At first no tab has opened the link, and nothing is on its way.
LEMMA TabStarts == TabInit => Init /\ TypeOK /\ FlightInv /\ Safe /\ Evidence /\ TabInv
<1> SUFFICES ASSUME TabInit PROVE Init /\ TypeOK /\ FlightInv /\ Safe /\ Evidence /\ TabInv
  OBVIOUS
<1> USE RequestsAre
<1>1. Init /\ TypeOK /\ FlightInv /\ Safe /\ Evidence
  BY StartsWell, EvidenceStarts DEF TabInit
<1> DEFINE b == [at |-> "off", state |-> "idle", pairing |-> None, session |-> None,
                 offered |-> FALSE, timer |-> FALSE, doc |-> None]
           k == [at |-> "off", doc |-> None]
<1>2. /\ b \in Tab /\ b.at = "off" /\ b.state = "idle" /\ b.pairing = None /\ b.session = None
      /\ ~ b.timer /\ ~ b.offered
  BY DEF Tab
<1>3. k \in CallRecord /\ k.at = "off" /\ k.doc = None
  BY DEF CallRecord
<1> HIDE DEF b, k
<1>4. /\ tab = [t \in Tabs |-> b] /\ call = [i \in Tabs \X Calls |-> k]
      /\ mail = [q \in Requests |-> None]
  BY DEF TabInit, b, k
<1>5. tab \in [Tabs -> Tab] /\ call \in [Tabs \X Calls -> CallRecord]
      /\ mail = [q \in Requests |-> mail[q]]
  BY <1>2, <1>3, <1>4
<1>6. \A t \in Tabs : InTab(t)
  BY <1>2, <1>3, <1>4 DEF InTab, Unopened
<1>7. \A i \in Tabs \X Calls : InCall(i)
  BY <1>3, <1>4 DEF InCall
<1>8. \A q \in Requests : Posted(q)
  BY <1>4 DEF Posted
<1>9. \A q \in Requests : req[q].pc = "idle" /\ req[q].pairing = None
  BY <1>1 DEF Init, NoRequest
<1>10. \A q \in Requests : Told(q) /\ Replied(q)
  BY <1>9 DEF Told, Replied, Accepted
<1>11. \A p \in Pairings : Grounded(p)
  BY <1>1 DEF Init, NoPairing, Grounded, ArmedOn
<1> QED BY <1>1, <1>5, <1>6, <1>7, <1>8, <1>10, <1>11, RequestsAre DEF TabInv

\* The theme bridge in its tabs only ever has the pairing service do what it does: the
\* credentials a tab presents were handed out, the carts it sends are of bodies, and
\* the verdict that seals a run is one the seal may give.
THEOREM TabsUseTheService == TabSpec => Spec
<1> DEFINE IInv == TypeOK /\ FlightInv /\ Safe /\ Evidence /\ TabInv
<1>1. TabInit => Init /\ IInv
  BY TabStarts
<1>2. IInv /\ [TabNext]_tabVars => IInv'
  BY TabStep
<1>3. IInv /\ [TabNext]_tabVars => [Next]_vars
  BY TabSimulates
<1> QED BY <1>1, <1>2, <1>3, PTL DEF TabSpec, Spec

\* verify: whatever expired, was lost, reset or called twice, a passed or failed that a
\* tab shows is the verdict the harness sealed, and a tab that shows passed armed its
\* trial on an empty cart and read a body that holds the variant once and nothing else.
THEOREM ShownIsAlwaysTrue == ASSUME CountsUnits PROVE TabSpec => []ShownIsTrue
<1> DEFINE IInv == TypeOK /\ FlightInv /\ Safe /\ Evidence /\ TabInv
<1>1. TabInit => IInv
  BY TabStarts
<1>2. IInv /\ [TabNext]_tabVars => IInv'
  BY TabStep
<1>3. IInv => ShownIsTrue
  BY ShownFrom DEF Safe
<1> QED BY <1>1, <1>2, <1>3, PTL DEF TabSpec
==============================================================================
