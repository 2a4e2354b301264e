-------------------------- MODULE RunRefinesApproveOnce --------------------------
(***************************************************************************)
(* RunLifecycle implements ApproveOnce: the confirmation rows, the claims   *)
(* and the calls that reach the adapter, read as stages of consent.         *)
(***************************************************************************)
EXTENDS RunLifecycle

\* a confirmation that was spent stays so when a purge deletes its row
Stage(c) ==
    IF \E q \in mutated : req[q].resume = c THEN "mutated"
    ELSE IF conf[c].claimer # None THEN "spent"
    ELSE CASE conf[c].status = "none"     -> "unasked"
           [] conf[c].status = "pending"  -> "asked"
           [] conf[c].status = "approved" -> "granted"
           [] OTHER                       -> "closed"

Consent == INSTANCE ApproveOnce
    WITH Confirmations <- Requests,
         consent <- [c \in Requests |-> Stage(c)],
         mutations <- [c \in Requests |-> Cardinality({q \in mutated : req[q].resume = c})]

\* Every step of the run lifecycle is a step of the consent protocol, or leaves it
\* alone: nothing is spent that was not granted, nothing mutates twice on one
\* consent, and no decided consent is reopened.
ImplementsApproveOnce == Consent!Spec
==================================================================================
