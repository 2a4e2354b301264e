------------------------------- MODULE ApproveOnce -------------------------------
(***************************************************************************)
(* What the confirmation gate promises, without runs, timelines, handlers   *)
(* or a database: consent is asked for, a human grants it, it may be        *)
(* withdrawn, and a granted consent is spent by at most one mutation, after *)
(* it was granted.                                                          *)
(***************************************************************************)
EXTENDS Naturals

CONSTANT Confirmations

VARIABLES
    consent,     \* how far each confirmation has come
    mutations    \* how many mutations were made on each

Stages == {"unasked", "asked", "granted", "closed", "spent", "mutated"}

Init ==
    /\ consent = [c \in Confirmations |-> "unasked"]
    /\ mutations = [c \in Confirmations |-> 0]

\* consent[c] moves from a stage of the set `from` to the stage `to`
Move(c, from, to) ==
    /\ consent[c] \in from
    /\ consent' = [consent EXCEPT ![c] = to]

Ask(c) == Move(c, {"unasked"}, "asked") /\ UNCHANGED mutations

Grant(c) == Move(c, {"asked"}, "granted") /\ UNCHANGED mutations

Spend(c) == Move(c, {"granted"}, "spent") /\ UNCHANGED mutations

Mutate(c) ==
    /\ Move(c, {"spent"}, "mutated")
    /\ mutations' = [mutations EXCEPT ![c] = @ + 1]

\* a workspace reset withdraws any number of unspent confirmations at once
Withdraw(C) ==
    /\ \A c \in C : consent[c] \in {"asked", "granted"}
    /\ consent' = [c \in Confirmations |-> IF c \in C THEN "closed" ELSE consent[c]]
    /\ UNCHANGED mutations

Next ==
    \/ \E c \in Confirmations : Ask(c) \/ Grant(c) \/ Spend(c) \/ Mutate(c)
    \/ \E C \in SUBSET Confirmations : Withdraw(C)

Spec == Init /\ [][Next]_<<consent, mutations>>
==================================================================================
