----------------------------- MODULE MCBuggyStore -----------------------------
(***************************************************************************)
(* BuggyStore on small instances.                                           *)
(***************************************************************************)
EXTENDS BuggyStore, TLC

\* confirmations, keys and dispatches are interchangeable
Symmetry == Permutations(Confs) \cup Permutations(Keys) \cup Permutations(Calls)
===============================================================================
