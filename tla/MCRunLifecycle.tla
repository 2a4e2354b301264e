---------------------------- MODULE MCRunLifecycle ----------------------------
(***************************************************************************)
(* RunLifecycle on small instances.                                         *)
(***************************************************************************)
EXTENDS RunRefinesApproveOnce, TLC

\* requests, arguments and runs are interchangeable; states are not, one is the seed
Symmetry == Permutations(Requests) \cup Permutations(Args) \cup Permutations(Runs)
==================================================================================
