------------------------------ MODULE MCBenchmarks ------------------------------
(***************************************************************************)
(* Three small reports, some of whose trials have no address of their own,  *)
(* and two requests at once.                                                *)
(***************************************************************************)
EXTENDS Benchmarks, TLC

Raw(test, index, call, steps) == [test |-> test, index |-> index, call |-> call, steps |-> steps]

\* the trials of the third share an address, so both get a position
MCReports ==
    {<<Raw("buy", 1, "passed", TRUE)>>,
     <<Raw(None, 1, "failed", FALSE)>>,
     <<Raw("buy", 1, "error", TRUE), Raw("buy", 1, "passed", FALSE)>>}

MCProposals == {<<"reword">>, <<"reword", "flagged">>, <<"blank">>, <<"canonical", "canonical">>}

\* The browser runs matter only to a suite that binds them, and there they may
\* end in every way.  A replayed trial passes or fails; a second repetition, a
\* frozen set and a second imported trial are not needed all at once.
Focus ==
    suite.mode = "imported_trajectory_replay" =>
        /\ \A r \in Runs : runs[r].status = "armed"
        /\ \A e \in DOMAIN evalruns : evalruns[e].result # "passed_with_warnings"
        /\ suite.frozen # None => evalruns = <<>> /\ Cardinality(Present) <= 2
        /\ Cardinality(Present) > 2 => Len(evalruns) <= 1
        /\ (\E t \in Present : t.rep > 0) => Cardinality({t \in Present : t.rep = 0}) = 1
        /\ Cardinality(Present) > 2 /\ (\A t \in Present : t.rep = 0) => evalruns = <<>>

Symmetry == Permutations(Requests) \cup Permutations(Runs)
=============================================================================
