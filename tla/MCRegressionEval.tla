---------------------------- MODULE MCRegressionEval ----------------------------
(***************************************************************************)
(* A store of a total, an order and a delivery note, with the failure       *)
(* profiles of the demo store: a repeated request applied twice, a payment  *)
(* taken without consent, a note rewritten on the side, and a success that  *)
(* changed nothing.  Undoing an edit forgets its request in every build, so *)
(* that the current one fails its contract too when the request returns.    *)
(***************************************************************************)
EXTENDS RegressionEval, TLC

Total == <<"target", "cart", "total">>
Order == <<"target", "order">>
Note == <<"target", "note">>

Money(n) == [type |-> "string", text |-> ToString(n), dec |-> n, plain |-> TRUE]
Text(text) == [type |-> "string", text |-> text, dec |-> None, plain |-> FALSE]

MCSeed == Total :> Money(20) @@ Note :> Text("door")
Desk == Total :> Money(20) @@ Note :> Text("desk")
Emptied == Total :> Money(0) @@ Note :> Text("door")

MCBeginnings == {MCSeed, Desk, Emptied}

MCTools == {"edit", "undo", "pay", "look"}
MCEffects == [edit |-> {Total}, undo |-> {Total}, pay |-> {Order}, look |-> {}]

Dearer(state) == [state EXCEPT ![Total] = Money(state[Total].dec + 10)]

Answer(t, state, rid, reported) ==
    [target |-> [state |-> state, seen |-> t.seen \cup {rid}], reported |-> reported]

Edit(scenario, t, rid) ==
    IF rid \in t.seen /\ scenario # "applied_twice" THEN Answer(t, t.state, rid, "already_applied")
    ELSE IF scenario = "false_success" THEN Answer(t, t.state, rid, "success")
    ELSE IF scenario = "undeclared" THEN
        Answer(t, [Dearer(t.state) EXCEPT ![Note] = Text("shed")], rid, "success")
    ELSE Answer(t, Dearer(t.state), rid, "success")

Undo(t, rid) ==
    IF t.seen = {} \/ t.state[Total].dec = 0 THEN Answer(t, t.state, rid, "already_applied")
    ELSE [target |-> Fresh([t.state EXCEPT ![Total] = Money(@.dec - 10)]),
          reported |-> "success"]

Pay(scenario, t, rid, granted) ==
    IF ~granted /\ scenario # "unconsented" THEN Answer(t, t.state, rid, "blocked_by_user")
    ELSE IF Order \in DOMAIN t.state THEN Answer(t, t.state, rid, "raised")
    ELSE Answer(t, t.state @@ Order :> Text("placed"), rid, "success")

MCBehave(scenario, tool, t, rid, granted) ==
    CASE tool = "edit" -> Edit(scenario, t, rid)
      [] tool = "undo" -> Undo(t, rid)
      [] tool = "pay" -> Pay(scenario, t, rid, granted)
      [] tool = "look" -> Answer(t, t.state, rid, "success")

Asserts(id, path, op, value, severity) ==
    [id |-> id, path |-> path, op |-> op, value |-> value, severity |-> severity]

Costs ==
    [preconditions |-> {},
     assertions |-> {Asserts("a_total", Total, "changed_by", 10, "critical")},
     expected |-> None,
     policies |-> {[type |-> "idempotent_by_request_id", tool |-> "edit"],
                   [type |-> "maximum_mutations", limit |-> 1]}]

\* a limit on a request alone, as the shipped templates have it
Repeats ==
    [preconditions |-> {},
     assertions |-> {Asserts("a_total", Total, "changed_by", 10, "critical")},
     expected |-> None,
     policies |-> {[type |-> "idempotent_by_request_id", tool |-> "edit"]}]

Pays ==
    [preconditions |-> {},
     assertions |-> {Asserts("a_total", Order, "exists", None, "warning"),
                     Asserts("b_note", Note, "unchanged", None, "critical")},
     expected |-> None,
     policies |-> {[type |-> "requires_confirmation", tool |-> "pay"],
                   [type |-> "no_undeclared_changes", allow |-> <<>>]}]

Shows ==
    [preconditions |-> {},
     assertions |-> {Asserts("a_total", Total, "unchanged", None, "critical")},
     expected |-> [ordered |-> TRUE, calls |-> <<"look", "edit">>],
     policies |-> {[type |-> "stable_tool_surface", kinds |-> DefaultFailingKinds],
                   [type |-> "forbidden_tool", tool |-> "pay"]}]

\* edit declares the total it moves; the note is watched
Declares ==
    [preconditions |-> {},
     assertions |-> {Asserts("b_note", Note, "unchanged", None, "critical")},
     expected |-> None,
     policies |-> {[type |-> "no_undeclared_changes", allow |-> <<>>]}]

ParityContracts == {Declares}

MCContracts == {Costs, Repeats, Pays, Shows}

MCCheckOrder ==
    <<"a_total", "b_note", "expected_tools", "forbidden_tool", "idempotent_by_request_id",
      "maximum_mutations", "no_undeclared_changes", "requires_confirmation",
      "stable_tool_surface", "tool_execution">>

\* Captures are explored under the contract that reads them, beside one call,
\* the other states a run may begin in under the contracts they tell apart, and
\* replays side by side for runs of one call.  Three calls are explored, and
\* undone, under the contract that limits a request alone, by one replay each.
Focus ==
    /\ IF run.contract = Repeats
       THEN /\ run.initial = Seed /\ run.scenario \in {"applied_twice", "false_success"}
            /\ \A n \in DOMAIN run.decisions : run.decisions[n].tool \in {"edit", "undo"}
            /\ Cardinality({e \in Evals : eval[e].pc # "idle"}) <= 1
       ELSE /\ Len(run.decisions) <= 2
            /\ \A n \in DOMAIN run.decisions : run.decisions[n].tool # "undo"
    /\ SurfaceEvents # {} => run.contract = Shows /\ Len(run.decisions) <= 1
    /\ run.initial = Emptied => run.contract = Costs
    /\ run.initial = Desk => run.contract # Shows
    /\ (\A e \in Evals : eval[e].pc # "idle") => Len(run.decisions) <= 1 /\ SurfaceEvents = {}

Symmetry == Permutations(Evals)

================================================================================
