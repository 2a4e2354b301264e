------------------------------- MODULE MCVerdict -------------------------------
(***************************************************************************)
(* A cart with a total, a coupon and a delivery note, two tools, and three  *)
(* contracts that between them hold every kind of term.                     *)
(***************************************************************************)
EXTENDS Verdict, TLC

Total == <<"target", "cart", "total">>
Coupon == <<"target", "cart", "coupon">>
Note == <<"target", "note">>

Money(text, dec) == [type |-> "string", text |-> text, dec |-> dec, plain |-> TRUE]
Text(text) == [type |-> "string", text |-> text, dec |-> None, plain |-> FALSE]

S0 == Total :> Money("20.00", 20) @@ Note :> Text("door")
S1 == Total :> Money("30.00", 30) @@ Note :> Text("door") @@ Coupon :> Text("SAVE")
S2 == Total :> Money("20.0", 20) @@ Note :> Text("desk")

MCStates == {S0, S1, S2}
MCEffects == [edit |-> {Total, Coupon}, pay |-> {<<"target", "order">>}]
MCTools == {"edit", "pay"}

Definition(description, schema) == [description |-> description, hints |-> "h", schema |-> schema]
MCArmed == "edit" :> Definition("d0", "s0")
MCSurfaces == {MCArmed, "edit" :> Definition("d1", "s0"),
               "edit" :> Definition("d0", "s1"), <<>>}

Asserts(id, path, op, value, severity) ==
    [id |-> id, path |-> path, op |-> op, value |-> value, severity |-> severity]

Outcome ==
    [preconditions |-> {[path |-> Total, op |-> "equals", value |-> Total :> Money("20.00", 20)]},
     assertions |-> {Asserts("a_total", Total, "changed_by", 10, "critical")},
     expected |-> [ordered |-> TRUE, calls |-> <<"edit", "pay">>],
     policies |-> {[type |-> "requires_confirmation", tool |-> "pay"],
                   [type |-> "no_undeclared_changes", allow |-> <<>>]}]

Repeats ==
    [preconditions |-> {},
     assertions |-> {Asserts("a_total", Total, "unchanged", None, "warning"),
                     Asserts("b_note", Note, "exists", None, "info")},
     expected |-> None,
     policies |-> {[type |-> "idempotent_by_request_id", tool |-> "edit"],
                   [type |-> "maximum_mutations", limit |-> 1]}]

Surface ==
    [preconditions |-> {},
     assertions |-> {Asserts("b_note", <<"target", "cart">>, "count_equals", 1, "info")},
     expected |-> None,
     policies |-> {[type |-> "stable_tool_surface", kinds |-> DefaultFailingKinds],
                   [type |-> "forbidden_tool", tool |-> "pay"]}]

MCContracts == {Outcome, Repeats, Surface}

\* the ids of the contracts' terms, as Python sorts them
MCCheckOrder ==
    <<"a_total", "b_note", "expected_tools", "forbidden_tool", "idempotent_by_request_id",
      "maximum_mutations", "no_undeclared_changes", "requires_confirmation",
      "stable_tool_surface", "tool_execution">>

\* Nothing but the surface policy reads a capture, so captures are explored under
\* the contract that has it, beside one call.
Focus ==
    IF contract = Surface THEN Cardinality({c \in Calls : call[c].pc # "idle"}) <= 1
    ELSE page = Armed /\ captured = <<>>

Symmetry == Permutations(Calls)

================================================================================
