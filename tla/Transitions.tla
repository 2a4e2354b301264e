------------------------------- MODULE Transitions -------------------------------
(***************************************************************************)
(* The three lifecycle tables of actionwitness_core/journeys/transitions.py *)
(* and the state sets the service derives from them.  A state that maps to *)
(* the empty set is terminal; the only move left to it is a workspace       *)
(* reset, which is no entry of a table.                                     *)
(***************************************************************************)

RUN_TRANSITIONS ==
    [ armed                 |-> {"running", "cancelled", "error"},
      proposing             |-> {"capturing", "cancelled", "error"},
      capturing             |-> {"proposed", "cancelled", "error"},
      proposed              |-> {},
      running               |-> {"awaiting_confirmation", "verifying", "cancelled", "error"},
      awaiting_confirmation |-> {"running", "cancelled", "error"},
      verifying             |-> {"passed", "passed_with_warnings", "failed", "error"},
      passed                |-> {},
      passed_with_warnings  |-> {},
      failed                |-> {},
      error                 |-> {},
      cancelled             |-> {} ]

EVAL_RUN_TRANSITIONS ==
    [ queued    |-> {"running", "cancelled", "error"},
      running   |-> {"passed", "failed", "cancelled", "error"},
      passed    |-> {},
      failed    |-> {},
      cancelled |-> {},
      error     |-> {} ]

BENCHMARK_SUITE_TRANSITIONS ==
    [ draft     |-> {"ready", "cancelled", "error"},
      ready     |-> {"running", "completed", "cancelled", "error"},
      running   |-> {"completed", "cancelled", "error"},
      completed |-> {},
      cancelled |-> {},
      error     |-> {} ]

RunState == DOMAIN RUN_TRANSITIONS

\* _validate: refuse a state or a move the table does not hold
validate(current, target, table) ==
    /\ current \in DOMAIN table
    /\ target \in DOMAIN table
    /\ target \in table[current]

validate_run_transition(current, target) == validate(current, target, RUN_TRANSITIONS)

is_terminal(state) == RUN_TRANSITIONS[state] = {}

VERDICT_RUN_STATES == {"passed", "passed_with_warnings", "failed"}

TERMINAL_RUN_STATES == {s \in RunState : is_terminal(s)}

NONTERMINAL_RUN_STATES == {s \in RunState : ~ is_terminal(s)}

\* invocation_service: the states in which a run accepts a target action
INVOCABLE_RUN_STATES == {"armed", "running"}
==================================================================================
