--------------------------------- MODULE Arming ---------------------------------
(***************************************************************************)
(* How a workspace comes to hold an armed run: the selected contract with    *)
(* the target it names, the scenario mode and the fault profile, the         *)
(* preparation of the target for them, and the three phases of arming.       *)
(*                                                                          *)
(* A request that waits on the target holds no lock while it waits, so every  *)
(* such request is several steps: what it read, what it asked the target, and *)
(* the one locked transaction that re-reads the workspace and writes or       *)
(* refuses.  A request may end at any of these steps: the target may fail, or *)
(* the transaction may refuse.                                               *)
(***************************************************************************)
EXTENDS Integers, FiniteSets

CONSTANTS
    Contracts,
    Targets,
    Managed,      \* the targets with a prepare and a scenario_state: driven, not only observed
    TargetOf,     \* the target a contract names
    Strict,       \* the contracts whose preconditions ask for a clean target
    Modes,        \* of a target: supported_scenario_modes
    Profiles,     \* the fault profiles the specification recognises
    Injectable,   \* of a target: supported_fault_profiles, "none" left out
    DemoOnly,     \* DEMO_ONLY_PROFILES
    Defective,    \* the modes in which a target runs its profile
    Shipped,      \* the mode a managed target starts in
    Requests,
    RunIds,       \* never drawn twice
    OUTCOME_RUNS_PER_WORKSPACE,
    none

AllModes == UNION {Modes[t] : t \in Targets}

ASSUME ArmingAssumption ==
    /\ Managed \subseteq Targets
    /\ TargetOf \in [Contracts -> Targets]
    /\ Strict \subseteq Contracts
    /\ Injectable \in [Targets -> SUBSET Profiles]
    /\ \A t \in Managed : Shipped \in Modes[t]
    /\ none \notin Contracts \cup Targets \cup Profiles \cup RunIds \cup AllModes

\* an unmanaged target injects nothing: it can only be observed
ASSUME InjectorsAreManaged == \A t \in Targets \ Managed : Injectable[t] = {}

VARIABLES
    config,    \* the workspace's row: contract, mode and profile
    scenario,  \* what each managed target runs
    clean,     \* the managed targets whose state is the seeded one
    runs,      \* the table
    request    \* where each request is

vars == <<config, scenario, clean, runs, request>>

OrNone(S) == S \cup {none}

\* the workspace's selection; its target is the one its contract names
Config == [contract : OrNone(Contracts), mode : OrNone(AllModes), profile : OrNone(Profiles)]

Scenario == [mode : AllModes, profile : OrNone(Profiles)]

\* an Observation: the target it was captured from, and whether it was clean
Observed == [from : OrNone(Targets), clean : BOOLEAN]

Unobserved == [from |-> none, clean |-> FALSE]

\* a run's row
RunRow == [status : {"unused", "live", "finished", "purged"}, contract : OrNone(Contracts),
           mode : OrNone(AllModes), profile : OrNone(Profiles), fault_active : BOOLEAN,
           before : Observed, source : OrNone(RunIds)]

Unused == [status |-> "unused", contract |-> none, mode |-> none, profile |-> none,
           fault_active |-> FALSE, before |-> Unobserved, source |-> none]

\* a row nothing here looks at again: what it recorded stays with the run's evidence
Ended(status) == [Unused EXCEPT !.status = status]

\* at: the step a request is about to take; column: what a selection will write
Progress == [at : {"idle", "capture", "fault", "write", "prepare", "record", "reseed"},
             read : Config, column : {"mode", "profile"},
             mode : OrNone(AllModes), profile : OrNone(Profiles),
             seen : Observed, fault : BOOLEAN]

Idle == [at |-> "idle", read |-> [contract |-> none, mode |-> none, profile |-> none],
         column |-> "mode", mode |-> none, profile |-> none,
         seen |-> Unobserved, fault |-> FALSE]

TypeOK ==
    /\ config \in Config
    /\ scenario \in [Managed -> Scenario]
    /\ clean \subseteq Managed
    /\ runs \in [RunIds -> RunRow]
    /\ request \in [Requests -> Progress]

Init ==
    /\ config = [contract |-> none, mode |-> none, profile |-> none]
    /\ scenario = [t \in Managed |-> [mode |-> Shipped, profile |-> none]]
    /\ clean = Managed
    /\ runs = [i \in RunIds |-> Unused]
    /\ request = [q \in Requests |-> Idle]

target(c) == IF c.contract = none THEN none ELSE TargetOf[c.contract]

\* NONTERMINAL_RUN_STATES is one status here: what a live run does is RunLifecycle's
live == {i \in RunIds : runs[i].status = "live"}

finished == {i \in RunIds : runs[i].status = "finished"}

Go(q, p) == request' = [request EXCEPT ![q] = p]

End(q) == Go(q, Idle)

-----------------------------------------------------------------------------
\* What the registry says of a target

supported_scenario_modes(t) == IF t = none THEN {} ELSE Modes[t]

\* without a target the question cannot be answered yet, and arming asks it again
injects_fault_profile(t, f) == f \in OrNone(IF t = none THEN Profiles ELSE Injectable[t])

demo_only_refused(t, f) == f \in DemoOnly /\ t \in Targets \ Managed

fault_active(t) == scenario[t].mode \in Defective /\ scenario[t].profile # none

-----------------------------------------------------------------------------
\* PUT contract: one locked transaction, which prepares nothing

select_contract(c) ==
    /\ live = {}
    /\ config' = [config EXCEPT !.contract = c]
    /\ UNCHANGED <<scenario, clean, runs, request>>

-----------------------------------------------------------------------------
\* PUT scenario-mode and failure-profile: validate, prepare, then record

Intends(q, column, mode, profile) ==
    Go(q, [Idle EXCEPT !.at = "prepare", !.read = config, !.column = column,
                       !.mode = mode, !.profile = profile])

require_supported_mode(m) == m \in supported_scenario_modes(target(config))

select_scenario_mode(q, m) ==
    /\ request[q].at = "idle"
    /\ require_supported_mode(m)
    /\ Intends(q, "mode", m, config.profile)
    /\ UNCHANGED <<config, scenario, clean, runs>>

select_failure_profile(q, f) ==
    /\ request[q].at = "idle"
    /\ ~demo_only_refused(target(config), f)
    /\ injects_fault_profile(target(config), f)
    /\ Intends(q, "profile", config.mode, f)
    /\ UNCHANGED <<config, scenario, clean, runs>>

\* ScenarioPreparer.prepare has something to do
prepares(t, m) == t \in Managed /\ m # none

\* the adapter and the store behind it validate the pair
accepted(t, m, f) == m \in Modes[t] /\ f \in OrNone(Injectable[t])

\* the target is reseeded and put in the scenario, in one request to it
put(t, m, f) ==
    /\ scenario' = [scenario EXCEPT ![t] = [mode |-> m, profile |-> f]]
    /\ clean' = clean \cup {t}

prepare(q) ==
    LET p == request[q]
        t == target(p.read)
        next == IF p.at = "prepare" THEN [p EXCEPT !.at = "record"] ELSE Idle
    IN  /\ p.at \in {"prepare", "reseed"}
        /\ \/ ~prepares(t, p.mode) /\ Go(q, next) /\ UNCHANGED <<scenario, clean>>
           \/ /\ prepares(t, p.mode)
              /\ accepted(t, p.mode, p.profile)
              /\ put(t, p.mode, p.profile)
              /\ Go(q, next)
        /\ UNCHANGED <<config, runs>>

\* the target refuses, or cannot be reached: the request ends and nothing is written
prepare_refused(q) ==
    LET p == request[q]
    IN  /\ p.at \in {"prepare", "reseed"}
        /\ prepares(target(p.read), p.mode)
        /\ End(q)
        /\ UNCHANGED <<config, scenario, clean, runs>>

\* the target did as asked and its answer is lost
prepare_unanswered(q) ==
    LET p == request[q]
        t == target(p.read)
    IN  /\ p.at \in {"prepare", "reseed"}
        /\ prepares(t, p.mode)
        /\ accepted(t, p.mode, p.profile)
        /\ put(t, p.mode, p.profile)
        /\ End(q)
        /\ UNCHANGED <<config, runs>>

\* a mutant: only the target is compared
target_alone(c) == <<target(c)>>

selection_of(c) == <<target(c), c.mode, c.profile>>

recorded(p) ==
    IF p.column = "mode" THEN [config EXCEPT !.mode = p.mode]
                         ELSE [config EXCEPT !.profile = p.profile]

\* a mutant: a selection is recorded under a run in flight
record_anytime(p) ==
    /\ selection_of(config) = selection_of(p.read)
    /\ p.column = "mode" => p.mode \in supported_scenario_modes(target(p.read))

\* the writing transaction re-reads the selection and refuses when it moved, when a
\* run is in flight, or when the mode is not one the target it read supports
may_record(p) ==
    /\ selection_of(config) = selection_of(p.read)
    /\ live = {}
    /\ p.column = "mode" => p.mode \in supported_scenario_modes(target(p.read))

record(q) ==
    /\ request[q].at = "record"
    /\ End(q)
    /\ config' = IF may_record(request[q]) THEN recorded(request[q]) ELSE config
    /\ UNCHANGED <<scenario, clean, runs>>

-----------------------------------------------------------------------------
\* POST reset: cancel what is in flight, then reseed the target outside the lock

\* every run in flight is cancelled; a purge then deletes all that are terminal
reset_rows(purge) ==
    [i \in RunIds |->
        IF i \in live \cup finished
            THEN Ended(IF purge THEN "purged" ELSE "finished")
            ELSE runs[i]]

reset(q, purge) ==
    /\ request[q].at = "idle"
    /\ runs' = reset_rows(purge)
    /\ Go(q, [Idle EXCEPT !.at = "reseed", !.read = config,
                          !.mode = config.mode, !.profile = config.profile])
    /\ UNCHANGED <<config, scenario, clean>>

-----------------------------------------------------------------------------
\* POST runs: read the configuration, observe the target, then write or refuse

configured(c) == c.contract # none

\* the question a profile chosen before its target left open
require_injectable_profile(c) == injects_fault_profile(target(c), c.profile)

arm(q) ==
    /\ request[q].at = "idle"
    /\ configured(config)
    /\ require_injectable_profile(config)
    /\ Go(q, [Idle EXCEPT !.at = "capture", !.read = config])
    /\ UNCHANGED <<config, scenario, clean, runs>>

\* an external target is taken to be as its contract asks: write_refused is the other case
capture(q) ==
    LET p == request[q]
        t == target(p.read)
    IN  /\ p.at = "capture"
        /\ Go(q, [p EXCEPT !.at = "fault",
                           !.seen = [from |-> t, clean |-> t \in Managed => t \in clean]])
        /\ UNCHANGED <<config, scenario, clean, runs>>

\* a target that cannot report its fault may be armed only when none is selected
fault_state(q) ==
    LET p == request[q]
        t == target(p.read)
    IN  /\ p.at = "fault"
        /\ t \in Managed \/ p.read.profile = none
        /\ Go(q, [p EXCEPT !.at = "write", !.fault = t \in Managed /\ fault_active(t)])
        /\ UNCHANGED <<config, scenario, clean, runs>>

\* an observation the target does not give, or a fault it cannot confirm
arm_refused(q) ==
    /\ request[q].at \in {"capture", "fault"}
    /\ End(q)
    /\ UNCHANGED <<config, scenario, clean, runs>>

\* a mutant: the scenario is compared and the contract is not
scenario_alone(c) == <<c.mode, c.profile>>

controlled_inputs(c) == <<c.contract, target(c), c.mode, c.profile>>

preconditions_hold(c, seen) == c \in Strict => seen.clean

eligible_source(s) == s = none \/ s \in finished

may_arm(p, s) ==
    /\ controlled_inputs(config) = controlled_inputs(p.read)
    /\ live = {}
    /\ eligible_source(s)
    /\ Cardinality(live \cup finished) < OUTCOME_RUNS_PER_WORKSPACE
    /\ preconditions_hold(config.contract, p.seen)

row_of(p, s) ==
    [status |-> "live", contract |-> config.contract, mode |-> config.mode,
     profile |-> config.profile, fault_active |-> p.fault, before |-> p.seen, source |-> s]

write_run(q, i, s) ==
    /\ request[q].at = "write"
    /\ runs[i].status = "unused"
    /\ may_arm(request[q], s)
    /\ runs' = [runs EXCEPT ![i] = row_of(request[q], s)]
    /\ End(q)
    /\ UNCHANGED <<config, scenario, clean>>

\* refused: nothing is written; a source that is no run of this workspace always is
write_refused(q) ==
    /\ request[q].at = "write"
    /\ End(q)
    /\ UNCHANGED <<config, scenario, clean, runs>>

-----------------------------------------------------------------------------
\* What goes on around: a target is used, and a run is verified (RunLifecycle)

use_target(t) ==
    /\ t \in clean
    /\ clean' = clean \ {t}
    /\ UNCHANGED <<config, scenario, runs, request>>

finish_run(i) ==
    /\ i \in live
    /\ runs' = [runs EXCEPT ![i] = Ended("finished")]
    /\ UNCHANGED <<config, scenario, clean, request>>

Next ==
    \/ \E c \in Contracts : select_contract(c)
    \/ \E q \in Requests :
        \/ \E m \in AllModes : select_scenario_mode(q, m)
        \/ \E f \in OrNone(Profiles) : select_failure_profile(q, f)
        \/ prepare(q)
        \/ prepare_refused(q)
        \/ prepare_unanswered(q)
        \/ record(q)
        \/ \E purge \in BOOLEAN : reset(q, purge)
        \/ arm(q)
        \/ capture(q)
        \/ fault_state(q)
        \/ arm_refused(q)
        \/ \E i \in RunIds, s \in OrNone(RunIds) : write_run(q, i, s)
        \/ write_refused(q)
    \/ \E t \in Managed : use_target(t)
    \/ \E i \in RunIds : finish_run(i)

Spec == Init /\ [][Next]_vars

-----------------------------------------------------------------------------
\* Properties

\* While a run is in flight the workspace records the inputs the run was armed with,
\* and no other run is in flight: no selection, contract or second arming slips in
\* between a read and its write (select_failure_profile, select_scenario_mode,
\* ContractService.select and RunService.arm all refuse under the lock).
InputsFixed ==
    \A i \in live :
        /\ live = {i}
        /\ runs[i].contract = config.contract
        /\ runs[i].mode = config.mode
        /\ runs[i].profile = config.profile

\* Every run in flight rests on a baseline captured from the target of its own contract and
\* meeting that contract's preconditions, names no fault that target cannot inject and
\* report, and compares with a finished run: what RunService.arm read before the waits
\* still holds of the row it writes after them.
RunWellFounded ==
    \A i \in live :
        LET t == TargetOf[runs[i].contract]
        IN  /\ runs[i].contract # none
            /\ runs[i].before.from = t
            /\ preconditions_hold(runs[i].contract, runs[i].before)
            /\ runs[i].profile # none => t \in Managed /\ runs[i].profile \in Injectable[t]
            /\ runs[i].fault_active => t \in Managed
            /\ runs[i].source # none => runs[runs[i].source].status \in {"finished", "purged"}

\* A selection records the pair of mode and profile the target was prepared for, and for
\* that target: two selections at a time never record one's mode beside the other's
\* profile, and a contract chosen meanwhile is never given a scenario its target was not
\* put in (_select_and_prepare's second read).
SelectionPrepared ==
    [][\A q \in Requests : record(q) /\ config' # config =>
        /\ config'.mode = request[q].mode
        /\ config'.profile = request[q].profile
        /\ target(config') = target(request[q].read)]_vars

\* When an arming is about to be written against a managed target in a selected mode, that
\* target runs the mode and profile the run will record: the label is true, which is what
\* _select_and_prepare prepares before it records for.
LabelTrue ==
    \A q \in Requests :
        (request[q].at = "write" /\ may_arm(request[q], none)
            /\ target(config) \in Managed /\ config.mode # none) =>
                scenario[target(config)] = [mode |-> config.mode, profile |-> config.profile]
=============================================================================
