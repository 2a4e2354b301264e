----------------------------- MODULE RunRecordProofs -----------------------------
(***************************************************************************)
(* What a run's record is worth: the inputs it was armed with (Arming), how  *)
(* long its timeline grows (RunTimeline) and what a client is told of it     *)
(* (EventStreams), for any contracts, targets and requests, every ceiling    *)
(* and contract size, any page size and any number of connections and losses. *)
(***************************************************************************)
EXTENDS Arming, RunTimeline, EventStreams, FiniteSetTheorems, TLAPS

----------------------------------------------------------------------------
\* Arming.  What a request knows at each of its steps is RequestInv.

\* What a step in progress knows of the configuration its request read.
Knows(p) ==
    /\ p.at \in {"capture", "fault", "write"} =>
         p.read.contract # none /\ require_injectable_profile(p.read)
    /\ p.at \in {"fault", "write"} => p.seen.from = target(p.read)
    /\ p.at = "write" =>
         /\ p.read.profile # none => target(p.read) \in Managed
         /\ p.fault => target(p.read) \in Managed
    /\ p.at \in {"prepare", "record"} =>
         /\ p.column = "mode" => p.profile = p.read.profile
         /\ p.column = "profile" => p.mode = p.read.mode

RequestInv == \A q \in Requests : Knows(request[q])

\* The inductive invariant.
ArmInv == TypeOK /\ RequestInv /\ InputsFixed /\ RunWellFounded

\* The target of a configuration is a target, or none where there is no contract.
LEMMA TargetType ==
    ASSUME NEW c \in Config
    PROVE  /\ target(c) \in OrNone(Targets)
           /\ c.contract # none => target(c) \in Targets /\ target(c) = TargetOf[c.contract]
  BY ArmingAssumption DEF target, Config, OrNone

\* Going to a well-typed step keeps the requests well-typed.
LEMMA GoType ==
    ASSUME TypeOK, NEW q \in Requests, NEW p \in Progress, Go(q, p)
    PROVE  /\ request' \in [Requests -> Progress]
           /\ request'[q] = p
           /\ \A r \in Requests \ {q} : request'[r] = request[r]
  BY DEF TypeOK, Go

\* The step of a request that is doing nothing is one.
LEMMA IdleType == Idle \in Progress
  BY DEF Idle, Progress, Config, Observed, Unobserved, OrNone

\* The step a selection begins with is one.
LEMMA IntendsType ==
    ASSUME TypeOK, NEW m \in OrNone(AllModes), NEW f \in OrNone(Profiles),
           NEW col \in {"mode", "profile"}
    PROVE  [Idle EXCEPT !.at = "prepare", !.read = config, !.column = col,
                        !.mode = m, !.profile = f] \in Progress
  BY DEF TypeOK, Idle, Progress, Config, Observed, Unobserved, OrNone

\* The initial state is well-typed.
LEMMA InitType == Init => TypeOK
  <1> SUFFICES ASSUME Init PROVE TypeOK
    OBVIOUS
  <1>1. scenario \in [Managed -> Scenario]
    BY ArmingAssumption DEF Init, Scenario, AllModes, OrNone
  <1>2. request \in [Requests -> Progress]
    BY IdleType DEF Init
  <1>3. runs \in [RunIds -> RunRow]
    BY DEF Init, RunRow, Unused, Unobserved, Observed, OrNone
  <1> QED
    BY <1>1, <1>2, <1>3 DEF Init, TypeOK, Config, OrNone

\* A target that is prepared is put in a scenario it accepts.
LEMMA PutType ==
    ASSUME TypeOK, NEW t \in Managed, NEW m, NEW f, accepted(t, m, f), put(t, m, f)
    PROVE  scenario' \in [Managed -> Scenario] /\ clean' \subseteq Managed
  <1>1. [mode |-> m, profile |-> f] \in Scenario
    BY ArmingAssumption DEF accepted, Scenario, AllModes, OrNone
  <1> QED
    BY <1>1 DEF put, TypeOK

\* Steps of a request keep its type, and leave it knowing what its next step relies on.
LEMMA RequestStep ==
    ASSUME ArmInv, [Next]_vars
    PROVE  request' \in [Requests -> Progress] /\ RequestInv'
  <1> DEFINE Good(p) == p \in Progress /\ Knows(p)
  <1> USE DEF ArmInv
  <1>1. ASSUME NEW q \in Requests, NEW p, Good(p), Go(q, p)
        PROVE  request' \in [Requests -> Progress] /\ RequestInv'
    BY <1>1, GoType DEF RequestInv
  <1>2. Good(Idle)
    BY IdleType DEF Idle, Knows
  <1>3. ASSUME NEW q \in Requests PROVE Good(request[q])
    BY <1>3 DEF RequestInv, TypeOK
  <1>4. ASSUME UNCHANGED request
        PROVE  request' \in [Requests -> Progress] /\ RequestInv'
    BY <1>4 DEF RequestInv, TypeOK
  <1>5. ASSUME NEW q \in Requests, NEW m \in AllModes, select_scenario_mode(q, m)
        PROVE  request' \in [Requests -> Progress] /\ RequestInv'
    <2> DEFINE p == [Idle EXCEPT !.at = "prepare", !.read = config, !.column = "mode",
                                 !.mode = m, !.profile = config.profile]
    <2>1. p \in Progress
      BY IntendsType DEF TypeOK, Config, OrNone
    <2>2. Knows(p)
      BY DEF Knows, Idle
    <2>3. Go(q, p)
      BY <1>5 DEF select_scenario_mode, Intends
    <2> QED
      BY <1>1, <2>1, <2>2, <2>3
  <1>6. ASSUME NEW q \in Requests, NEW f \in OrNone(Profiles), select_failure_profile(q, f)
        PROVE  request' \in [Requests -> Progress] /\ RequestInv'
    <2> DEFINE p == [Idle EXCEPT !.at = "prepare", !.read = config, !.column = "profile",
                                 !.mode = config.mode, !.profile = f]
    <2>1. p \in Progress
      BY IntendsType DEF TypeOK, Config, OrNone
    <2>2. Knows(p)
      BY DEF Knows, Idle
    <2>3. Go(q, p)
      BY <1>6 DEF select_failure_profile, Intends
    <2> QED
      BY <1>1, <2>1, <2>2, <2>3
  <1>7. ASSUME NEW q \in Requests, prepare(q)
        PROVE  request' \in [Requests -> Progress] /\ RequestInv'
    <2>1. CASE request[q].at = "prepare"
      <3>1. Good([request[q] EXCEPT !.at = "record"])
        BY <1>3, <2>1 DEF Progress, Knows
      <3>2. Go(q, [request[q] EXCEPT !.at = "record"])
        BY <1>7, <2>1 DEF prepare
      <3> QED
        BY <1>1, <3>1, <3>2
    <2>2. CASE request[q].at = "reseed"
      <3>1. Go(q, Idle)
        BY <1>7, <2>2 DEF prepare
      <3> QED
        BY <1>1, <1>2, <3>1
    <2> QED
      BY <1>7, <2>1, <2>2 DEF prepare
  <1>8. ASSUME NEW q \in Requests,
               \/ prepare_refused(q) \/ prepare_unanswered(q) \/ record(q)
               \/ arm_refused(q) \/ write_refused(q)
               \/ \E i \in RunIds, s \in OrNone(RunIds) : write_run(q, i, s)
        PROVE  request' \in [Requests -> Progress] /\ RequestInv'
    <2>1. Go(q, Idle)
      BY <1>8 DEF prepare_refused, prepare_unanswered, record, arm_refused, write_refused,
                  write_run, End
    <2> QED
      BY <1>1, <1>2, <2>1
  <1>9. ASSUME NEW q \in Requests, NEW purge \in BOOLEAN, reset(q, purge)
        PROVE  request' \in [Requests -> Progress] /\ RequestInv'
    <2> DEFINE p == [Idle EXCEPT !.at = "reseed", !.read = config,
                                 !.mode = config.mode, !.profile = config.profile]
    <2>1. p \in Progress
      BY IdleType DEF TypeOK, Config, Progress, Idle
    <2>2. Knows(p)
      BY DEF Knows, Idle
    <2>3. Go(q, p)
      BY <1>9 DEF reset
    <2> QED
      BY <1>1, <2>1, <2>2, <2>3
  <1>10. ASSUME NEW q \in Requests, arm(q)
         PROVE  request' \in [Requests -> Progress] /\ RequestInv'
    <2> DEFINE p == [Idle EXCEPT !.at = "capture", !.read = config]
    <2>1. p \in Progress
      BY IdleType DEF TypeOK, Progress, Idle
    <2>2. p.read = config /\ p.at = "capture"
      BY DEF Idle
    <2>3. Knows(p)
      BY <1>10, <2>2 DEF Knows, arm, configured
    <2>4. Go(q, p)
      BY <1>10 DEF arm
    <2> QED
      BY <1>1, <2>1, <2>3, <2>4
  <1>11. ASSUME NEW q \in Requests, capture(q)
         PROVE  request' \in [Requests -> Progress] /\ RequestInv'
    <2> DEFINE t == target(request[q].read)
               o == [from |-> t, clean |-> t \in Managed => t \in clean]
               p == [request[q] EXCEPT !.at = "fault", !.seen = o]
    <2>1. request[q] \in Progress /\ request[q].read \in Config
      BY <1>3 DEF Progress
    <2>2. o \in Observed
      BY <2>1, TargetType DEF Observed
    <2>3. p \in Progress
      BY <2>1, <2>2 DEF Progress
    <2>4. p.at = "fault" /\ p.read = request[q].read /\ p.seen.from = t
      BY <2>1 DEF Progress
    <2>5. request[q].at = "capture" /\ Knows(request[q])
      BY <1>3, <1>11 DEF capture
    <2>6. Knows(p)
      BY <2>4, <2>5 DEF Knows
    <2>7. Go(q, p)
      BY <1>11 DEF capture
    <2> QED
      BY <1>1, <2>3, <2>6, <2>7
  <1>12. ASSUME NEW q \in Requests, fault_state(q)
         PROVE  request' \in [Requests -> Progress] /\ RequestInv'
    <2> DEFINE t == target(request[q].read)
               b == (t \in Managed /\ fault_active(t))
               p == [request[q] EXCEPT !.at = "write", !.fault = b]
    <2>1. request[q] \in Progress
      BY <1>3
    <2>2. b \in BOOLEAN
      BY DEF fault_active
    <2>3. p \in Progress
      BY <2>1, <2>2 DEF Progress
    <2>4. /\ p.at = "write" /\ p.read = request[q].read /\ p.seen = request[q].seen
          /\ p.fault = b
      BY <2>1 DEF Progress
    <2>5. request[q].at = "fault" /\ Knows(request[q]) /\ (t \in Managed \/ request[q].read.profile = none)
      BY <1>3, <1>12 DEF fault_state
    <2>6. Knows(p)
      BY <2>4, <2>5 DEF Knows
    <2>7. Go(q, p)
      BY <1>12 DEF fault_state
    <2> QED
      BY <1>1, <2>3, <2>6, <2>7
  <1>13. CASE \/ \E c \in Contracts : select_contract(c)
              \/ \E t \in Managed : use_target(t)
              \/ \E i \in RunIds : finish_run(i)
              \/ UNCHANGED vars
    BY <1>4, <1>13 DEF select_contract, use_target, finish_run, vars
  <1> QED
    BY <1>5, <1>6, <1>7, <1>8, <1>9, <1>10, <1>11, <1>12, <1>13 DEF Next

\* A run is written only for the configuration the request observed its target under.
LEMMA RowType ==
    ASSUME ArmInv, NEW q \in Requests, NEW s \in OrNone(RunIds), request[q].at = "write"
    PROVE  row_of(request[q], s) \in RunRow
  <1>1. request[q] \in Progress /\ config \in Config
    BY DEF ArmInv, TypeOK
  <1> QED
    BY <1>1 DEF row_of, RunRow, Progress, Config

\* The tables keep their types.
LEMMA TableStep ==
    ASSUME ArmInv, [Next]_vars
    PROVE  /\ config' \in Config
           /\ scenario' \in [Managed -> Scenario]
           /\ clean' \subseteq Managed
           /\ runs' \in [RunIds -> RunRow]
  <1> USE DEF ArmInv
  <1>0. /\ config \in Config /\ scenario \in [Managed -> Scenario] /\ clean \subseteq Managed
        /\ runs \in [RunIds -> RunRow] /\ request \in [Requests -> Progress]
    BY DEF TypeOK
  <1>1. \A st \in {"unused", "live", "finished", "purged"} : Ended(st) \in RunRow
    BY DEF Ended, Unused, RunRow, Unobserved, Observed, OrNone
  <1>2. ASSUME NEW c \in Contracts, select_contract(c)
        PROVE  config' \in Config /\ UNCHANGED <<scenario, clean, runs>>
    BY <1>0, <1>2 DEF select_contract, Config, OrNone
  <1>3. ASSUME NEW q \in Requests, prepare(q) \/ prepare_unanswered(q)
        PROVE  /\ scenario' \in [Managed -> Scenario] /\ clean' \subseteq Managed
               /\ UNCHANGED <<config, runs>>
    <2> DEFINE p == request[q]
               t == target(p.read)
    <2>1. CASE UNCHANGED <<scenario, clean>>
      BY <1>0, <1>3, <2>1 DEF prepare, prepare_unanswered
    <2>2. CASE prepares(t, p.mode) /\ accepted(t, p.mode, p.profile) /\ put(t, p.mode, p.profile)
      <3>1. t \in Managed
        BY <2>2 DEF prepares
      <3> QED
        BY <1>3, <2>2, <3>1, PutType DEF prepare, prepare_unanswered
    <2> QED
      BY <1>3, <2>1, <2>2 DEF prepare, prepare_unanswered
  <1>4. ASSUME NEW q \in Requests, record(q)
        PROVE  config' \in Config /\ UNCHANGED <<scenario, clean, runs>>
    <2>1. request[q] \in Progress
      BY <1>0
    <2>2. recorded(request[q]) \in Config
      BY <1>0, <2>1 DEF recorded, Progress, Config
    <2> QED
      BY <1>0, <1>4, <2>2 DEF record
  <1>5. ASSUME NEW q \in Requests, NEW purge \in BOOLEAN, reset(q, purge)
        PROVE  runs' \in [RunIds -> RunRow] /\ UNCHANGED <<config, scenario, clean>>
    BY <1>0, <1>1, <1>5 DEF reset, reset_rows
  <1>6. ASSUME NEW q \in Requests, NEW i \in RunIds, NEW s \in OrNone(RunIds), write_run(q, i, s)
        PROVE  runs' \in [RunIds -> RunRow] /\ UNCHANGED <<config, scenario, clean>>
    BY <1>0, <1>6, RowType DEF write_run
  <1>7. ASSUME NEW t \in Managed, use_target(t)
        PROVE  clean' \subseteq Managed /\ UNCHANGED <<config, scenario, runs>>
    BY <1>0, <1>7 DEF use_target
  <1>8. ASSUME NEW i \in RunIds, finish_run(i)
        PROVE  runs' \in [RunIds -> RunRow] /\ UNCHANGED <<config, scenario, clean>>
    BY <1>0, <1>1, <1>8 DEF finish_run
  <1>9. ASSUME \/ UNCHANGED vars
               \/ \E q \in Requests :
                    \/ \E m \in AllModes : select_scenario_mode(q, m)
                    \/ \E f \in OrNone(Profiles) : select_failure_profile(q, f)
                    \/ prepare_refused(q) \/ arm(q) \/ capture(q) \/ fault_state(q)
                    \/ arm_refused(q) \/ write_refused(q)
        PROVE  UNCHANGED <<config, scenario, clean, runs>>
    BY <1>9 DEF vars, select_scenario_mode, select_failure_profile, prepare_refused, arm,
                capture, fault_state, arm_refused, write_refused
  <1> QED
    BY <1>0, <1>2, <1>3, <1>4, <1>5, <1>6, <1>7, <1>8, <1>9 DEF Next

\* How a step may change the runs and what they were armed with: it arms the only run
\* in flight for the configuration, or it ends some, or it changes the configuration
\* while none is in flight, or it leaves both alone.
LEMMA RunsStep ==
    ASSUME ArmInv, [Next]_vars
    PROVE  \/ UNCHANGED <<config, runs>>
           \/ live = {} /\ UNCHANGED runs
           \/ /\ UNCHANGED config
              /\ \A i \in RunIds : runs'[i] = runs[i] \/ runs'[i].status \in {"finished", "purged"}
              /\ \A i \in RunIds : runs[i].status \in {"finished", "purged"} =>
                                       runs'[i].status \in {"finished", "purged"}
           \/ /\ UNCHANGED config
              /\ \E q \in Requests, i \in RunIds, s \in OrNone(RunIds) : write_run(q, i, s)
  <1> USE DEF ArmInv
  <1>0. runs \in [RunIds -> RunRow]
    BY DEF TypeOK
  <1>1. \A st : Ended(st).status = st
    BY DEF Ended, Unused
  <1>2. ASSUME NEW q \in Requests, record(q)
        PROVE  UNCHANGED <<config, runs>> \/ (live = {} /\ UNCHANGED runs)
    BY <1>2 DEF record, may_record
  <1>3. ASSUME NEW c \in Contracts, select_contract(c)
        PROVE  live = {} /\ UNCHANGED runs
    BY <1>3 DEF select_contract
  <1>4. ASSUME NEW q \in Requests, NEW purge \in BOOLEAN, reset(q, purge)
        PROVE  /\ UNCHANGED config
               /\ \A i \in RunIds : runs'[i] = runs[i] \/ runs'[i].status \in {"finished", "purged"}
               /\ \A i \in RunIds : runs[i].status \in {"finished", "purged"} =>
                                        runs'[i].status \in {"finished", "purged"}
    BY <1>0, <1>1, <1>4 DEF reset, reset_rows
  <1>5. ASSUME NEW j \in RunIds, finish_run(j)
        PROVE  /\ UNCHANGED config
               /\ \A i \in RunIds : runs'[i] = runs[i] \/ runs'[i].status \in {"finished", "purged"}
               /\ \A i \in RunIds : runs[i].status \in {"finished", "purged"} =>
                                        runs'[i].status \in {"finished", "purged"}
    BY <1>0, <1>1, <1>5 DEF finish_run
  <1>6. ASSUME \/ UNCHANGED vars
               \/ \E t \in Managed : use_target(t)
               \/ \E q \in Requests :
                    \/ \E m \in AllModes : select_scenario_mode(q, m)
                    \/ \E f \in OrNone(Profiles) : select_failure_profile(q, f)
                    \/ prepare(q) \/ prepare_refused(q) \/ prepare_unanswered(q)
                    \/ arm(q) \/ capture(q) \/ fault_state(q)
                    \/ arm_refused(q) \/ write_refused(q)
        PROVE  UNCHANGED <<config, runs>>
    BY <1>6 DEF vars, use_target, select_scenario_mode, select_failure_profile, prepare,
                prepare_refused, prepare_unanswered, arm, capture, fault_state, arm_refused,
                write_refused
  <1>7. ASSUME NEW q \in Requests, NEW i \in RunIds, NEW s \in OrNone(RunIds), write_run(q, i, s)
        PROVE  UNCHANGED config
    BY <1>7 DEF write_run
  <1> QED
    BY <1>2, <1>3, <1>4, <1>5, <1>6, <1>7 DEF Next

\* The run that is written: it alone is in flight, for the configuration in force, and
\* that configuration is the one its request read before it observed the target.
LEMMA WriteStep ==
    ASSUME ArmInv, NEW q \in Requests, NEW i \in RunIds, NEW s \in OrNone(RunIds),
           write_run(q, i, s)
    PROVE  /\ live = {} /\ live' = {i}
           /\ runs'[i] = row_of(request[q], s)
           /\ \A j \in RunIds \ {i} : runs'[j] = runs[j]
           /\ config.contract = request[q].read.contract
           /\ config.profile = request[q].read.profile
           /\ target(config) = target(request[q].read)
           /\ preconditions_hold(config.contract, request[q].seen)
           /\ eligible_source(s)
           /\ Knows(request[q]) /\ request[q].at = "write"
  <1>1. runs \in [RunIds -> RunRow] /\ runs[i].status = "unused"
    BY DEF ArmInv, TypeOK, write_run
  <1>2. live = {} /\ runs' = [runs EXCEPT ![i] = row_of(request[q], s)]
    BY DEF write_run, may_arm
  <1>3. runs'[i] = row_of(request[q], s) /\ \A j \in RunIds \ {i} : runs'[j] = runs[j]
    BY <1>1, <1>2
  <1>4. row_of(request[q], s).status = "live"
    BY DEF row_of
  <1>5. live' = {i}
    BY <1>2, <1>3, <1>4 DEF live
  <1> QED
    BY <1>2, <1>3, <1>5 DEF ArmInv, RequestInv, write_run, may_arm, controlled_inputs

\* A step keeps the inputs of the run in flight those of the workspace.
LEMMA InputsStep ==
    ASSUME ArmInv, [Next]_vars
    PROVE  InputsFixed'
  <1>1. CASE UNCHANGED <<config, runs>>
    BY <1>1 DEF ArmInv, InputsFixed, live
  <1>2. CASE live = {} /\ UNCHANGED runs
    BY <1>2 DEF InputsFixed, live
  <1>3. CASE /\ UNCHANGED config
             /\ \A i \in RunIds : runs'[i] = runs[i] \/ runs'[i].status \in {"finished", "purged"}
    <2>1. live' \subseteq live /\ \A i \in live' : runs'[i] = runs[i]
      BY <1>3 DEF live
    <2> QED
      BY <1>3, <2>1 DEF ArmInv, InputsFixed
  <1>4. CASE /\ UNCHANGED config
             /\ \E q \in Requests, i \in RunIds, s \in OrNone(RunIds) : write_run(q, i, s)
    <2>1. PICK q \in Requests, i \in RunIds, s \in OrNone(RunIds) : write_run(q, i, s)
      BY <1>4
    <2>2. live' = {i} /\ runs'[i] = row_of(request[q], s)
      BY <2>1, WriteStep
    <2> QED
      BY <1>4, <2>2 DEF InputsFixed, row_of
  <1> QED
    BY <1>1, <1>2, <1>3, <1>4, RunsStep

\* A step keeps the run in flight well founded.
LEMMA FoundedStep ==
    ASSUME ArmInv, [Next]_vars
    PROVE  RunWellFounded'
  <1>0. runs \in [RunIds -> RunRow] /\ config \in Config
    BY DEF ArmInv, TypeOK
  <1>1. CASE UNCHANGED runs
    BY <1>1 DEF ArmInv, RunWellFounded, live, preconditions_hold
  <1>2. CASE /\ \A i \in RunIds : runs'[i] = runs[i] \/ runs'[i].status \in {"finished", "purged"}
             /\ \A i \in RunIds : runs[i].status \in {"finished", "purged"} =>
                                      runs'[i].status \in {"finished", "purged"}
    <2>1. SUFFICES ASSUME NEW i \in live'
                   PROVE  LET t == TargetOf[runs'[i].contract]
                          IN  /\ runs'[i].contract # none
                              /\ runs'[i].before.from = t
                              /\ preconditions_hold(runs'[i].contract, runs'[i].before)
                              /\ runs'[i].profile # none =>
                                   t \in Managed /\ runs'[i].profile \in Injectable[t]
                              /\ runs'[i].fault_active => t \in Managed
                              /\ runs'[i].source # none =>
                                   runs'[runs'[i].source].status \in {"finished", "purged"}
      BY DEF RunWellFounded, preconditions_hold
    <2>2. i \in live /\ runs'[i] = runs[i]
      BY <1>2 DEF live
    <2>3. runs[i].source \in OrNone(RunIds)
      BY <1>0, <2>2 DEF RunRow, live
    <2> QED
      BY <1>2, <2>2, <2>3 DEF ArmInv, RunWellFounded, OrNone
  <1>3. CASE \E q \in Requests, i \in RunIds, s \in OrNone(RunIds) : write_run(q, i, s)
    <2>1. PICK q \in Requests, i \in RunIds, s \in OrNone(RunIds) : write_run(q, i, s)
      BY <1>3
    <2> DEFINE p == request[q]
               t == TargetOf[config.contract]
    <2>2. /\ live = {} /\ live' = {i} /\ runs'[i] = row_of(p, s)
          /\ \A j \in RunIds \ {i} : runs'[j] = runs[j]
      BY <2>1, WriteStep
    <2>3. /\ config.contract # none /\ target(config) = t /\ t \in Targets
          /\ p.seen.from = t
          /\ config.profile # none => t \in Managed
          /\ p.fault => t \in Managed
      <3>1. config.contract # none /\ p.seen.from = target(config)
        BY <2>1, WriteStep DEF Knows
      <3>2. target(config) = t /\ t \in Targets
        BY <1>0, <3>1, TargetType
      <3> QED
        BY <2>1, <3>1, <3>2, WriteStep DEF Knows
    <2>4. config.profile # none => config.profile \in Injectable[t]
      <3>1. require_injectable_profile(p.read) /\ target(p.read) = t /\ p.read.profile = config.profile
        BY <2>1, <2>3, WriteStep DEF Knows
      <3>2. t # none
        BY <2>3, ArmingAssumption
      <3> QED
        BY <3>1, <3>2 DEF require_injectable_profile, injects_fault_profile, OrNone
    <2>5. s # none => runs'[s].status \in {"finished", "purged"}
      <3>1. s # none => s \in RunIds /\ s \in finished
        BY <2>1, WriteStep DEF eligible_source, OrNone
      <3>2. runs[i].status = "unused"
        BY <2>1 DEF write_run
      <3> QED
        BY <2>2, <3>1, <3>2 DEF finished
    <2>6. preconditions_hold(config.contract, p.seen)
      BY <2>1, WriteStep
    <2>7. /\ runs'[i].contract = config.contract /\ runs'[i].profile = config.profile
          /\ runs'[i].fault_active = p.fault /\ runs'[i].before = p.seen
          /\ runs'[i].source = s
      BY <2>2 DEF row_of
    <2> QED
      BY <2>2, <2>3, <2>4, <2>5, <2>6, <2>7 DEF RunWellFounded, preconditions_hold
  <1> QED
    BY <1>1, <1>2, <1>3, RunsStep

\* The invariant is inductive.
LEMMA ArmInvInductive ==
    /\ Init => ArmInv
    /\ ArmInv /\ [Next]_vars => ArmInv'
  <1>1. Init => ArmInv
    <2> SUFFICES ASSUME Init PROVE ArmInv
      OBVIOUS
    <2>1. live = {}
      BY DEF Init, live, Unused
    <2>2. RequestInv
      BY DEF Init, RequestInv, Knows, Idle
    <2> QED
      BY <2>1, <2>2, InitType DEF ArmInv, InputsFixed, RunWellFounded
  <1>2. ArmInv /\ [Next]_vars => ArmInv'
    <2> SUFFICES ASSUME ArmInv, [Next]_vars PROVE ArmInv'
      OBVIOUS
    <2>1. TypeOK'
      BY RequestStep, TableStep DEF TypeOK
    <2> QED
      BY <2>1, RequestStep, InputsStep, FoundedStep DEF ArmInv
  <1> QED
    BY <1>1, <1>2

\* In every behaviour the invariant holds.
LEMMA ArmInvAlways == Spec => []ArmInv
  BY ArmInvInductive, PTL DEF Spec

\* Requests, runs, the configuration and the targets keep their types, however requests
\* to select, reset and arm interleave.
THEOREM ArmingTypes == Spec => []TypeOK
  BY ArmInvAlways, PTL DEF ArmInv

\* While a run is in flight it is the only one and the workspace records its inputs:
\* what RunService.arm and the selections check under the lock is enough for any number
\* of requests.
THEOREM ArmedInputsFixed == Spec => []InputsFixed
  BY ArmInvAlways, PTL DEF ArmInv

\* A run in flight rests on a baseline of its own contract's target that met its
\* preconditions, and names no fault that target cannot inject, however long the
\* observation took and whatever was selected meanwhile.
THEOREM ArmedWellFounded == Spec => []RunWellFounded
  BY ArmInvAlways, PTL DEF ArmInv

\* A selection records the pair, and for the target, it had the target prepared for.
THEOREM RecordedWasPrepared == Spec => SelectionPrepared
  <1>1. ASSUME ArmInv, [Next]_vars, NEW q \in Requests, record(q), config' # config
        PROVE  /\ config'.mode = request[q].mode
               /\ config'.profile = request[q].profile
               /\ target(config') = target(request[q].read)
    <2> DEFINE p == request[q]
    <2>1. p \in Progress /\ config \in Config /\ Knows(p) /\ p.at = "record"
      BY <1>1 DEF ArmInv, TypeOK, RequestInv, record
    <2>2. may_record(p) /\ config' = recorded(p)
      BY <1>1 DEF record
    <2>3. /\ target(config) = target(p.read) /\ config.mode = p.read.mode
          /\ config.profile = p.read.profile
      BY <2>2 DEF may_record, selection_of
    <2>4. CASE p.column = "mode"
      <3>1. config' = [config EXCEPT !.mode = p.mode] /\ p.profile = p.read.profile
        BY <2>1, <2>2, <2>4 DEF recorded, Knows
      <3>2. /\ config'.mode = p.mode /\ config'.profile = config.profile
            /\ config'.contract = config.contract
        BY <2>1, <3>1 DEF Config
      <3> QED
        BY <2>3, <3>1, <3>2 DEF target
    <2>5. CASE p.column = "profile"
      <3>1. config' = [config EXCEPT !.profile = p.profile] /\ p.mode = p.read.mode
        BY <2>1, <2>2, <2>5 DEF recorded, Knows
      <3>2. /\ config'.profile = p.profile /\ config'.mode = config.mode
            /\ config'.contract = config.contract
        BY <2>1, <3>1 DEF Config
      <3> QED
        BY <2>3, <3>1, <3>2 DEF target
    <2> QED
      BY <2>1, <2>4, <2>5 DEF Progress
  <1>2. ArmInv /\ [Next]_vars =>
          [\A q \in Requests : record(q) /\ config' # config =>
              /\ config'.mode = request[q].mode
              /\ config'.profile = request[q].profile
              /\ target(config') = target(request[q].read)]_vars
    BY <1>1
  <1> QED
    BY <1>2, ArmInvAlways, PTL DEF Spec, SelectionPrepared

----------------------------------------------------------------------------
\* RunTimeline.  BudgetInv is the events a run holds, with those it is still owed.  A start
\* is what raises that sum, and the start is where the budget is tested; every later step
\* pays a debt.

\* The states a run may be in, listed: what the provers need of the table.
LEMMA RunStates ==
    /\ RunState = {"armed", "proposing", "capturing", "proposed", "running",
                   "awaiting_confirmation", "verifying", "passed", "passed_with_warnings",
                   "failed", "error", "cancelled"}
    /\ NONTERMINAL_RUN_STATES = {"armed", "proposing", "capturing", "running",
                                 "awaiting_confirmation", "verifying"}
BY DEF RunState, NONTERMINAL_RUN_STATES, is_terminal, RUN_TRANSITIONS

\* A handoff writes at most one event (GuidanceRecorder.transition).
LEMMA HandoffBound ==
    ASSUME NEW from, NEW to
    PROVE  handoff(from, to) \in 0..1
BY DEF handoff

\* A surface capture counts all it writes as captured, and touches nothing else.
LEMMA CaptureWrites ==
    ASSUME TimelineTypeOK, Capture
    PROVE  /\ \E n \in Nat : used' = used + n /\ captured' = captured + n
           /\ UNCHANGED <<status, active, phase, calls, approvals, orphans, ended, failures>>
<1>1. PICK deltas \in 0..CaptureLimit :
         used' = used + 1 + deltas /\ captured' = captured + 1 + deltas
  BY DEF Capture
<1>2. 1 + deltas \in Nat
  BY <1>1, BudgetAssumption
<1>3. used' = used + (1 + deltas) /\ captured' = captured + (1 + deltas)
  BY <1>1, BudgetAssumption DEF TimelineTypeOK
<1> QED
  BY <1>2, <1>3 DEF Capture, counters

\* Every transaction leaves the counters natural numbers: none takes away a call or
\* an approval that is not there.
LEMMA TypeStep == TimelineTypeOK /\ [TimelineNext]_timelineVars => TimelineTypeOK'
<1> SUFFICES ASSUME TimelineTypeOK, [TimelineNext]_timelineVars PROVE TimelineTypeOK'
  OBVIOUS
<1> USE RunStates, HandoffBound, BudgetAssumption
    DEF TimelineTypeOK, WorkspacePhase, MoveTo, counters
<1>1. CASE SelectContract
  BY <1>1 DEF SelectContract
<1>2. CASE Arm
  BY <1>2 DEF Arm
<1>3. CASE StartPlain
  BY <1>3 DEF StartPlain
<1>4. CASE StartProtected
  BY <1>4 DEF StartProtected
<1>5. CASE IdentityMismatch
  BY <1>5 DEF IdentityMismatch
<1>6. CASE Trip
  BY <1>6 DEF Trip
<1>7. CASE Approve
  BY <1>7 DEF Approve
<1>8. CASE Refuse
  BY <1>8 DEF Refuse
<1>9. CASE Claim
  BY <1>9 DEF Claim
<1>10. CASE Stale
  BY <1>10 DEF Stale
<1>11. CASE Terminate
  BY <1>11 DEF Terminate
<1>12. CASE Capture
  BY <1>12, CaptureWrites
<1>13. CASE Gate
  BY <1>13 DEF Gate
<1>14. CASE Seal
  BY <1>14 DEF Seal, SealEvents, VERDICT_RUN_STATES
<1>15. CASE Abandon
  BY <1>15 DEF Abandon
<1>16. CASE Reset
  <2>1. active' \in BOOLEAN
    BY <1>16, Zenon DEF Reset
  <2>2. status' \in RunState \cup {"none"} /\ used' \in Nat
    BY <1>16 DEF Reset, Live
  <2> QED
    BY <1>16, <2>1, <2>2 DEF Reset
<1>17. CASE UNCHANGED timelineVars
  BY <1>17 DEF timelineVars
<1> QED
  BY <1>1, <1>2, <1>3, <1>4, <1>5, <1>6, <1>7, <1>8, <1>9, <1>10, <1>11, <1>12, <1>13,
     <1>14, <1>15, <1>16, <1>17 DEF TimelineNext

\* Every transaction keeps the budget: a start is admitted with room for what it
\* will be owed, and what is appended later was owed, or ends the run.
LEMMA BudgetStep == TimelineTypeOK /\ BudgetInv /\ [TimelineNext]_timelineVars => BudgetInv'
<1> SUFFICES ASSUME TimelineTypeOK, BudgetInv, [TimelineNext]_timelineVars PROVE BudgetInv'
  OBVIOUS
<1> USE RunStates, HandoffBound, BudgetAssumption, ContractAssumption
    DEF TimelineTypeOK, BudgetInv, Owed, Pending, UnderWay, Live, MoveTo, counters,
        verification_reservation, VERIFICATION_FIXED_EVENTS, CONFIRMATION_EVENT_RESERVATION,
        event_budget_remaining, ORDINARY_EVENTS_PER_RUN, INVOCABLE_RUN_STATES
<1>1. CASE SelectContract
  BY <1>1 DEF SelectContract
<1>2. CASE Arm
  BY <1>2 DEF Arm
<1>3. CASE StartPlain
  BY <1>3 DEF StartPlain
<1>4. CASE StartProtected
  BY <1>4 DEF StartProtected
<1>5. CASE IdentityMismatch
  BY <1>5 DEF IdentityMismatch
<1>6. CASE Trip
  BY <1>6 DEF Trip
<1>7. CASE Approve
  BY <1>7 DEF Approve
<1>8. CASE Refuse
  BY <1>8 DEF Refuse
<1>9. CASE Claim
  BY <1>9 DEF Claim
<1>10. CASE Stale
  BY <1>10 DEF Stale
<1>11. CASE Terminate
  <2>1. failures' \in Nat /\ failures <= failures'
    BY <1>11 DEF Terminate
  <2>2. /\ used' = used + 1 /\ calls' = calls - 1 /\ calls > 0
        /\ UNCHANGED <<status, captured, approvals, orphans>>
    BY <1>11 DEF Terminate
  <2>3. used' - captured' + Owed' = used - captured + Owed
    BY <2>2
  <2>4. used' - captured' + Owed' <= EVENTS_PER_RUN + Calls + 4 + failures'
    BY <2>1, <2>3
  <2>5. UnderWay' + Pending' <= Calls /\ captured' <= used'
    BY <2>2
  <2>6. Live' => used' - captured' + Owed'
                   <= EVENTS_PER_RUN - verification_reservation' + Calls + 2
    BY <2>2
  <2> QED
    BY <2>4, <2>5, <2>6
<1>12. CASE Capture
  BY <1>12, CaptureWrites
<1>13. CASE Gate
  BY <1>13 DEF Gate
<1>14. CASE Seal
  BY <1>14 DEF Seal, SealEvents, VERDICT_RUN_STATES
<1>15. CASE Abandon
  BY <1>15 DEF Abandon
<1>16. CASE Reset
  BY <1>16 DEF Reset
<1>17. CASE UNCHANGED timelineVars
  BY <1>17 DEF timelineVars
<1> QED
  BY <1>1, <1>2, <1>3, <1>4, <1>5, <1>6, <1>7, <1>8, <1>9, <1>10, <1>11, <1>12, <1>13,
     <1>14, <1>15, <1>16, <1>17 DEF TimelineNext

\* Every transaction that moves a live run, the gate apart, hands it off.
LEMMA GuidanceStep == TimelineTypeOK /\ GuidanceCurrent /\ [TimelineNext]_timelineVars => GuidanceCurrent'
<1> SUFFICES ASSUME TimelineTypeOK, GuidanceCurrent, [TimelineNext]_timelineVars PROVE GuidanceCurrent'
  OBVIOUS
<1> USE RunStates DEF TimelineTypeOK, GuidanceCurrent, Live, MoveTo
<1>1. CASE SelectContract
  BY <1>1 DEF SelectContract
<1>2. CASE Arm \/ StartPlain \/ StartProtected \/ IdentityMismatch
  BY <1>2 DEF Arm, StartPlain, StartProtected, IdentityMismatch
<1>3. CASE Approve \/ Refuse
  BY <1>3 DEF Approve, Refuse
<1>4. CASE Gate
  BY <1>4 DEF Gate
<1>5. CASE Seal \/ Abandon \/ Trip \/ Reset
  BY <1>5 DEF Seal, Abandon, Trip, Reset, VERDICT_RUN_STATES
<1>6. CASE Claim \/ Stale \/ Terminate \/ Capture \/ UNCHANGED timelineVars
  BY <1>6 DEF Claim, Stale, Terminate, Capture, counters, timelineVars
<1> QED
  BY <1>1, <1>2, <1>3, <1>4, <1>5, <1>6 DEF TimelineNext

\* The counters the timeline is accounted with are always natural numbers: no
\* transaction of the run takes away a call or an approval that is not there.
THEOREM Typed == TimelineSpec => []TimelineTypeOK
<1>1. TimelineInit => TimelineTypeOK
  <2>1. TimelineInit => active \in BOOLEAN
    BY Zenon DEF TimelineInit
  <2> QED
    BY <2>1, RunStates DEF TimelineInit, TimelineTypeOK, WorkspacePhase
<1> QED
  BY <1>1, TypeStep, PTL DEF TimelineSpec

\* For every ceiling, contract and number of concurrent calls, a run overruns FR-008's
\* ceiling by at most four events, one for each call under way, one for each failed
\* call, and what surface captures wrote.
THEOREM OverrunIsBounded == TimelineSpec => []OverrunBounded
<1>1. TimelineInit => BudgetInv
  BY BudgetAssumption, ContractAssumption, RunStates
     DEF TimelineInit, BudgetInv, Owed, Pending, UnderWay, Live
<1>2. TimelineTypeOK /\ BudgetInv => OverrunBounded
  BY BudgetAssumption DEF TimelineTypeOK, BudgetInv, Owed, OverrunBounded
<1> QED
  BY <1>1, <1>2, Typed, BudgetStep, PTL DEF TimelineSpec

\* The latest guidance row of a workspace names the phase its live run is in, whatever
\* the runs before it left behind.
THEOREM GuidanceIsCurrent == TimelineSpec => []GuidanceCurrent
<1>1. TimelineInit => GuidanceCurrent
  BY RunStates DEF TimelineInit, GuidanceCurrent, Live
<1> QED
  BY <1>1, Typed, GuidanceStep, PTL DEF TimelineSpec

----------------------------------------------------------------------------
\* EventStreams.  StreamInv follows an event from the page, over the wire, to the client.

\* What the argument needs of the types; the count of the slots plays no part in it.
Types ==
    /\ log \in 0..MaxEvents
    /\ over \in BOOLEAN
    /\ atEnd \in 0..log
    /\ stream \in [Connections -> Stream]
    /\ wire \in Seq(Int)
    /\ client \in Connections \cup {nowhere}
    /\ seen \in Seq(Int)
    /\ Len(seen) <= log
    /\ closed \in BOOLEAN

\* A generator never runs ahead of the timeline, and the page it takes for the last one
\* reaches to the run's end.
Page(s) ==
    /\ s.cursor <= log
    /\ s.upto <= log
    /\ s.at = "sending" => s.cursor <= s.upto
    /\ s.terminal => over
    /\ (s.at = "sending" /\ s.terminal /\ ~ s.more) => s.upto >= atEnd

PageInv == \A c \in Connections : Page(stream[c])

\* What is on the wire carries on where the client is, and only its last frame may be an
\* end, which is true when it says the run ended.
EndFrame(k) ==
    /\ k = Len(wire)
    /\ wire[k] \in {END, IDLE}
    /\ client # nowhere /\ stream[client].at = "closed"
    /\ wire[k] = END => over /\ Len(seen) + k - 1 >= atEnd

EventFrame(k) == wire[k] = Len(seen) + k /\ wire[k] <= log

WireInv ==
    /\ client = nowhere => wire = << >>
    /\ \A k \in 1..Len(wire) : EventFrame(k) \/ EndFrame(k)
    /\ (client # nowhere /\ stream[client].at # "closed") =>
          stream[client].cursor = Len(seen) + Len(wire)

\* What the client has been told.
ClientInv ==
    /\ \A n \in 1..Len(seen) : seen[n] = n
    /\ closed => over /\ Len(seen) >= atEnd

StreamInv == Types /\ PageInv /\ WireInv /\ ClientInv

\* The invariant holds at the start.
LEMMA StreamStarts == StreamInit => StreamInv
  <1> SUFFICES ASSUME StreamInit PROVE StreamInv
    OBVIOUS
  <1>1. Closed \in Stream
    BY StreamsAssumption DEF Closed, Stream
  <1>2. << >> \in Seq(Int) /\ Len(<< >>) = 0
    OBVIOUS
  <1>3. log = 0 /\ 0 \in 0..MaxEvents /\ atEnd = 0 /\ 0 \in 0..0
    BY StreamsAssumption DEF StreamInit
  <1>4. Types
    <2>1. stream \in [Connections -> Stream] /\ client \in Connections \cup {nowhere}
      BY <1>1 DEF StreamInit
    <2>2. wire \in Seq(Int) /\ seen \in Seq(Int) /\ Len(seen) <= log
      BY <1>2, <1>3 DEF StreamInit
    <2> QED
      BY <1>3, <2>1, <2>2 DEF StreamInit, Types
  <1>5. PageInv
    BY DEF StreamInit, PageInv, Page, Closed
  <1>6. WireInv /\ ClientInv
    BY DEF StreamInit, WireInv, ClientInv
  <1> QED
    BY <1>4, <1>5, <1>6 DEF StreamInv

\* The run's steps lengthen the timeline, and fix its end once.
LEMMA RunStep ==
    ASSUME StreamInv, Append_event \/ End_run
    PROVE  StreamInv'
  <1> USE DEF StreamInv
  <1>1. /\ log' = log + 1 /\ log' \in 0..MaxEvents
        /\ UNCHANGED <<slots, stream, wire, client, seen, closed, refused, losses>>
        /\ \/ UNCHANGED <<over, atEnd>>
           \/ ~ over /\ over' = TRUE /\ atEnd' = log'
    BY StreamsAssumption DEF Append_event, End_run, Types, told
  <1>2. Types'
    <2>1. Len(seen) \in Nat /\ log \in Nat /\ Len(seen) <= log + 1
      BY StreamsAssumption DEF Types
    <2>2. atEnd' \in 0..log'
      BY <1>1, <2>1 DEF Types
    <2> QED
      BY <1>1, <2>1, <2>2 DEF Types
  <1>3. PageInv'
    BY <1>1 DEF PageInv, Page, Types, Stream
  <1>4. WireInv'
    <2>1. \A k \in 1..Len(wire) : EventFrame(k)' \/ EndFrame(k)'
      BY <1>1 DEF WireInv, EventFrame, EndFrame, Types
    <2> QED
      BY <1>1, <2>1 DEF WireInv
  <1>5. ClientInv'
    BY <1>1 DEF ClientInv
  <1> QED
    BY <1>2, <1>3, <1>4, <1>5

\* A step of one generator that writes nothing, and keeps its place.
LEMMA QuietStep ==
    ASSUME StreamInv, NEW c \in Connections, NEW s \in Stream, Page(s),
           stream' = [stream EXCEPT ![c] = s],
           UNCHANGED <<log, over, atEnd, wire, client, seen, closed>>,
           c = client => /\ s.at # "closed" /\ stream[c].at # "closed"
                         /\ s.cursor = stream[c].cursor
    PROVE  StreamInv'
  <1> USE DEF StreamInv
  <1>1. Types'
    BY DEF Types
  <1>2. PageInv'
    BY DEF PageInv, Page, Types
  <1>3. client # nowhere => client \in Connections
    BY DEF Types
  <1>4. WireInv'
    <2>1. client # nowhere => (stream'[client].at = "closed" <=> stream[client].at = "closed")
      BY <1>3 DEF Types
    <2>2. \A k \in 1..Len(wire) : EventFrame(k)' \/ EndFrame(k)'
      BY <2>1 DEF WireInv, EventFrame, EndFrame
    <2>3. (client # nowhere /\ stream'[client].at # "closed") =>
              stream'[client].cursor = Len(seen) + Len(wire)
      BY <1>3, <2>1 DEF WireInv, Types
    <2> QED
      BY <2>2, <2>3 DEF WireInv
  <1>5. ClientInv'
    BY DEF ClientInv
  <1> QED
    BY <1>1, <1>2, <1>4, <1>5

\* Reading a page and going on to the next write nothing; the events are read after the
\* status, which is why a page that ends the stream holds the run's last event.
LEMMA ReadStep ==
    ASSUME StreamInv, NEW c \in Connections,
           read_status(c) \/ read_events(c) \/ next_page(c) \/ keepalive(c)
    PROVE  StreamInv'
  <1> USE DEF StreamInv
  <1>0. stream[c] \in Stream /\ Page(stream[c]) /\ stream \in [Connections -> Stream]
    BY DEF Types, PageInv
  <1>1. CASE read_status(c)
    <2> DEFINE s == [stream[c] EXCEPT !.at = "events", !.terminal = over]
    <2>1. s \in Stream /\ s.at = "events" /\ s.terminal = over
          /\ s.cursor = stream[c].cursor /\ s.upto = stream[c].upto
      BY <1>0 DEF Stream, Types
    <2>2. stream' = [stream EXCEPT ![c] = s]
      BY <1>0, <1>1 DEF read_status
    <2> HIDE DEF s
    <2>3. Page(s)
      BY <1>0, <2>1 DEF Page
    <2> QED
      BY <1>1, <2>1, <2>2, <2>3, QuietStep DEF read_status, run, told
  <1>2. CASE read_events(c)
    <2> DEFINE k == stream[c].cursor
               u == IF log > k THEN least(log, k + EVENT_PAGE_MAX) ELSE k
               m == log > k + EVENT_PAGE_MAX
               i == IF u > k THEN 0 ELSE stream[c].idle
               s == [stream[c] EXCEPT !.at = "sending", !.upto = u, !.more = m, !.idle = i]
    <2>1. /\ k \in Nat /\ log \in Nat /\ atEnd \in Nat /\ atEnd <= log
          /\ log <= MaxEvents /\ MaxEvents \in Nat /\ k <= log
      BY <1>0, StreamsAssumption DEF Stream, Types, Page
    <2>2. list_after(k).upto = u /\ list_after(k).more = m
      BY DEF list_after
    <2>3. stream' = [stream EXCEPT ![c] = s]
      BY <1>0, <1>2, <2>2 DEF read_events
    <2>4. u \in 0..MaxEvents /\ u <= log /\ k <= u /\ m \in BOOLEAN /\ (~ m => u = log)
      BY <2>1, StreamsAssumption DEF least
    <2>5. stream[c].idle \in 0..MAX_IDLE /\ 0 \in 0..MAX_IDLE
      BY <1>0, StreamsAssumption DEF Stream
    <2> HIDE DEF u, m
    <2>6. i \in 0..MAX_IDLE
      BY <2>5
    <2> HIDE DEF i
    <2>7. /\ s \in Stream /\ s.at = "sending" /\ s.terminal = stream[c].terminal
           /\ s.cursor = k /\ s.upto = u /\ s.more = m
      BY <1>0, <2>4, <2>6 DEF Stream
    <2> HIDE DEF s
    <2>8. Page(s)
      BY <1>0, <2>1, <2>4, <2>7 DEF Page
    <2>9. stream[c].at = "events"
      BY <1>2 DEF read_events
    <2> QED
      BY <1>2, <2>3, <2>7, <2>8, <2>9, QuietStep DEF read_events, run, told
  <1>3. CASE next_page(c)
    <2> DEFINE s == [stream[c] EXCEPT !.at = "status"]
    <2>1. /\ s \in Stream /\ s.at = "status" /\ s.terminal = stream[c].terminal
          /\ s.cursor = stream[c].cursor /\ s.upto = stream[c].upto
      BY <1>0 DEF Stream
    <2>2. stream' = [stream EXCEPT ![c] = s]
      BY <1>0, <1>3 DEF next_page
    <2> HIDE DEF s
    <2>3. Page(s)
      BY <1>0, <2>1 DEF Page
    <2> QED
      BY <1>3, <2>1, <2>2, <2>3, QuietStep DEF next_page, page_sent, run, told
  <1>4. CASE keepalive(c)
    <2> DEFINE s == [stream[c] EXCEPT !.at = "status", !.idle = stream[c].idle + 1]
    <2>1. stream[c].idle + 1 \in 0..MAX_IDLE
      BY <1>0, <1>4, StreamsAssumption DEF keepalive, Stream
    <2>2. /\ s \in Stream /\ s.at = "status" /\ s.terminal = stream[c].terminal
          /\ s.cursor = stream[c].cursor /\ s.upto = stream[c].upto
      BY <1>0, <2>1 DEF Stream
    <2>3. stream' = [stream EXCEPT ![c] = s]
      BY <1>0, <1>4 DEF keepalive
    <2> HIDE DEF s
    <2>4. Page(s)
      BY <1>0, <2>2 DEF Page
    <2> QED
      BY <1>4, <2>2, <2>3, <2>4, QuietStep DEF keepalive, page_sent, run, told
  <1> QED
    BY <1>1, <1>2, <1>3, <1>4

\* An event written to the client's connection is the one after those on the wire; one
\* written to a connection left behind is nobody's.
LEMMA SendStep ==
    ASSUME StreamInv, NEW c \in Connections, send_event(c)
    PROVE  StreamInv'
  <1> USE DEF StreamInv
  <1> DEFINE n == stream[c].cursor + 1
             s == [stream[c] EXCEPT !.cursor = n]
  <1>0. /\ stream[c] \in Stream /\ Page(stream[c]) /\ stream \in [Connections -> Stream]
        /\ stream[c].at = "sending" /\ stream[c].cursor < stream[c].upto
    BY DEF Types, PageInv, send_event
  <1>1. n \in 0..MaxEvents /\ n <= stream[c].upto /\ n <= log /\ n \in Int
    BY <1>0, StreamsAssumption DEF Stream, Types, Page
  <1>2. /\ s \in Stream /\ s.at = "sending" /\ s.cursor = n /\ s.upto = stream[c].upto
        /\ s.terminal = stream[c].terminal /\ s.more = stream[c].more
    BY <1>0, <1>1 DEF Stream
  <1>3. stream' = [stream EXCEPT ![c] = s]
    BY <1>0 DEF send_event
  <1> HIDE DEF s
  <1>4. Page(s)
    BY <1>0, <1>1, <1>2 DEF Page
  <1>5. CASE c # client
    <2>1. UNCHANGED <<log, over, atEnd, wire, client, seen, closed>>
      BY <1>5 DEF send_event, push, run, told
    <2> QED
      BY <1>2, <1>3, <1>4, <1>5, <2>1, QuietStep
  <1>6. CASE c = client
    <2>1. wire' = Append(wire, n) /\ UNCHANGED <<log, over, atEnd, client, seen, closed>>
      BY <1>6 DEF send_event, push, run, told
    <2>2. wire \in Seq(Int) /\ Len(wire) \in Nat /\ Len(seen) \in Nat /\ client # nowhere
      BY <1>6, StreamsAssumption DEF Types
    <2>3. /\ wire' \in Seq(Int) /\ Len(wire') = Len(wire) + 1
          /\ \A k \in 1..Len(wire) : wire'[k] = wire[k]
          /\ wire'[Len(wire) + 1] = n
      BY <1>1, <2>1, <2>2
    <2>4. stream[c].cursor = Len(seen) + Len(wire) /\ n = Len(seen) + Len(wire) + 1
      BY <1>0, <1>6, <2>2 DEF WireInv
    <2>5. \A k \in 1..Len(wire) : EventFrame(k)
      BY <1>0, <1>6 DEF WireInv, EndFrame
    <2>6. \A k \in 1..Len(wire') : EventFrame(k)'
      <3> SUFFICES ASSUME NEW k \in 1..Len(wire') PROVE EventFrame(k)'
        OBVIOUS
      <3>1. CASE k \in 1..Len(wire)
        BY <2>1, <2>3, <2>5, <3>1 DEF EventFrame
      <3>2. CASE k = Len(wire) + 1
        BY <1>1, <2>1, <2>2, <2>3, <2>4, <3>2 DEF EventFrame
      <3> QED
        BY <2>2, <2>3, <3>1, <3>2
    <2>7. Types'
      BY <1>2, <1>3, <2>1, <2>3 DEF Types
    <2>8. PageInv'
      BY <1>0, <1>3, <1>4, <2>1 DEF PageInv, Page
    <2>9. WireInv'
      <3>1. stream'[client'].cursor = Len(seen') + Len(wire')
        BY <1>0, <1>2, <1>3, <1>6, <2>1, <2>2, <2>3, <2>4
      <3> QED
        BY <2>1, <2>2, <2>6, <3>1 DEF WireInv
    <2>10. ClientInv'
      BY <2>1 DEF ClientInv
    <2> QED
      BY <2>7, <2>8, <2>9, <2>10
  <1> QED
    BY <1>5, <1>6

\* A generator ends with its end frame, and says that the run has ended only on the page
\* that reached it.
LEMMA EndStep ==
    ASSUME StreamInv, NEW c \in Connections, end_stream(c) \/ end_idle(c)
    PROVE  StreamInv'
  <1> USE DEF StreamInv
  <1>0. /\ stream[c] \in Stream /\ Page(stream[c]) /\ stream \in [Connections -> Stream]
        /\ stream[c].at = "sending" /\ stream[c].cursor = stream[c].upto
        /\ stream' = [stream EXCEPT ![c] = Closed]
    BY DEF Types, PageInv, end_stream, end_idle, page_sent, release
  <1>1. PICK f \in {END, IDLE} : /\ push(c, f)
                                 /\ f = END => stream[c].terminal /\ ~ stream[c].more
    BY DEF end_stream, end_idle, ends, END, IDLE
  <1>2. UNCHANGED <<log, over, atEnd, client, seen, closed>>
    BY DEF end_stream, end_idle, run, told
  <1>3. Closed \in Stream /\ Page(Closed) /\ Closed.at = "closed"
    BY StreamsAssumption DEF Closed, Stream, Page, Types
  <1>4. CASE c # client
    <2>1. UNCHANGED wire
      BY <1>1, <1>4 DEF push
    <2> QED
      BY <1>0, <1>2, <1>3, <1>4, <2>1, QuietStep
  <1>5. CASE c = client
    <2>1. wire' = Append(wire, f)
      BY <1>1, <1>5 DEF push
    <2>2. wire \in Seq(Int) /\ Len(wire) \in Nat /\ Len(seen) \in Nat /\ client # nowhere /\ f \in Int
      BY <1>5, StreamsAssumption DEF Types, END, IDLE
    <2>3. /\ wire' \in Seq(Int) /\ Len(wire') = Len(wire) + 1
          /\ \A k \in 1..Len(wire) : wire'[k] = wire[k]
          /\ wire'[Len(wire) + 1] = f
      BY <2>1, <2>2
    <2>4. stream[c].cursor = Len(seen) + Len(wire)
      BY <1>0, <1>5, <2>2 DEF WireInv
    <2>5. \A k \in 1..Len(wire) : EventFrame(k)
      BY <1>0, <1>5 DEF WireInv, EndFrame
    <2>6. stream'[client'].at = "closed"
      BY <1>0, <1>2, <1>3, <1>5
    <2>7. \A k \in 1..Len(wire') : EventFrame(k)' \/ EndFrame(k)'
      <3> SUFFICES ASSUME NEW k \in 1..Len(wire') PROVE EventFrame(k)' \/ EndFrame(k)'
        OBVIOUS
      <3>1. CASE k \in 1..Len(wire)
        BY <1>2, <2>3, <2>5, <3>1 DEF EventFrame
      <3>2. CASE k = Len(wire) + 1
        <4>1. f = END => over /\ Len(seen) + Len(wire) >= atEnd
          BY <1>0, <1>1, <2>4 DEF Page
        <4>2. wire'[k] = f /\ k = Len(wire') /\ k - 1 = Len(wire)
          BY <2>2, <2>3, <3>2
        <4>3. Len(seen) + k - 1 = Len(seen) + Len(wire)
          BY <2>2, <3>2
        <4> QED
          BY <1>2, <2>2, <2>6, <4>1, <4>2, <4>3 DEF EndFrame
      <3> QED
        BY <2>2, <2>3, <3>1, <3>2
    <2>8. Types'
      BY <1>0, <1>2, <1>3, <2>3 DEF Types
    <2>9. PageInv'
      BY <1>0, <1>2, <1>3 DEF PageInv, Page
    <2>10. WireInv'
      BY <1>2, <2>2, <2>6, <2>7 DEF WireInv
    <2>11. ClientInv'
      BY <1>2 DEF ClientInv
    <2> QED
      BY <2>8, <2>9, <2>10, <2>11
  <1> QED
    BY <1>4, <1>5

\* A connection left behind is closed without anybody noticing.
LEMMA LeftStep ==
    ASSUME StreamInv, NEW c \in Connections, disconnected(c)
    PROVE  StreamInv'
  <1>1. Closed \in Stream /\ Page(Closed)
    BY StreamsAssumption DEF Closed, Stream, Page, StreamInv, Types
  <1>2. /\ stream' = [stream EXCEPT ![c] = Closed] /\ c # client
        /\ UNCHANGED <<log, over, atEnd, wire, client, seen, closed>>
    BY DEF disconnected, release, run, told
  <1> QED
    BY <1>1, <1>2, QuietStep

\* The generator of a new connection.
LEMMA FreshType ==
    ASSUME NEW n \in 0..MaxEvents
    PROVE  LET s == [Closed EXCEPT !.at = "status", !.cursor = n]
           IN  /\ s \in Stream /\ s.at = "status" /\ s.cursor = n /\ s.upto = 0
               /\ s.terminal = FALSE
  <1>1. 0 \in 0..MaxEvents /\ 0 \in 0..MAX_IDLE
    BY StreamsAssumption
  <1> QED
    BY <1>1 DEF Closed, Stream

\* A new connection carries on after the last event the client has seen.
LEMMA OpenStep ==
    ASSUME StreamInv, NEW c \in Connections, open_event_stream(c)
    PROVE  StreamInv'
  <1> USE DEF StreamInv
  <1> DEFINE s == [Closed EXCEPT !.at = "status", !.cursor = resume_cursor(seen)]
  <1>0. /\ client = nowhere /\ client' = c /\ wire' = << >> /\ stream' = [stream EXCEPT ![c] = s]
        /\ UNCHANGED <<log, over, atEnd, seen, closed>>
    BY DEF open_event_stream, connecting, run, told
  <1>1. seen \in Seq(Int) /\ Len(seen) \in Nat /\ Len(seen) <= log /\ log \in 0..MaxEvents
    BY DEF Types
  <1>2. resume_cursor(seen) = Len(seen)
    <2>1. CASE seen = << >>
      BY <2>1 DEF resume_cursor
    <2>2. CASE seen # << >>
      <3>1. Len(seen) \in 1..Len(seen)
        BY <1>1, <2>2
      <3> QED
        BY <2>2, <3>1 DEF resume_cursor, ClientInv
    <2> QED
      BY <2>1, <2>2
  <1>3. Len(seen) \in 0..MaxEvents
    BY <1>1, StreamsAssumption
  <1>4. /\ s \in Stream /\ s.at = "status" /\ s.cursor = Len(seen) /\ s.upto = 0
        /\ s.terminal = FALSE
    BY <1>2, <1>3, FreshType
  <1> HIDE DEF s
  <1>5. Page(s)
    BY <1>1, <1>4 DEF Page
  <1>6. << >> \in Seq(Int) /\ Len(<< >>) = 0
    OBVIOUS
  <1>7. Types'
    BY <1>0, <1>4, <1>6 DEF Types
  <1>8. PageInv'
    BY <1>0, <1>5 DEF PageInv, Page, Types
  <1>9. WireInv'
    <2>1. stream'[client'] = s /\ client' # nowhere
      BY <1>0, StreamsAssumption DEF Types
    <2>2. Len(wire') = 0
      BY <1>0, <1>6
    <2>3. stream'[client'].cursor = Len(seen') + Len(wire')
      BY <1>0, <1>1, <1>4, <2>1, <2>2
    <2> QED
      BY <1>0, <2>1, <2>2, <2>3 DEF WireInv
  <1>10. ClientInv'
    BY <1>0 DEF ClientInv
  <1> QED
    BY <1>7, <1>8, <1>9, <1>10

\* The client takes the next event of the timeline.
LEMMA ReceiveStep ==
    ASSUME StreamInv, receive_event
    PROVE  StreamInv'
  <1> USE DEF StreamInv
  <1>0. /\ wire # << >> /\ Head(wire) \in Numbers /\ seen' = Append(seen, Head(wire))
        /\ wire' = Tail(wire)
        /\ UNCHANGED <<log, over, atEnd, stream, client, closed>>
    BY DEF receive_event, run, told
  <1>1. wire \in Seq(Int) /\ seen \in Seq(Int) /\ Len(wire) \in Nat /\ Len(seen) \in Nat
    BY DEF Types
  <1>2. Len(wire) >= 1 /\ Head(wire) = wire[1] /\ wire[1] \in Int
    BY <1>0, <1>1
  <1>3. wire[1] # END /\ wire[1] # IDLE
    BY <1>0, <1>2 DEF Numbers, END, IDLE
  <1>4. wire[1] = Len(seen) + 1 /\ Len(seen) + 1 <= log
    BY <1>1, <1>2, <1>3 DEF WireInv, EventFrame, EndFrame
  <1>5. /\ seen' \in Seq(Int) /\ Len(seen') = Len(seen) + 1
        /\ \A k \in 1..Len(seen) : seen'[k] = seen[k]
        /\ seen'[Len(seen) + 1] = Len(seen) + 1
    BY <1>0, <1>1, <1>2, <1>4
  <1>6. /\ wire' \in Seq(Int) /\ Len(wire') = Len(wire) - 1
        /\ \A k \in 1..Len(wire') : wire'[k] = wire[k + 1]
    BY <1>0, <1>1, <1>2
  <1>7. client # nowhere
    BY <1>0 DEF WireInv
  <1>8. Types'
    BY <1>0, <1>4, <1>5, <1>6 DEF Types
  <1>9. PageInv'
    BY <1>0 DEF PageInv, Page
  <1>10. WireInv'
    <2>1. \A k \in 1..Len(wire') : EventFrame(k)' \/ EndFrame(k)'
      <3> SUFFICES ASSUME NEW k \in 1..Len(wire') PROVE EventFrame(k)' \/ EndFrame(k)'
        OBVIOUS
      <3>1. k \in Int /\ k + 1 \in 1..Len(wire) /\ wire'[k] = wire[k + 1]
        BY <1>1, <1>6
      <3>2. Len(seen') + k = Len(seen) + (k + 1) /\ (k = Len(wire') <=> k + 1 = Len(wire))
        BY <1>1, <1>5, <1>6, <3>1
      <3>3. CASE EventFrame(k + 1)
        BY <1>0, <3>1, <3>2, <3>3 DEF EventFrame
      <3>4. CASE EndFrame(k + 1)
        <4>1. Len(seen') + k - 1 = Len(seen) + (k + 1) - 1
          BY <1>1, <1>5, <3>1
        <4> QED
          BY <1>0, <3>1, <3>2, <3>4, <4>1 DEF EndFrame
      <3> QED
        BY <3>1, <3>3, <3>4 DEF WireInv
    <2>2. Len(seen') + Len(wire') = Len(seen) + Len(wire)
      BY <1>1, <1>5, <1>6
    <2> QED
      BY <1>0, <1>7, <2>1, <2>2 DEF WireInv
  <1>11. ClientInv'
    <2>1. \A k \in 1..Len(seen') : seen'[k] = k
      <3> SUFFICES ASSUME NEW k \in 1..Len(seen') PROVE seen'[k] = k
        OBVIOUS
      <3>1. k \in 1..Len(seen) \/ k = Len(seen) + 1
        BY <1>1, <1>5
      <3> QED
        BY <1>5, <3>1 DEF ClientInv
    <2>2. closed' => over' /\ Len(seen') >= atEnd'
      <3>1. atEnd \in Nat
        BY DEF Types
      <3> QED
        BY <1>0, <1>1, <1>5, <3>1 DEF ClientInv
    <2> QED
      BY <2>1, <2>2 DEF ClientInv
  <1> QED
    BY <1>8, <1>9, <1>10, <1>11

\* The client is told of an end, or its connection is lost: it listens to nothing more.
LEMMA DropStep ==
    ASSUME StreamInv, receive_end \/ lose
    PROVE  StreamInv'
  <1> USE DEF StreamInv
  <1>0. client' = nowhere /\ wire' = << >> /\ UNCHANGED <<log, over, atEnd, stream, seen>>
    BY DEF receive_end, lose, run, told
  <1>1. wire \in Seq(Int) /\ seen \in Seq(Int) /\ Len(wire) \in Nat /\ Len(seen) \in Nat
    BY DEF Types
  <1>2. << >> \in Seq(Int) /\ Len(<< >>) = 0
    OBVIOUS
  <1>3. closed' \in BOOLEAN /\ (closed' => over /\ Len(seen) >= atEnd)
    <2>1. CASE lose
      BY <2>1 DEF lose, ClientInv, Types, told
    <2>2. CASE receive_end
      <3>1. wire # << >> /\ Head(wire) \in {END, IDLE} /\ closed' = (Head(wire) = END)
        BY <2>2 DEF receive_end
      <3>2. Len(wire) >= 1 /\ Head(wire) = wire[1]
        BY <1>1, <3>1
      <3>3. ~ EventFrame(1)
        BY <1>1, <3>1, <3>2 DEF EventFrame, END, IDLE
      <3>4. EndFrame(1)
        BY <1>1, <3>2, <3>3 DEF WireInv
      <3>5. wire[1] = END => over /\ Len(seen) >= atEnd
        BY <1>1, <3>4 DEF EndFrame
      <3> QED
        BY <3>1, <3>2, <3>5
    <2> QED
      BY <2>1, <2>2
  <1>4. Types'
    BY <1>0, <1>2, <1>3 DEF Types
  <1>5. PageInv'
    BY <1>0 DEF PageInv, Page
  <1>6. WireInv'
    BY <1>0, <1>2 DEF WireInv
  <1>7. ClientInv'
    BY <1>0, <1>3 DEF ClientInv
  <1> QED
    BY <1>4, <1>5, <1>6, <1>7

\* The invariant is inductive.
LEMMA StreamInductive == StreamInv /\ [StreamNext]_streamVars => StreamInv'
  <1> SUFFICES ASSUME StreamInv, [StreamNext]_streamVars PROVE StreamInv'
    OBVIOUS
  <1>1. ASSUME UNCHANGED <<log, over, atEnd, stream, wire, client, seen, closed>>
        PROVE  StreamInv'
    BY <1>1 DEF StreamInv, Types, PageInv, Page, WireInv, EventFrame, EndFrame, ClientInv
  <1>2. CASE Connect
    BY <1>1, <1>2, OpenStep DEF Connect, refuse_event_stream, run
  <1>3. ASSUME NEW c \in Connections, Serve(c) PROVE StreamInv'
    BY <1>3, ReadStep, SendStep, EndStep, LeftStep DEF Serve
  <1>4. CASE UNCHANGED streamVars
    BY <1>1, <1>4 DEF streamVars
  <1> QED
    BY <1>2, <1>3, <1>4, RunStep, ReceiveStep, DropStep DEF StreamNext

\* For any timeline, page size, number of connections and losses, the client is given
\* the events from the first, in order, none twice and none left out, and once told that
\* the run ended it has all there were at its end.
THEOREM StreamEndIsComplete == StreamSpec => []EndIsComplete
  <1>1. StreamInv => EndIsComplete
    BY DEF StreamInv, ClientInv, EndIsComplete
  <1> QED
    BY <1>1, StreamStarts, StreamInductive, PTL DEF StreamSpec

\* The connections that hold a slot, and those of them that the client has left.
Held == {c \in Connections : stream[c].at # "closed"}

Behind == Held \ {client}

\* The count is of the connections that are open, and no more are left behind than
\* were lost: what ended of itself was closed before the client let go of it.
SlotInv ==
    /\ slots = Cardinality(Held)
    /\ losses \in Nat
    /\ Cardinality(Behind) <= losses
    /\ refused => losses >= CONCURRENT_EVENT_STREAMS

\* Connections are few, and are counted.
LEMMA HeldCounted ==
    /\ IsFiniteSet(Held) /\ Cardinality(Held) \in Nat
    /\ IsFiniteSet(Behind) /\ Cardinality(Behind) \in Nat
  <1>1. IsFiniteSet(Held) /\ IsFiniteSet(Behind)
    BY StreamsAssumption, FS_Subset DEF Held, Behind
  <1> QED
    BY <1>1, FS_CardinalityType

\* A generator that goes on, or that nobody opened, holds what it held.
LEMMA SlotsStay ==
    ASSUME SlotInv, Held' = Held, UNCHANGED <<slots, client, refused, losses>>
    PROVE  SlotInv'
BY DEF SlotInv, Behind

\* A generator that ends gives back its slot.
LEMMA SlotReleased ==
    ASSUME StreamInv, SlotInv, NEW c \in Connections, stream[c].at # "closed", release(c),
           UNCHANGED <<client, refused, losses>>
    PROVE  SlotInv'
  <1>1. Held' = Held \ {c} /\ c \in Held
    BY DEF Held, release, StreamInv, Types, Closed
  <1>2. Cardinality(Held') = Cardinality(Held) - 1
    BY <1>1, HeldCounted, FS_RemoveElement
  <1>3. Cardinality(Behind') <= Cardinality(Behind)
    <2>1. Behind' \subseteq Behind
      BY <1>1 DEF Behind
    <2> QED
      BY <2>1, HeldCounted, FS_Subset
  <1>4. Cardinality(Behind') \in Nat
    <2>1. IsFiniteSet(Behind')
      BY <1>1, HeldCounted, FS_Subset DEF Behind
    <2> QED
      BY <2>1, FS_CardinalityType
  <1> QED
    BY <1>2, <1>3, <1>4, HeldCounted DEF SlotInv, release

\* The client counts only while it listens on a connection that is open.
LEMMA BehindIs ==
    ASSUME StreamInv, client = nowhere \/ stream[client].at = "closed"
    PROVE  Behind = Held
  <1>1. client \notin Held
    BY StreamsAssumption DEF Held
  <1> QED
    BY <1>1 DEF Behind

LEMMA SlotStep == StreamInv /\ SlotInv /\ [StreamNext]_streamVars => SlotInv'
  <1> SUFFICES ASSUME StreamInv, SlotInv, [StreamNext]_streamVars PROVE SlotInv'
    OBVIOUS
  <1>0. stream \in [Connections -> Stream] /\ client \in Connections \cup {nowhere}
    BY DEF StreamInv, Types
  <1>1. ASSUME stream' = stream, UNCHANGED <<slots, client, refused, losses>> PROVE SlotInv'
    BY <1>1, SlotsStay DEF Held
  <1>2. CASE Append_event \/ End_run \/ receive_event
    BY <1>1, <1>2 DEF Append_event, End_run, receive_event, told, run
  <1>3. CASE UNCHANGED streamVars
    BY <1>1, <1>3 DEF streamVars
  <1>4. ASSUME NEW c \in Connections, open_event_stream(c) PROVE SlotInv'
    <2>1. Held' = Held \cup {c} /\ c \notin Held
      BY <1>0, <1>4 DEF Held, open_event_stream, Closed
    <2>2. Cardinality(Held') = Cardinality(Held) + 1
      BY <2>1, HeldCounted, FS_AddElement
    <2>3. Behind = Held /\ Behind' = Held
      BY <1>4, <2>1, BehindIs DEF open_event_stream, connecting, Behind
    <2> QED
      BY <1>4, <2>2, <2>3 DEF open_event_stream, told, SlotInv
  <1>5. CASE refuse_event_stream
    <2>1. Behind = Held
      BY <1>5, BehindIs DEF refuse_event_stream, connecting
    <2>2. Held' = Held /\ Behind' = Behind
      BY <1>5 DEF refuse_event_stream, Held, Behind
    <2>3. losses >= CONCURRENT_EVENT_STREAMS
      BY <1>5, <2>1, StreamsAssumption, HeldCounted DEF SlotInv, refuse_event_stream, may_reserve
    <2> QED
      BY <1>5, <2>2, <2>3 DEF refuse_event_stream, SlotInv
  <1>6. ASSUME NEW c \in Connections, Serve(c) PROVE SlotInv'
    <2>1. CASE end_stream(c) \/ end_idle(c) \/ disconnected(c)
      BY <2>1, SlotReleased DEF end_stream, end_idle, disconnected, page_sent, told
    <2>2. CASE read_status(c) \/ read_events(c) \/ send_event(c) \/ next_page(c) \/ keepalive(c)
      <3>1. /\ stream[c].at # "closed" /\ stream'[c].at # "closed"
            /\ \A d \in Connections \ {c} : stream'[d] = stream[d]
        BY <1>0, <2>2 DEF read_status, read_events, send_event, next_page, keepalive, page_sent,
                          Stream
      <3>2. Held' = Held
        BY <3>1 DEF Held
      <3> QED
        BY <2>2, <3>2, SlotsStay
           DEF read_status, read_events, send_event, next_page, keepalive, told
    <2> QED
      BY <1>6, <2>1, <2>2 DEF Serve
  <1>7. CASE receive_end
    <2>1. stream[client].at = "closed"
      <3>1. wire \in Seq(Int) /\ wire # << >> /\ Head(wire) \in {END, IDLE}
        BY <1>7 DEF receive_end, StreamInv, Types
      <3>2. 1 \in 1..Len(wire) /\ wire[1] \in {END, IDLE}
        BY <3>1
      <3>3. ~ EventFrame(1)
        BY <3>2 DEF EventFrame, END, IDLE, StreamInv, Types
      <3> QED
        BY <3>2, <3>3 DEF StreamInv, WireInv, EndFrame
    <2>2. Held' = Held /\ Behind' = Held
      BY <1>7, StreamsAssumption DEF receive_end, Held, Behind
    <2> QED
      BY <1>7, <2>1, <2>2, BehindIs DEF receive_end, SlotInv
  <1>8. CASE lose
    <2>1. Held' = Held /\ Behind' \subseteq Behind \cup {client}
      BY <1>8 DEF lose, Held, Behind
    <2>2. /\ IsFiniteSet(Behind \cup {client})
          /\ Cardinality(Behind \cup {client}) <= Cardinality(Behind) + 1
      <3>1. client \notin Behind
        BY DEF Behind
      <3>2. Cardinality(Behind \cup {client}) = Cardinality(Behind) + 1
        BY <3>1, HeldCounted, FS_AddElement
      <3> QED
        BY <3>2, HeldCounted, FS_AddElement
    <2>3. Cardinality(Behind') <= Cardinality(Behind \cup {client}) /\ Cardinality(Behind') \in Nat
      BY <2>1, <2>2, FS_Subset, FS_CardinalityType
    <2>4. Cardinality(Behind \cup {client}) \in Nat
      BY <2>2, FS_CardinalityType
    <2> QED
      BY <1>8, <2>1, <2>2, <2>3, <2>4, HeldCounted, StreamsAssumption DEF lose, told, SlotInv
  <1> QED
    BY <1>2, <1>3, <1>4, <1>5, <1>6, <1>7, <1>8 DEF StreamNext, Connect

\* A client is turned away only after it lost as many connections as there are slots, for
\* any run, page size and number of connections: what StreamFinishes says of a refusal.
THEOREM RefusalHasCause == StreamSpec => [](refused => losses >= CONCURRENT_EVENT_STREAMS)
  <1>1. StreamInit => SlotInv
    <2> SUFFICES ASSUME StreamInit PROVE SlotInv
      OBVIOUS
    <2>1. Held = {} /\ Behind = {}
      BY DEF StreamInit, Held, Behind, Closed
    <2> QED
      BY <2>1, FS_EmptySet DEF StreamInit, SlotInv
  <1>2. SlotInv => (refused => losses >= CONCURRENT_EVENT_STREAMS)
    BY DEF SlotInv
  <1> QED
    BY <1>1, <1>2, StreamStarts, StreamInductive, SlotStep, PTL DEF StreamSpec
==================================================================================
