----------------------------- MODULE VerdictProofs -----------------------------
(***************************************************************************)
(* That a run's verdict says what happened, for any contracts, tools,       *)
(* states, surfaces and number of calls: the row and the report agree, a    *)
(* run that passed earned it, and whoever is blamed did it.                 *)
(*                                                                          *)
(* IInv says of each call what it has done and what its last event holds,   *)
(* of each event what stands behind it, and of the verdict that it is the   *)
(* engine's judgement of what verify read, whatever happens afterwards.     *)
(***************************************************************************)
EXTENDS Verdict, SetTheorems, SequenceTheorems

\* what a verdict is about: the record and the target as they are until verify reads
\* them, and then as it read them
Read == IF judging.gated THEN judging.events ELSE timeline
Shown == IF judging.gated THEN judging.shown ELSE captured
Final == IF judging.gated /\ judging.final # None THEN judging.final ELSE target

\* which points a call passes through before its end
Asked(c) == call[c].pc \in {"awaiting", "approved", "open", "executed"}

\* what a call knows of itself, and what it has not done yet
CallBegun(c) ==
    /\ Asked(c) => call[c].tool \in Tools /\ call[c].rid \in Requests /\ call[c].before \in States
    /\ call[c].pc \in {"idle", "awaiting", "approved", "open", "withdrawn"} => ~call[c].moved
    /\ call[c].pc # "done" => call[c].ended = 0
    /\ call[c].pc = "idle" => call[c].tool = None
    /\ call[c].pc = "executed" => call[c].left \in States /\ call[c].result \in Results

\* a call between its two observations has the target to itself
CallAlone(c) ==
    /\ call[c].pc = "open" => target = call[c].before
    /\ call[c].pc = "executed" =>
          target = call[c].left /\ (call[c].moved <=> call[c].left # call[c].before)
    /\ \A d \in Calls : call[c].pc \in {"open", "executed"} /\ call[d].pc \in {"open", "executed"}
                           => c = d

\* an approval was recorded for a call that went on under one
CallApproved(c) ==
    call[c].pc = "approved" \/ (call[c].pc \in {"open", "executed"}
                                /\ call[c].tool \in confirmed_tools(contract)) =>
        \E j \in DOMAIN Read : /\ Read[j].type = "confirmation_approved"
                                   /\ Read[j].corr = c

\* the event that ended a call whose tool was executed says this of it
EndsCall(e, c) ==
    /\ e.type = (IF call[c].result = "raised" THEN "tool_invocation_failed"
                 ELSE "tool_invocation_completed")
    /\ e.actor = "agent" /\ e.corr = c
    /\ e.tool = call[c].tool /\ e.rid = call[c].rid
    /\ call[c].tool \in Tools /\ call[c].rid \in Requests
    /\ call[c].before \in States /\ call[c].left \in States
    /\ e.before = call[c].before
    /\ e.effect = effect_context(EffectMap[e.tool], e.after)

\* and, of a call that was not disturbed, no more than the truth
EndsTruly(e, c) ==
    /\ e.after \in {call[c].left, None}
    /\ call[c].moved <=> call[c].left # call[c].before

CallEnded(c) ==
    call[c].pc = "done" =>
        \/ ~call[c].moved /\ call[c].ended = 0
        \/ /\ ~call[c].moved /\ call[c].ended \in DOMAIN Read
           /\ Read[call[c].ended].type = "tool_invocation_cancelled"
        \/ /\ call[c].ended \in DOMAIN Read
           /\ EndsCall(Read[call[c].ended], c)
           /\ Disturbed \/ EndsTruly(Read[call[c].ended], c)

CallInv(c) ==
    CallBegun(c) /\ (Disturbed \/ CallAlone(c)) /\ CallApproved(c) /\ CallEnded(c)

\* every event that the engine reads has something behind it
EventInv(i) ==
    LET e == Read[i] IN
    /\ e.type \in {"tool_invocation_completed", "tool_invocation_failed"} =>
          \E c \in Calls : call[c].pc = "done" /\ call[c].ended = i
    /\ e.type = "tool_invocation_cancelled" => e.before = None
    /\ is_invocation_start(e) =>
          \E c \in Calls : call[c].pc # "idle" /\ call[c].tool = e.tool /\ e.tool \in Tools
    /\ e.type = "tool_invocation_completed" /\ e.tool \in confirmed_tools(contract) =>
          approved_before(Read, i)
    /\ e.type = "tool_surface_captured" => Shown # <<>>

\* a tool that came, went or changed by more than its description left a delta
SurfaceInv ==
    \/ \E i \in DOMAIN Read : /\ Read[i].type = "tool_surface_changed"
                                  /\ Read[i].kind \in DefaultFailingKinds
    \/ \A n \in DOMAIN Shown : SameTools(Shown[1], Shown[n])

\* the seal's one write, of what verify read
Judgement ==
    LET ev == Evaluation(contract, EffectMap, Read, initial, Final)
        all == AllFindings(ev)
    IN [findings |-> all, row |-> with_recorded_warnings(all), primary |-> primary_failure(all),
        report |-> compose_outcome_report(ev, Read)]

SealInv ==
    /\ ~Open => \A c \in Calls : call[c].pc \in {"idle", "done"}
    /\ verdict # None => ~Open
    /\ Sealed => judging.final # None /\ verdict = Judgement

IInv ==
    /\ TypeOK
    /\ \A c \in Calls : CallInv(c)
    /\ \A i \in DOMAIN Read : EventInv(i)
    /\ SurfaceInv
    /\ SealInv

----------------------------------------------------------------------------
\* Timelines

LEMMA RunEventIs ==
    ASSUME NEW type \in EventType, NEW actor \in EventActor,
           NEW tool \in Tools \cup Named \cup {None}, NEW corr \in Calls \cup {None}
    PROVE  /\ RunEvent(type, actor, tool, corr) \in Event
           /\ RunEvent(type, actor, tool, corr).type = type
           /\ RunEvent(type, actor, tool, corr).actor = actor
           /\ RunEvent(type, actor, tool, corr).tool = tool
           /\ RunEvent(type, actor, tool, corr).corr = corr
           /\ RunEvent(type, actor, tool, corr).before = None
           /\ RunEvent(type, actor, tool, corr).kind = None
BY DEF RunEvent, Event, MaybeState

\* One event more.
LEMMA One ==
    ASSUME NEW tl \in Seq(Event), NEW e \in Event
    PROVE  /\ tl \o <<e>> \in Seq(Event)
           /\ Len(tl) \in Nat /\ DOMAIN tl = 1..Len(tl)
           /\ Len(tl \o <<e>>) = Len(tl) + 1
           /\ DOMAIN (tl \o <<e>>) = 1..(Len(tl) + 1)
           /\ \A i \in DOMAIN tl : (tl \o <<e>>)[i] = tl[i]
           /\ (tl \o <<e>>)[Len(tl) + 1] = e
OBVIOUS

\* Two events more.
LEMMA Two ==
    ASSUME NEW tl \in Seq(Event), NEW e \in Event, NEW f \in Event
    PROVE  /\ tl \o <<e, f>> \in Seq(Event)
           /\ Len(tl) \in Nat /\ DOMAIN tl = 1..Len(tl)
           /\ Len(tl \o <<e, f>>) = Len(tl) + 2
           /\ DOMAIN (tl \o <<e, f>>) = 1..(Len(tl) + 2)
           /\ \A i \in DOMAIN tl : (tl \o <<e, f>>)[i] = tl[i]
           /\ (tl \o <<e, f>>)[Len(tl) + 1] = e
           /\ (tl \o <<e, f>>)[Len(tl) + 2] = f
OBVIOUS

\* Any events more.
LEMMA More ==
    ASSUME NEW tl \in Seq(Event), NEW es \in Seq(Event)
    PROVE  /\ tl \o es \in Seq(Event)
           /\ Len(tl) \in Nat /\ DOMAIN tl = 1..Len(tl)
           /\ Len(es) \in Nat /\ DOMAIN es = 1..Len(es)
           /\ Len(tl \o es) = Len(tl) + Len(es)
           /\ DOMAIN (tl \o es) = 1..(Len(tl) + Len(es))
           /\ \A i \in DOMAIN tl : (tl \o es)[i] = tl[i]
           /\ \A n \in DOMAIN es : (tl \o es)[Len(tl) + n] = es[n]
           /\ \A i \in DOMAIN (tl \o es) :
                 i \in DOMAIN tl \/ \E n \in DOMAIN es : i = Len(tl) + n
<1>1. /\ tl \o es \in Seq(Event)
      /\ Len(tl) \in Nat /\ DOMAIN tl = 1..Len(tl)
      /\ Len(es) \in Nat /\ DOMAIN es = 1..Len(es)
      /\ Len(tl \o es) = Len(tl) + Len(es)
      /\ DOMAIN (tl \o es) = 1..(Len(tl) + Len(es))
      /\ \A i \in DOMAIN tl : (tl \o es)[i] = tl[i]
      /\ \A n \in DOMAIN es : (tl \o es)[Len(tl) + n] = es[n]
  OBVIOUS
<1>2. ASSUME NEW i \in DOMAIN (tl \o es), i \notin DOMAIN tl
      PROVE  i - Len(tl) \in DOMAIN es /\ i = Len(tl) + (i - Len(tl))
  BY <1>1, <1>2
<1> QED BY <1>1, <1>2

\* A finite set listed: every element is there.
LEMMA Listed ==
    ASSUME NEW S, IsFiniteSet(S)
    PROVE  /\ SetToSeq(S) \in [1..Cardinality(S) -> S] /\ Cardinality(S) \in Nat
           /\ \A x \in S : \E n \in DOMAIN SetToSeq(S) : SetToSeq(S)[n] = x
<1> DEFINE n == Cardinality(S)
           f == SetToSeq(S)
<1>1. n \in Nat /\ ExistsBijection(1..n, S)
  BY FS_CardinalityType
<1>2. f \in [1..n -> S] /\ IsInjective(f)
  BY <1>1 DEF SetToSeq, ExistsBijection, Bijection, Injection
<1>3. f \in Injection(1..n, S)
  BY <1>2 DEF Injection
<1>4. Cardinality(1..n) = Cardinality(S)
  BY <1>1, FS_Interval
<1>5. f \in Surjection(1..n, S)
  BY <1>3, <1>4, FS_Injection
<1> QED BY <1>1, <1>2, <1>5 DEF Surjection

----------------------------------------------------------------------------
\* The type invariant

LEMMA TargetSurface ==
    ASSUME NEW s \in Surfaces, NEW t \in Surfaces
    PROVE  /\ IsFiniteSet(diff_surfaces(s, t))
           /\ \A d \in diff_surfaces(s, t) : d.tool \in Named /\ d.kind \in SurfaceDeltaKind
<1> DEFINE names == DOMAIN s \cup DOMAIN t
           kinds == {"added", "removed", "schema_change", "hint_change", "description_change"}
           f == [x \in names \X kinds |-> SurfaceDelta(x[1], x[2])]
           all == {f[x] : x \in names \X kinds}
<1>1. IsFiniteSet(names)
  BY TargetAssumption, FS_Union
<1>2. IsFiniteSet(kinds)
  <2>1. IsFiniteSet({"added"} \cup {"removed"})
    BY FS_Singleton, FS_Union
  <2>2. IsFiniteSet({"added"} \cup {"removed"} \cup {"schema_change"})
    BY <2>1, FS_AddElement
  <2>3. IsFiniteSet({"added"} \cup {"removed"} \cup {"schema_change"} \cup {"hint_change"})
    BY <2>2, FS_AddElement
  <2>4. IsFiniteSet({"added"} \cup {"removed"} \cup {"schema_change"} \cup {"hint_change"}
                       \cup {"description_change"})
    BY <2>3, FS_AddElement
  <2>5. kinds = {"added"} \cup {"removed"} \cup {"schema_change"} \cup {"hint_change"}
                  \cup {"description_change"}
    OBVIOUS
  <2> QED BY <2>4, <2>5
<1>3. IsFiniteSet(all)
  <2>1. IsFiniteSet(names \X kinds)
    BY <1>1, <1>2, FS_Product
  <2> HIDE DEF names, kinds, f
  <2> QED BY <2>1, ImageFinite
<1>4. ASSUME NEW d \in diff_surfaces(s, t)
      PROVE  \E n \in names, k \in kinds : d = SurfaceDelta(n, k)
  BY <1>4 DEF diff_surfaces, differing_kinds
<1>5. ASSUME NEW d \in diff_surfaces(s, t) PROVE d \in all
  <2>1. PICK n \in names, k \in kinds : d = SurfaceDelta(n, k)
    BY <1>4
  <2>2. <<n, k>> \in names \X kinds /\ f[<<n, k>>] = d
    BY <2>1
  <2> QED BY <2>2
<1>6. IsFiniteSet(diff_surfaces(s, t))
  <2> HIDE DEF all
  <2> QED BY <1>3, <1>5, FS_Subset
<1>7. names \subseteq Named /\ kinds \subseteq SurfaceDeltaKind
  <2>1. \A r \in Surfaces : DOMAIN r \subseteq Named
    BY DEF Named
  <2>2. kinds \subseteq SurfaceDeltaKind
    BY DEF SurfaceDeltaKind, DefaultFailingKinds
  <2> QED BY <2>1, <2>2
<1>8. \A d \in diff_surfaces(s, t) : d.tool \in Named /\ d.kind \in SurfaceDeltaKind
  <2> HIDE DEF names, kinds
  <2> QED BY <1>4, <1>7 DEF SurfaceDelta
<1> QED BY <1>6, <1>8

\* What a capture adds: the capture, then a delta event for each difference.
LEMMA Captures ==
    ASSUME NEW s \in Surfaces, TypeOK
    PROVE  /\ CaptureEvents(s) \in Seq(Event)
           /\ \A n \in DOMAIN CaptureEvents(s) :
                 CaptureEvents(s)[n].type \in {"tool_surface_captured", "tool_surface_changed"}
           /\ captured # <<>> =>
                 \A d \in diff_surfaces(captured[Len(captured)], s) :
                    \E n \in DOMAIN CaptureEvents(s) :
                        /\ CaptureEvents(s)[n].type = "tool_surface_changed"
                        /\ CaptureEvents(s)[n].kind = d.kind
<1> DEFINE deltas == IF captured = <<>> THEN {}
                     ELSE diff_surfaces(captured[Len(captured)], s)
           listed == SetToSeq(deltas)
           head == <<RunEvent("tool_surface_captured", "harness", None, None)>>
           rest == [n \in DOMAIN listed |-> DeltaEvent(listed[n])]
<1>1. IsFiniteSet(deltas) /\ \A d \in deltas : d.tool \in Named /\ d.kind \in SurfaceDeltaKind
  <2>1. captured # <<>> => captured[Len(captured)] \in Surfaces
    BY DEF TypeOK
  <2> QED BY <2>1, TargetSurface, FS_EmptySet
<1> HIDE DEF deltas
<1>2. /\ listed \in [1..Cardinality(deltas) -> deltas] /\ Cardinality(deltas) \in Nat
      /\ \A d \in deltas : \E n \in DOMAIN listed : listed[n] = d
  BY <1>1, Listed
<1> HIDE DEF listed
<1>3. ASSUME NEW d \in deltas
      PROVE  /\ DeltaEvent(d) \in Event /\ DeltaEvent(d).type = "tool_surface_changed"
             /\ DeltaEvent(d).kind = d.kind
  <2> DEFINE e == RunEvent("tool_surface_changed", "harness", d.tool, None)
  <2>1. e \in Event /\ e.type = "tool_surface_changed"
    BY <1>1, RunEventIs DEF EventActor, EventType, TerminalEvents
  <2>2. DeltaEvent(d) = [e EXCEPT !.kind = d.kind]
    BY DEF DeltaEvent
  <2> HIDE DEF e
  <2> QED BY <1>1, <2>1, <2>2 DEF Event
<1>4. /\ rest \in [1..Cardinality(deltas) -> Event] /\ DOMAIN rest = DOMAIN listed
      /\ DOMAIN rest = 1..Cardinality(deltas)
      /\ \A n \in DOMAIN rest : rest[n].type = "tool_surface_changed"
      /\ \A n \in DOMAIN rest : rest[n].kind = listed[n].kind
  BY <1>2, <1>3
<1> HIDE DEF rest
<1>5. /\ head \in Seq(Event) /\ Len(head) = 1 /\ DOMAIN head = 1..1
      /\ head[1].type = "tool_surface_captured"
  <2>1. /\ RunEvent("tool_surface_captured", "harness", None, None) \in Event
        /\ RunEvent("tool_surface_captured", "harness", None, None).type = "tool_surface_captured"
    BY RunEventIs DEF EventActor, EventType, TerminalEvents
  <2> QED BY <2>1
<1> HIDE DEF head
<1>6. rest \in Seq(Event)
  BY <1>2, <1>4
<1>7. CaptureEvents(s) = head \o rest
  BY DEF CaptureEvents, head, rest, listed, deltas
<1>8. /\ head \o rest \in Seq(Event)
      /\ (head \o rest)[1] = head[1]
      /\ \A n \in DOMAIN rest : 1 + n \in DOMAIN (head \o rest) /\ (head \o rest)[1 + n] = rest[n]
      /\ \A i \in DOMAIN (head \o rest) : i = 1 \/ \E n \in DOMAIN rest : i = 1 + n
  <2>1. DOMAIN head = 1..Len(head)
    BY <1>5
  <2> QED BY <2>1, <1>5, <1>6, More
<1>9. \A n \in DOMAIN (head \o rest) :
         (head \o rest)[n].type \in {"tool_surface_captured", "tool_surface_changed"}
  BY <1>4, <1>5, <1>8
<1>10. ASSUME captured # <<>>, NEW d \in diff_surfaces(captured[Len(captured)], s)
       PROVE  \E n \in DOMAIN (head \o rest) : /\ (head \o rest)[n].type = "tool_surface_changed"
                                               /\ (head \o rest)[n].kind = d.kind
  <2>1. d \in deltas
    BY <1>10 DEF deltas
  <2>2. PICK n \in DOMAIN listed : listed[n] = d
    BY <2>1, <1>2
  <2>3. n \in DOMAIN rest /\ rest[n].kind = d.kind /\ rest[n].type = "tool_surface_changed"
    BY <2>2, <1>4
  <2> QED BY <2>3, <1>8
<1> QED BY <1>7, <1>8, <1>9, <1>10

\* The events of a call are events, and say what they are.
LEMMA CallEventIs ==
    ASSUME TypeOK, NEW c \in Calls, NEW type \in EventType, NEW actor \in EventActor
    PROVE  /\ CallEvent(type, actor, c) \in Event
           /\ CallEvent(type, actor, c).type = type
           /\ CallEvent(type, actor, c).actor = actor
           /\ CallEvent(type, actor, c).tool = call[c].tool
           /\ CallEvent(type, actor, c).corr = c
           /\ CallEvent(type, actor, c).before = None
<1>1. call[c].tool \in Tools \cup {None}
  BY DEF TypeOK, CallRecord
<1> QED BY <1>1, RunEventIs DEF CallEvent

LEMMA StartEventIs ==
    ASSUME NEW c \in Calls, NEW tool \in Tools, NEW rid \in Requests
    PROVE  /\ StartEvent(c, tool, rid) \in Event
           /\ StartEvent(c, tool, rid).type = "tool_invocation_started"
           /\ StartEvent(c, tool, rid).tool = tool
           /\ StartEvent(c, tool, rid).before = None
<1> DEFINE e == RunEvent("tool_invocation_started", "agent", tool, c)
<1>1. e \in Event /\ e.type = "tool_invocation_started" /\ e.tool = tool /\ e.before = None
  BY RunEventIs DEF EventActor, EventType, TerminalEvents
<1>2. StartEvent(c, tool, rid) = [e EXCEPT !.rid = rid]
  BY DEF StartEvent
<1> HIDE DEF e
<1> QED BY <1>1, <1>2 DEF Event

LEMMA TerminalEventIs ==
    ASSUME TypeOK, NEW c \in Calls, NEW after \in MaybeState,
           call[c].tool \in Tools, call[c].result \in Results
    PROVE  /\ TerminalEvent(c, after) \in Event
           /\ TerminalEvent(c, after).type = (IF call[c].result = "raised"
                 THEN "tool_invocation_failed" ELSE "tool_invocation_completed")
           /\ TerminalEvent(c, after).actor = "agent"
           /\ TerminalEvent(c, after).corr = c
           /\ TerminalEvent(c, after).tool = call[c].tool
           /\ TerminalEvent(c, after).rid = call[c].rid
           /\ TerminalEvent(c, after).before = call[c].before
           /\ TerminalEvent(c, after).after = after
           /\ TerminalEvent(c, after).effect = effect_context(EffectMap[call[c].tool], after)
<1> DEFINE type == IF call[c].result = "raised" THEN "tool_invocation_failed"
                   ELSE "tool_invocation_completed"
           reported == IF call[c].result = "raised" THEN None ELSE call[c].result
           effect == effect_context(EffectMap[call[c].tool], after)
           e == CallEvent(type, "agent", c)
<1>1. /\ e \in Event /\ e.type = type /\ e.actor = "agent" /\ e.corr = c
      /\ e.tool = call[c].tool
  BY CallEventIs DEF EventActor, EventType, TerminalEvents
<1>2. reported \in Reports \cup {None} /\ effect \in Effect
  BY DEF Results, Effect
<1>3. call[c].rid \in Requests \cup {None} /\ call[c].before \in MaybeState
  BY DEF TypeOK, CallRecord
<1>4. TerminalEvent(c, after) =
         [e EXCEPT !.rid = call[c].rid, !.reported = reported, !.before = call[c].before,
                   !.after = after, !.effect = effect]
  BY DEF TerminalEvent
<1> HIDE DEF type, reported, effect, e
<1>5. /\ TerminalEvent(c, after) \in Event
      /\ TerminalEvent(c, after).type = type /\ TerminalEvent(c, after).actor = "agent"
      /\ TerminalEvent(c, after).corr = c /\ TerminalEvent(c, after).tool = call[c].tool
      /\ TerminalEvent(c, after).rid = call[c].rid
      /\ TerminalEvent(c, after).before = call[c].before
      /\ TerminalEvent(c, after).after = after /\ TerminalEvent(c, after).effect = effect
  BY <1>1, <1>2, <1>3, <1>4 DEF Event
<1> QED BY <1>5 DEF type, effect

LEMMA NoCallIs == NoCall \in CallRecord
BY DEF NoCall, CallRecord, CallPoint, MaybeState

\* Every step keeps the types.
LEMMA TypeStep ==
    ASSUME TypeOK, \A c \in Calls : CallBegun(c), [Next]_vars
    PROVE  TypeOK'
<1> DEFINE Calm == /\ timeline' \in Seq(Event) /\ Len(timeline') >= Len(timeline)
                   /\ ~judging.gated
                   /\ UNCHANGED <<contract, initial, page, captured, edits, judging, verdict>>
           Typed(r) == r \in CallRecord /\ r.ended <= Len(timeline')
<1>1. /\ call \in [Calls -> CallRecord] /\ timeline \in Seq(Event)
      /\ \A c \in Calls : call[c] \in CallRecord /\ call[c].ended <= Len(timeline)
      /\ Len(timeline) \in Nat
  BY DEF TypeOK
<1>2. ASSUME NEW c \in Calls, NEW r, Calm, Typed(r), call' = [call EXCEPT ![c] = r], target' = target
      PROVE  TypeOK'
  <2>1. call' \in [Calls -> CallRecord]
    BY <1>1, <1>2
  <2>2. ASSUME NEW d \in Calls PROVE call'[d].ended <= Len(timeline')
    <3>1. call[d].ended \in Nat /\ Len(timeline') \in Nat
      BY <1>1, <1>2 DEF CallRecord
    <3>2. call'[d] = IF d = c THEN r ELSE call[d]
      BY <1>1, <1>2
    <3> QED BY <3>1, <3>2, <1>1, <1>2
  <2> QED BY <1>2, <2>1, <2>2 DEF TypeOK
<1>3. ASSUME NEW c \in Calls, NEW tool \in Tools, NEW rid \in Requests, Start(c, tool, rid)
      PROVE  TypeOK'
  <2> DEFINE r == [NoCall EXCEPT !.pc = "open", !.tool = tool, !.rid = rid, !.before = target]
  <2>1. Calm
    BY <1>1, <1>3, StartEventIs, One DEF Start, Open, ruling, append
  <2>2. Typed(r)
    <3>1. r \in CallRecord
      BY NoCallIs DEF CallRecord, CallPoint, MaybeState, TypeOK
    <3>2. r.ended = 0 /\ Len(timeline') \in Nat
      BY <2>1 DEF NoCall
    <3> QED BY <3>1, <3>2
  <2> QED BY <1>2, <1>3, <2>1, <2>2 DEF Start, Open, ruling
<1>4. ASSUME NEW c \in Calls, NEW tool \in Tools, NEW rid \in Requests, StartProtected(c, tool, rid)
      PROVE  TypeOK'
  <2> DEFINE r == [NoCall EXCEPT !.pc = "awaiting", !.tool = tool, !.rid = rid,
                                 !.before = target]
             e == RunEvent("confirmation_requested", "agent", tool, c)
  <2>1. e \in Event
    BY RunEventIs DEF EventType, EventActor
  <2>2. Calm
    <3> HIDE DEF e
    <3>1. timeline' = timeline \o <<StartEvent(c, tool, rid), e>>
      BY <1>4 DEF StartProtected, Open, ruling, append, e
    <3> QED BY <1>1, <1>4, <2>1, <3>1, StartEventIs, Two DEF StartProtected, Open, ruling
  <2>3. Typed(r)
    <3>1. r \in CallRecord
      BY NoCallIs DEF CallRecord, CallPoint, MaybeState, TypeOK
    <3>2. r.ended = 0 /\ Len(timeline') \in Nat
      BY <2>2 DEF NoCall
    <3> QED BY <3>1, <3>2
  <2> QED BY <1>2, <1>4, <2>2, <2>3 DEF StartProtected, Open, ruling
<1>5. ASSUME NEW c \in Calls, NEW pc \in CallPoint, Calm
      PROVE  /\ Typed([call[c] EXCEPT !.pc = pc])
             /\ \A n \in 0..Len(timeline') : Typed([call[c] EXCEPT !.pc = pc, !.ended = n])
  <2>1. call[c] \in CallRecord /\ call[c].ended \in Nat /\ Len(timeline') \in Nat
    BY <1>1, <1>5 DEF CallRecord
  <2>2. /\ [call[c] EXCEPT !.pc = pc] \in CallRecord
        /\ [call[c] EXCEPT !.pc = pc].ended = call[c].ended
    BY <2>1 DEF CallRecord
  <2>3. ASSUME NEW n \in 0..Len(timeline')
        PROVE  /\ [call[c] EXCEPT !.pc = pc, !.ended = n] \in CallRecord
               /\ [call[c] EXCEPT !.pc = pc, !.ended = n].ended = n
               /\ n <= Len(timeline')
    <3>1. n \in Nat /\ n <= Len(timeline')
      BY <2>1
    <3> QED BY <2>1, <3>1 DEF CallRecord
  <2>4. call[c].ended <= Len(timeline')
    BY <1>1, <1>5, <2>1
  <2>5. Typed([call[c] EXCEPT !.pc = pc])
    BY <2>2, <2>4
  <2> QED BY <2>3, <2>5
<1>6. ASSUME NEW c \in Calls, NEW tool \in Tools, RefuseMismatch(c, tool) PROVE TypeOK'
  <2> DEFINE e == RunEvent("tool_identity_mismatch", "harness", tool, c)
  <2>1. e \in Event
    BY RunEventIs DEF EventType, EventActor
  <2>2. Calm
    <3> HIDE DEF e
    <3>1. timeline' = timeline \o <<e>>
      BY <1>6 DEF RefuseMismatch, Open, ruling, append, e
    <3> QED BY <1>1, <1>6, <2>1, <3>1, One DEF RefuseMismatch, Open, ruling
  <2>3. call' = [call EXCEPT ![c] = [call[c] EXCEPT !.pc = "done"]] /\ target' = target
    BY <1>1, <1>6 DEF RefuseMismatch, Open, ruling
  <2>4. Typed([call[c] EXCEPT !.pc = "done"])
    <3>1. {"approved", "open", "done", "withdrawn"} \subseteq CallPoint
      BY DEF CallPoint
    <3> HIDE DEF Typed
    <3> QED BY <1>5, <3>1, <2>2
  <2> QED BY <1>2, <2>2, <2>3, <2>4
<1>7. ASSUME NEW c \in Calls, Approve(c) PROVE TypeOK'
  <2>1. Calm
    <3>1. CallEvent("confirmation_approved", "human", c) \in Event
      BY CallEventIs DEF EventType, EventActor
    <3> QED BY <1>1, <1>7, <3>1, One DEF Approve, Open, ruling, append
  <2>2. call' = [call EXCEPT ![c] = [call[c] EXCEPT !.pc = "approved"]] /\ target' = target
    BY <1>1, <1>7 DEF Approve, Open, ruling
  <2>3. Typed([call[c] EXCEPT !.pc = "approved"])
    <3>1. {"approved", "open", "done", "withdrawn"} \subseteq CallPoint
      BY DEF CallPoint
    <3> HIDE DEF Typed
    <3> QED BY <1>5, <3>1, <2>1
  <2> QED BY <1>2, <2>1, <2>2, <2>3
<1>8. ASSUME NEW c \in Calls, Refuse(c) PROVE TypeOK'
  <2>1. PICK refusal \in {<<"confirmation_denied", "human">>, <<"confirmation_expired", "harness">>} :
           timeline' = timeline \o <<CallEvent(refusal[1], refusal[2], c),
                                     CallEvent("tool_invocation_cancelled", "agent", c)>>
    BY <1>8 DEF Refuse, Open, ruling, append
  <2>2. /\ CallEvent(refusal[1], refusal[2], c) \in Event
        /\ CallEvent("tool_invocation_cancelled", "agent", c) \in Event
    BY CallEventIs DEF EventType, EventActor, TerminalEvents
  <2>3. Calm /\ Len(timeline') = Len(timeline) + 2
    BY <1>1, <1>8, <2>1, <2>2, Two DEF Refuse, Open, ruling
  <2>4. /\ call' = [call EXCEPT ![c] = [call[c] EXCEPT !.pc = "done", !.ended = Len(timeline) + 2]]
        /\ target' = target
    BY <1>1, <1>8 DEF Refuse, Open, ruling
  <2>5. Typed([call[c] EXCEPT !.pc = "done", !.ended = Len(timeline) + 2])
    <3>1. "done" \in CallPoint /\ Len(timeline) + 2 \in 0..Len(timeline')
      BY <1>1, <2>3 DEF CallPoint
    <3> HIDE DEF Typed
    <3> QED BY <1>5, <3>1, <2>3
  <2> QED BY <1>2, <2>3, <2>4, <2>5
<1>9. ASSUME NEW c \in Calls, Resume(c) PROVE TypeOK'
  <2> DEFINE e == [CallEvent("confirmation_cancelled", "harness", c) EXCEPT !.before = target]
  <2>1. e \in Event
    <3>1. CallEvent("confirmation_cancelled", "harness", c) \in Event
      BY CallEventIs DEF EventType, EventActor
    <3>2. target \in MaybeState
      BY DEF TypeOK, MaybeState
    <3> QED BY <3>1, <3>2 DEF Event
  <2>2. Calm
    <3> HIDE DEF e
    <3>1. timeline' = timeline \/ timeline' = timeline \o <<e>>
      BY <1>9 DEF Resume, Open, ruling, append, e
    <3>2. /\ timeline \o <<e>> \in Seq(Event)
          /\ Len(timeline \o <<e>>) = Len(timeline) + 1
      BY <1>1, <2>1, One
    <3>3. timeline' \in Seq(Event) /\ Len(timeline') >= Len(timeline)
      BY <1>1, <3>1, <3>2
    <3> QED BY <1>9, <3>3 DEF Resume, Open, ruling
  <2>3. PICK pc \in {"open", "withdrawn"} :
           call' = [call EXCEPT ![c] = [call[c] EXCEPT !.pc = pc]] /\ target' = target
    BY <1>1, <1>9 DEF Resume, Open, ruling
  <2>4. Typed([call[c] EXCEPT !.pc = pc])
    <3>1. {"approved", "open", "done", "withdrawn"} \subseteq CallPoint
      BY DEF CallPoint
    <3> HIDE DEF Typed
    <3> QED BY <1>5, <3>1, <2>2
  <2> QED BY <1>2, <2>2, <2>3, <2>4
<1>10. ASSUME NEW c \in Calls, NEW state \in States, NEW result \in Results, Execute(c, state, result)
       PROVE  TypeOK'
  <2> DEFINE r == [call[c] EXCEPT !.pc = "executed", !.result = result,
                                  !.moved = (state # target), !.left = state]
  <2>1. call' = [call EXCEPT ![c] = r]
    BY <1>1, <1>10 DEF Execute, Open, ruling
  <2>2. r \in CallRecord /\ r.ended = call[c].ended
    BY <1>1 DEF CallRecord, CallPoint, MaybeState
  <2>3. call' \in [Calls -> CallRecord] /\ \A d \in Calls : call'[d].ended = call[d].ended
    BY <1>1, <2>1, <2>2
  <2>4. \A d \in Calls : call'[d].ended <= Len(timeline')
    BY <1>1, <1>10, <2>3 DEF Execute, Open, ruling
  <2> QED BY <1>10, <2>3, <2>4 DEF Execute, Open, ruling, TypeOK
<1>11. ASSUME NEW c \in Calls, NEW after \in States \cup {None}, Terminate(c, after) PROVE TypeOK'
  <2>1. call[c].tool \in Tools /\ call[c].result \in Results
    BY <1>11 DEF CallBegun, Asked, Terminate
  <2>2. Calm /\ Len(timeline') = Len(timeline) + 1
    <3>1. TerminalEvent(c, after) \in Event
      BY <2>1, TerminalEventIs DEF MaybeState
    <3> QED BY <1>1, <1>11, <3>1, One DEF Terminate, Open, ruling, append
  <2>3. /\ call' = [call EXCEPT ![c] = [call[c] EXCEPT !.pc = "done", !.ended = Len(timeline) + 1]]
        /\ target' = target
    BY <1>1, <1>11 DEF Terminate, Open, ruling
  <2>4. Typed([call[c] EXCEPT !.pc = "done", !.ended = Len(timeline) + 1])
    <3>1. "done" \in CallPoint /\ Len(timeline) + 1 \in 0..Len(timeline')
      BY <1>1, <2>2 DEF CallPoint
    <3> HIDE DEF Typed
    <3> QED BY <1>5, <3>1, <2>2
  <2> QED BY <1>2, <2>2, <2>3, <2>4
<1>12. ASSUME NEW state \in States, Edit(state) PROVE TypeOK'
  BY <1>12, VerdictAssumption DEF Edit, ruling, TypeOK
<1>13. ASSUME NEW surface \in Surfaces, Redefine(surface) PROVE TypeOK'
  BY <1>13 DEF Redefine, ruling, TypeOK
<1>14. ASSUME Capture PROVE TypeOK'
  <2>1. page \in Surfaces
    BY DEF TypeOK
  <2>2. timeline' \in Seq(Event) /\ Len(timeline') >= Len(timeline)
    BY <1>1, <1>14, <2>1, Captures, More DEF Capture, append
  <2>3. captured' \in Seq(Surfaces) /\ Len(captured') <= MaxCaptures
    BY <1>14, <2>1, VerdictAssumption DEF Capture, TypeOK
  <2>4. \A c \in Calls : call'[c].ended <= Len(timeline')
    <3> TAKE c \in Calls
    <3>1. call'[c] = call[c] /\ call[c].ended \in Nat /\ Len(timeline') \in Nat
      BY <1>1, <1>14, <2>2 DEF Capture, CallRecord
    <3> QED BY <1>1, <2>2, <3>1
  <2> QED BY <1>14, <2>2, <2>3, <2>4 DEF Capture, ruling, TypeOK
<1>15. ASSUME Gate PROVE TypeOK'
  <2>1. judging' \in [gated : BOOLEAN, events : Seq(Event), shown : Seq(Surfaces),
                     final : MaybeState]
    BY <1>15 DEF Gate, TypeOK, MaybeState
  <2>2. \A c \in Calls : call'[c].ended <= Len(judging'.events)
    BY <1>1, <1>15 DEF Gate
  <2> QED BY <1>15, <2>1, <2>2 DEF Gate, TypeOK
<1>16. ASSUME Observe PROVE TypeOK'
  <2>1. /\ judging' \in [gated : BOOLEAN, events : Seq(Event), shown : Seq(Surfaces),
                        final : MaybeState]
        /\ judging'.events = judging.events /\ judging'.gated = judging.gated
    BY <1>16 DEF Observe, TypeOK, MaybeState
  <2> QED BY <1>16, <2>1 DEF Observe, TypeOK
<1>17. ASSUME Unobservable PROVE TypeOK'
  <2>1. verdict'.row = "error"
    BY <1>17 DEF Unobservable
  <2> QED BY <1>17, <2>1 DEF Unobservable, TypeOK
<1>18. ASSUME Seal PROVE TypeOK'
  <2>1. verdict'.row \in {"passed", "passed_with_warnings", "failed", "error"}
    <3> DEFINE all == AllFindings(Evaluation(contract, EffectMap, judging.events, initial,
                                             judging.final))
    <3>1. verdict'.row = with_recorded_warnings(all)
      BY <1>18 DEF Seal
    <3> HIDE DEF all
    <3> QED BY <3>1 DEF with_recorded_warnings, aggregate
  <2> QED BY <1>18, <2>1 DEF Seal, TypeOK
<1>19. ASSUME UNCHANGED vars PROVE TypeOK'
  BY <1>19 DEF vars, TypeOK
<1> QED BY <1>3, <1>4, <1>6, <1>7, <1>8, <1>9, <1>10, <1>11, <1>12, <1>13, <1>14, <1>15, <1>16,
           <1>17, <1>18, <1>19
        DEF Next

----------------------------------------------------------------------------
\* The inductive invariant

\* what holds of every step: the timeline grows, calls go forward, captures stay
Grow ==
    /\ contract' = contract
    /\ DOMAIN Read \subseteq DOMAIN Read'
    /\ \A i \in DOMAIN Read : Read'[i] = Read[i]
    /\ \A d \in Calls :
          /\ call[d].pc # "idle" => call'[d].pc # "idle" /\ call'[d].tool = call[d].tool
          /\ call[d].pc = "done" => call'[d] = call[d]
    /\ Shown # <<>> => Shown' # <<>>

\* What stands behind an event goes on standing there.
LEMMA OldEvents ==
    ASSUME TypeOK, Grow, NEW i \in DOMAIN Read, EventInv(i)
    PROVE  EventInv(i)'
<1>1. Read'[i] = Read[i]
  BY DEF Grow
<1>2. i \in 1..Len(Read) /\ DOMAIN Read = 1..Len(Read) /\ Len(Read) \in Nat
  BY DEF TypeOK
<1>3. approved_before(Read, i) => approved_before(Read', i)
  <2>1. ASSUME NEW j \in 1..(i - 1) PROVE Read'[j] = Read[j]
    BY <1>2 DEF Grow
  <2> QED BY <1>1, <2>1 DEF approved_before
<1>4. ASSUME Read[i].type \in {"tool_invocation_completed", "tool_invocation_failed"}
      PROVE  \E c \in Calls : call'[c].pc = "done" /\ call'[c].ended = i
  <2>1. PICK c \in Calls : call[c].pc = "done" /\ call[c].ended = i
    BY <1>4 DEF EventInv
  <2> QED BY <2>1 DEF Grow
<1>5. ASSUME is_invocation_start(Read[i])
      PROVE  \E c \in Calls : /\ call'[c].pc # "idle" /\ call'[c].tool = Read[i].tool
                              /\ Read[i].tool \in Tools
  <2>1. PICK c \in Calls : /\ call[c].pc # "idle" /\ call[c].tool = Read[i].tool
                           /\ Read[i].tool \in Tools
    BY <1>5 DEF EventInv
  <2> QED BY <2>1 DEF Grow
<1>6. Read[i].type = "tool_surface_captured" => Shown' # <<>>
  BY DEF EventInv, Grow
<1>7. contract' = contract
  BY DEF Grow
<1> QED BY <1>1, <1>3, <1>4, <1>5, <1>6, <1>7 DEF EventInv

\* What a call knows and has recorded stays true while it stands still.
LEMMA OldCalls ==
    ASSUME TypeOK, Grow, NEW c \in Calls, call'[c] = call[c],
           CallBegun(c), CallApproved(c), CallEnded(c)
    PROVE  CallBegun(c)' /\ CallApproved(c)' /\ CallEnded(c)'
<1>1. CallBegun(c)'
  BY DEF CallBegun, Asked
<1>2. CallApproved(c)'
  BY DEF CallApproved, Grow
<1>3. CallEnded(c)'
  BY DEF CallEnded, Grow, EndsCall, EndsTruly
<1> QED BY <1>1, <1>2, <1>3

\* Until the gate, the record is what it reads.
LEMMA Reading ==
    ASSUME Open, judging' = judging
    PROVE  /\ Read = timeline /\ Read' = timeline'
           /\ Shown = captured /\ Shown' = captured'
BY DEF Open, Read, Shown

\* A step before the gate keeps the invariant when it keeps what it touches.
LEMMA KeepsIInv ==
    ASSUME IInv, TypeOK', Open, UNCHANGED ruling, Grow,
           \A d \in Calls : \/ call'[d] = call[d]
                            \/ CallBegun(d)' /\ CallApproved(d)' /\ CallEnded(d)',
           Disturbed \/ \A d \in Calls : CallAlone(d)',
           \A i \in DOMAIN Read' \ DOMAIN Read : EventInv(i)',
           SurfaceInv'
    PROVE  IInv'
<1>1. ASSUME NEW d \in Calls PROVE CallInv(d)'
  <2>1. CallBegun(d) /\ CallApproved(d) /\ CallEnded(d) /\ TypeOK
    BY DEF IInv, CallInv
  <2>2. CallBegun(d)' /\ CallApproved(d)' /\ CallEnded(d)'
    BY <2>1, OldCalls
  <2> QED BY <2>2 DEF CallInv
<1>2. ASSUME NEW i \in DOMAIN Read' PROVE EventInv(i)'
  <2>1. CASE i \in DOMAIN Read
    BY <2>1, OldEvents DEF IInv
  <2> QED BY <2>1
<1>3. SealInv'
  BY DEF IInv, SealInv, Sealed, Open, ruling
<1> QED BY <1>1, <1>2, <1>3 DEF IInv

\* A step that captures nothing keeps the record of the surfaces.
LEMMA KeepsSurface ==
    ASSUME SurfaceInv, Grow, Shown' = Shown
    PROVE  SurfaceInv'
BY DEF SurfaceInv, Grow

\* What the invariant says of one call.
LEMMA OfCall ==
    ASSUME IInv, NEW c \in Calls
    PROVE  /\ TypeOK /\ call \in [Calls -> CallRecord] /\ call[c] \in CallRecord
           /\ Read \in Seq(Event) /\ Len(Read) \in Nat
           /\ DOMAIN Read = 1..Len(Read)
           /\ target \in States /\ SurfaceInv
           /\ CallBegun(c) /\ CallApproved(c) /\ CallEnded(c)
           /\ Disturbed \/ CallAlone(c)
BY DEF IInv, CallInv, TypeOK, Read

LEMMA StartKeeps ==
    ASSUME IInv, TypeOK', NEW c \in Calls, NEW tool \in Tools, NEW rid \in Requests,
           Start(c, tool, rid)
    PROVE  IInv'
<1> DEFINE e == StartEvent(c, tool, rid)
           r == [NoCall EXCEPT !.pc = "open", !.tool = tool, !.rid = rid, !.before = target]
<1>1. call' = [call EXCEPT ![c] = r] /\ Read' = Read \o <<e>>
  BY Reading DEF Start, append, ruling
<1>2. /\ e \in Event /\ e.type = "tool_invocation_started" /\ e.tool = tool
  BY StartEventIs
<1>3. /\ r.pc = "open" /\ r.tool = tool /\ r.rid = rid /\ r.before = target
      /\ r.moved = FALSE /\ r.ended = 0
  BY DEF NoCall
<1> HIDE DEF e, r
<1>4. call'[c] = r /\ \A d \in Calls \ {c} : call'[d] = call[d]
  BY <1>1, OfCall
<1>5. /\ DOMAIN Read' = 1..(Len(Read) + 1)
      /\ \A i \in DOMAIN Read : Read'[i] = Read[i]
      /\ Read'[Len(Read) + 1] = e
  BY <1>1, <1>2, One, OfCall
<1>6. Grow
  BY <1>4, <1>5, OfCall, Reading DEF Grow, Start, ruling
<1>7. CallBegun(c)' /\ CallApproved(c)' /\ CallEnded(c)'
  BY <1>3, <1>4, OfCall DEF CallBegun, Asked, CallApproved, CallEnded, Start
<1>8. ASSUME ~Disturbed, NEW d \in Calls PROVE CallAlone(d)'
  <2>1. \A k \in Calls \ {c} : call'[k].pc \notin {"open", "executed"}
    BY <1>4, <1>8 DEF Start, Quiet
  <2>2. target' = target
    BY DEF Start
  <2> QED BY <1>3, <1>4, <2>1, <2>2 DEF CallAlone
<1>9. ASSUME NEW i \in DOMAIN Read' \ DOMAIN Read PROVE EventInv(i)'
  <2>1. Read'[i] = e
    BY <1>5, OfCall
  <2>2. call'[c].pc # "idle" /\ call'[c].tool = tool
    BY <1>3, <1>4
  <2> QED BY <1>2, <2>1, <2>2 DEF EventInv, is_invocation_start
<1> QED BY <1>4, <1>6, <1>7, <1>8, <1>9, KeepsIInv, KeepsSurface, OfCall, Reading DEF Start, ruling

LEMMA StartProtectedKeeps ==
    ASSUME IInv, TypeOK', NEW c \in Calls, NEW tool \in Tools, NEW rid \in Requests,
           StartProtected(c, tool, rid)
    PROVE  IInv'
<1> DEFINE e == StartEvent(c, tool, rid)
           f == RunEvent("confirmation_requested", "agent", tool, c)
           r == [NoCall EXCEPT !.pc = "awaiting", !.tool = tool, !.rid = rid, !.before = target]
<1>1. call' = [call EXCEPT ![c] = r] /\ Read' = Read \o <<e, f>>
  BY Reading DEF StartProtected, append, ruling
<1>2. /\ e \in Event /\ e.type = "tool_invocation_started" /\ e.tool = tool
      /\ f \in Event /\ f.type = "confirmation_requested"
  BY StartEventIs, RunEventIs DEF EventType, EventActor
<1>3. /\ r.pc = "awaiting" /\ r.tool = tool /\ r.rid = rid /\ r.before = target
      /\ r.moved = FALSE /\ r.ended = 0
  BY DEF NoCall
<1> HIDE DEF e, f, r
<1>4. call'[c] = r /\ \A d \in Calls \ {c} : call'[d] = call[d]
  BY <1>1, OfCall
<1>5. /\ DOMAIN Read' = 1..(Len(Read) + 2)
      /\ \A i \in DOMAIN Read : Read'[i] = Read[i]
      /\ Read'[Len(Read) + 1] = e /\ Read'[Len(Read) + 2] = f
  BY <1>1, <1>2, Two, OfCall
<1>6. Grow
  BY <1>4, <1>5, OfCall, Reading DEF Grow, StartProtected, ruling
<1>7. CallBegun(c)' /\ CallApproved(c)' /\ CallEnded(c)'
  BY <1>3, <1>4, OfCall DEF CallBegun, Asked, CallApproved, CallEnded, StartProtected
<1>8. ASSUME ~Disturbed, NEW d \in Calls PROVE CallAlone(d)'
  <2>1. target' = target /\ call'[c].pc = "awaiting"
    BY <1>3, <1>4 DEF StartProtected
  <2> QED BY <1>4, <1>8, <2>1, OfCall DEF CallAlone
<1>9. ASSUME NEW i \in DOMAIN Read' \ DOMAIN Read PROVE EventInv(i)'
  <2>1. Read'[i] \in {e, f}
    BY <1>5, OfCall
  <2>2. call'[c].pc # "idle" /\ call'[c].tool = tool
    BY <1>3, <1>4
  <2> QED BY <1>2, <2>1, <2>2 DEF EventInv, is_invocation_start
<1> QED BY <1>4, <1>6, <1>7, <1>8, <1>9, KeepsIInv, KeepsSurface, OfCall, Reading DEF StartProtected, ruling

LEMMA MismatchKeeps ==
    ASSUME IInv, TypeOK', NEW c \in Calls, NEW tool \in Tools, RefuseMismatch(c, tool)
    PROVE  IInv'
<1> DEFINE e == RunEvent("tool_identity_mismatch", "harness", tool, c)
<1>1. call' = [call EXCEPT ![c].pc = "done"] /\ Read' = Read \o <<e>>
  BY Reading DEF RefuseMismatch, append, ruling
<1>2. e \in Event /\ e.type = "tool_identity_mismatch"
  <2>1. "tool_identity_mismatch" \in EventType /\ "harness" \in EventActor
    BY DEF EventType, EventActor
  <2> QED BY <2>1, RunEventIs
<1> HIDE DEF e
<1>3. /\ call'[c].pc = "done" /\ call'[c].ended = call[c].ended /\ call'[c].moved = call[c].moved
      /\ call'[c].tool = call[c].tool
      /\ \A d \in Calls \ {c} : call'[d] = call[d]
  BY <1>1, OfCall DEF CallRecord
<1>4. /\ DOMAIN Read' = 1..(Len(Read) + 1)
      /\ \A i \in DOMAIN Read : Read'[i] = Read[i]
      /\ Read'[Len(Read) + 1] = e
  BY <1>1, <1>2, One, OfCall
<1>5. Grow
  BY <1>3, <1>4, OfCall, Reading DEF Grow, RefuseMismatch, ruling
<1>6. CallBegun(c)' /\ CallApproved(c)' /\ CallEnded(c)'
  BY <1>3, OfCall DEF CallBegun, Asked, CallApproved, CallEnded, RefuseMismatch
<1>7. ASSUME ~Disturbed, NEW d \in Calls PROVE CallAlone(d)'
  <2>1. target' = target
    BY DEF RefuseMismatch
  <2> QED BY <1>3, <1>7, <2>1, OfCall DEF CallAlone
<1>8. ASSUME NEW i \in DOMAIN Read' \ DOMAIN Read PROVE EventInv(i)'
  <2>1. Read'[i] = e
    BY <1>4, OfCall
  <2> QED BY <1>2, <2>1 DEF EventInv, is_invocation_start
<1> QED BY <1>3, <1>5, <1>6, <1>7, <1>8, KeepsIInv, KeepsSurface, OfCall, Reading DEF RefuseMismatch, ruling

LEMMA ApproveKeeps ==
    ASSUME IInv, TypeOK', NEW c \in Calls, Approve(c)
    PROVE  IInv'
<1> DEFINE e == CallEvent("confirmation_approved", "human", c)
<1>1. call' = [call EXCEPT ![c].pc = "approved"] /\ Read' = Read \o <<e>>
  BY Reading DEF Approve, append, ruling
<1>2. e \in Event /\ e.type = "confirmation_approved" /\ e.corr = c
  BY CallEventIs, OfCall DEF EventType, EventActor
<1> HIDE DEF e
<1>3. /\ call'[c].pc = "approved" /\ call'[c].ended = call[c].ended
      /\ call'[c].moved = call[c].moved /\ call'[c].tool = call[c].tool
      /\ call'[c].rid = call[c].rid /\ call'[c].before = call[c].before
      /\ \A d \in Calls \ {c} : call'[d] = call[d]
  BY <1>1, OfCall DEF CallRecord
<1>4. /\ DOMAIN Read' = 1..(Len(Read) + 1)
      /\ \A i \in DOMAIN Read : Read'[i] = Read[i]
      /\ Read'[Len(Read) + 1] = e
  BY <1>1, <1>2, One, OfCall
<1>5. Grow
  BY <1>3, <1>4, OfCall, Reading DEF Grow, Approve, ruling
<1>6. CallBegun(c)' /\ CallApproved(c)' /\ CallEnded(c)'
  <2>1. CallApproved(c)'
    <3>1. Len(Read) + 1 \in DOMAIN Read'
      BY <1>4, OfCall
    <3> QED BY <1>2, <1>4, <3>1 DEF CallApproved
  <2>2. CallBegun(c)' /\ CallEnded(c)'
    BY <1>3, OfCall DEF CallBegun, Asked, CallEnded, Approve
  <2> QED BY <2>1, <2>2
<1>7. ASSUME ~Disturbed, NEW d \in Calls PROVE CallAlone(d)'
  <2>1. target' = target
    BY DEF Approve
  <2> QED BY <1>3, <1>7, <2>1, OfCall DEF CallAlone
<1>8. ASSUME NEW i \in DOMAIN Read' \ DOMAIN Read PROVE EventInv(i)'
  <2>1. Read'[i] = e
    BY <1>4, OfCall
  <2> QED BY <1>2, <2>1 DEF EventInv, is_invocation_start
<1> QED BY <1>3, <1>5, <1>6, <1>7, <1>8, KeepsIInv, KeepsSurface, OfCall, Reading DEF Approve, ruling

LEMMA RefuseKeeps ==
    ASSUME IInv, TypeOK', NEW c \in Calls, Refuse(c)
    PROVE  IInv'
<1>1. PICK refusal \in {<<"confirmation_denied", "human">>, <<"confirmation_expired", "harness">>} :
         Read' = Read \o <<CallEvent(refusal[1], refusal[2], c),
                                   CallEvent("tool_invocation_cancelled", "agent", c)>>
  BY Reading DEF Refuse, append, ruling
<1> DEFINE e == CallEvent(refusal[1], refusal[2], c)
           f == CallEvent("tool_invocation_cancelled", "agent", c)
<1>2. /\ e \in Event /\ e.type \in {"confirmation_denied", "confirmation_expired"}
      /\ f \in Event /\ f.type = "tool_invocation_cancelled" /\ f.before = None
  BY CallEventIs, OfCall DEF EventType, EventActor, TerminalEvents
<1>3. Read' = Read \o <<e, f>>
  BY <1>1
<1> HIDE DEF e, f
<1>4. /\ call'[c].pc = "done" /\ call'[c].ended = Len(Read) + 2
      /\ call'[c].moved = call[c].moved /\ call'[c].tool = call[c].tool
      /\ \A d \in Calls \ {c} : call'[d] = call[d]
  BY OfCall, Reading DEF CallRecord, Refuse, ruling
<1>5. /\ DOMAIN Read' = 1..(Len(Read) + 2)
      /\ \A i \in DOMAIN Read : Read'[i] = Read[i]
      /\ Read'[Len(Read) + 1] = e /\ Read'[Len(Read) + 2] = f
  BY <1>2, <1>3, Two, OfCall
<1>6. Grow
  BY <1>4, <1>5, OfCall, Reading DEF Grow, Refuse, ruling
<1>7. CallBegun(c)' /\ CallApproved(c)' /\ CallEnded(c)'
  <2>1. Len(Read) + 2 \in DOMAIN Read'
    BY <1>5, OfCall
  <2>2. ~call'[c].moved
    BY <1>4, OfCall DEF CallBegun, Refuse
  <2> QED BY <1>2, <1>4, <1>5, <2>1, <2>2 DEF CallBegun, Asked, CallApproved, CallEnded
<1>8. ASSUME ~Disturbed, NEW d \in Calls PROVE CallAlone(d)'
  <2>1. target' = target
    BY DEF Refuse
  <2> QED BY <1>4, <1>8, <2>1, OfCall DEF CallAlone
<1>9. ASSUME NEW i \in DOMAIN Read' \ DOMAIN Read PROVE EventInv(i)'
  <2>1. Read'[i] \in {e, f}
    BY <1>5, OfCall
  <2> QED BY <1>2, <2>1 DEF EventInv, is_invocation_start
<1> QED BY <1>4, <1>6, <1>7, <1>8, <1>9, KeepsIInv, KeepsSurface, OfCall, Reading DEF Refuse, ruling

LEMMA ResumeKeeps ==
    ASSUME IInv, TypeOK', NEW c \in Calls, Resume(c)
    PROVE  IInv'
<1>1. /\ target' = target /\ contract' = contract /\ Shown' = Shown /\ UNCHANGED ruling
      /\ Open /\ call[c].pc = "approved"
  BY Reading DEF Resume, ruling
<1>2. CASE call[c].before = target
  <2>1. call' = [call EXCEPT ![c].pc = "open"] /\ Read' = Read
    BY <1>2, Reading DEF Resume, ruling
  <2>2. /\ call'[c].pc = "open" /\ call'[c].ended = call[c].ended
        /\ call'[c].moved = call[c].moved /\ call'[c].tool = call[c].tool
        /\ call'[c].rid = call[c].rid /\ call'[c].before = call[c].before
        /\ \A d \in Calls \ {c} : call'[d] = call[d]
    BY <2>1, OfCall DEF CallRecord
  <2>3. Grow
    BY <1>1, <2>1, <2>2, OfCall DEF Grow
  <2>4. CallBegun(c)' /\ CallApproved(c)' /\ CallEnded(c)'
    <3>1. CallBegun(c)'
      BY <1>1, <2>2, OfCall DEF CallBegun, Asked
    <3>2. CallApproved(c)'
      BY <1>1, <2>1, OfCall DEF CallApproved
    <3>3. CallEnded(c)'
      BY <2>2 DEF CallEnded
    <3> QED BY <3>1, <3>2, <3>3
  <2>5. ASSUME ~Disturbed, NEW d \in Calls PROVE CallAlone(d)'
    <3>1. \A k \in Calls \ {c} : call'[k].pc \notin {"open", "executed"}
      BY <2>2, <2>5 DEF Resume, Quiet
    <3> QED BY <1>1, <1>2, <2>2, <3>1 DEF CallAlone
  <2> QED BY <1>1, <2>1, <2>2, <2>3, <2>4, <2>5, KeepsIInv, KeepsSurface, OfCall
<1>3. CASE call[c].before # target
  <2> DEFINE e == [CallEvent("confirmation_cancelled", "harness", c) EXCEPT !.before = target]
  <2>1. call' = [call EXCEPT ![c].pc = "withdrawn"] /\ Read' = Read \o <<e>>
    BY <1>3, Reading DEF Resume, append, ruling
  <2>2. e \in Event /\ e.type = "confirmation_cancelled"
    <3>1. /\ CallEvent("confirmation_cancelled", "harness", c) \in Event
          /\ CallEvent("confirmation_cancelled", "harness", c).type = "confirmation_cancelled"
      BY CallEventIs, OfCall DEF EventType, EventActor
    <3>2. target \in MaybeState
      BY OfCall DEF MaybeState
    <3> QED BY <3>1, <3>2 DEF Event
  <2> HIDE DEF e
  <2>3. /\ call'[c].pc = "withdrawn" /\ call'[c].ended = call[c].ended
        /\ call'[c].moved = call[c].moved /\ call'[c].tool = call[c].tool
        /\ \A d \in Calls \ {c} : call'[d] = call[d]
    BY <2>1, OfCall DEF CallRecord
  <2>4. /\ DOMAIN Read' = 1..(Len(Read) + 1)
        /\ \A i \in DOMAIN Read : Read'[i] = Read[i]
        /\ Read'[Len(Read) + 1] = e
    BY <2>1, <2>2, One, OfCall
  <2>5. Grow
    BY <1>1, <2>3, <2>4, OfCall DEF Grow
  <2>6. CallBegun(c)' /\ CallApproved(c)' /\ CallEnded(c)'
    BY <1>1, <2>3, OfCall DEF CallBegun, Asked, CallApproved, CallEnded
  <2>7. ASSUME ~Disturbed, NEW d \in Calls PROVE CallAlone(d)'
    BY <1>1, <2>3, <2>7, OfCall DEF CallAlone
  <2>8. ASSUME NEW i \in DOMAIN Read' \ DOMAIN Read PROVE EventInv(i)'
    <3>1. Read'[i] = e
      BY <2>4, OfCall
    <3> QED BY <2>2, <3>1 DEF EventInv, is_invocation_start
  <2> QED BY <1>1, <2>3, <2>5, <2>6, <2>7, <2>8, KeepsIInv, KeepsSurface, OfCall
<1> QED BY <1>2, <1>3

LEMMA ExecuteKeeps ==
    ASSUME IInv, TypeOK', NEW c \in Calls, NEW state \in States, NEW result \in Results,
           Execute(c, state, result)
    PROVE  IInv'
<1>1. /\ contract' = contract /\ Shown' = Shown /\ UNCHANGED ruling
      /\ Open /\ call[c].pc = "open" /\ Read' = Read /\ target' = state
  BY Reading DEF Execute, ruling
<1>2. /\ call'[c].pc = "executed" /\ call'[c].ended = call[c].ended
      /\ call'[c].moved = (state # target) /\ call'[c].left = state
      /\ call'[c].tool = call[c].tool /\ call'[c].result = result
      /\ call'[c].rid = call[c].rid /\ call'[c].before = call[c].before
      /\ \A d \in Calls \ {c} : call'[d] = call[d]
  BY OfCall DEF CallRecord, Execute
<1>3. Grow
  BY <1>1, <1>2, OfCall DEF Grow
<1>4. CallBegun(c)' /\ CallApproved(c)' /\ CallEnded(c)'
  <2>1. CallBegun(c)'
    BY <1>1, <1>2, OfCall DEF CallBegun, Asked
  <2>2. CallApproved(c)'
    BY <1>1, <1>2, OfCall DEF CallApproved
  <2>3. CallEnded(c)'
    BY <1>2 DEF CallEnded
  <2> QED BY <2>1, <2>2, <2>3
<1>5. ASSUME ~Disturbed, NEW d \in Calls PROVE CallAlone(d)'
  <2>1. CallAlone(c)
    BY <1>5, OfCall
  <2>2. \A k \in Calls \ {c} : call'[k].pc \notin {"open", "executed"}
    BY <1>1, <1>2, <2>1 DEF CallAlone
  <2>3. target = call[c].before
    BY <1>1, <2>1 DEF CallAlone
  <2> QED BY <1>1, <1>2, <2>2, <2>3 DEF CallAlone
<1> QED BY <1>1, <1>2, <1>3, <1>4, <1>5, KeepsIInv, KeepsSurface, OfCall

LEMMA TerminateKeeps ==
    ASSUME IInv, TypeOK', NEW c \in Calls, NEW after \in States \cup {None},
           Terminate(c, after)
    PROVE  IInv'
<1> DEFINE e == TerminalEvent(c, after)
<1>1. /\ target' = target /\ contract' = contract /\ Shown' = Shown /\ UNCHANGED ruling
      /\ Open /\ call[c].pc = "executed" /\ after \in {target, None}
      /\ Read' = Read \o <<e>>
  BY Reading DEF Terminate, append, ruling
<1>2. /\ call[c].tool \in Tools /\ call[c].rid \in Requests /\ call[c].before \in States
      /\ call[c].left \in States /\ call[c].result \in Results
  BY <1>1, OfCall DEF CallBegun, Asked
<1>3. /\ e \in Event
      /\ e.type = (IF call[c].result = "raised" THEN "tool_invocation_failed"
                   ELSE "tool_invocation_completed")
      /\ e.actor = "agent" /\ e.corr = c /\ e.tool = call[c].tool /\ e.rid = call[c].rid
      /\ e.before = call[c].before /\ e.after = after
      /\ e.effect = effect_context(EffectMap[call[c].tool], after)
  BY <1>2, TerminalEventIs, OfCall DEF MaybeState
<1> HIDE DEF e
<1>4. /\ call'[c].pc = "done" /\ call'[c].ended = Len(Read) + 1
      /\ call'[c].moved = call[c].moved /\ call'[c].tool = call[c].tool
      /\ call'[c].rid = call[c].rid /\ call'[c].before = call[c].before
      /\ call'[c].left = call[c].left /\ call'[c].result = call[c].result
      /\ \A d \in Calls \ {c} : call'[d] = call[d]
  BY OfCall, Reading DEF CallRecord, Terminate, ruling
<1>5. /\ DOMAIN Read' = 1..(Len(Read) + 1) /\ Len(Read) + 1 \in DOMAIN Read'
      /\ \A i \in DOMAIN Read : Read'[i] = Read[i]
      /\ Read'[Len(Read) + 1] = e
  BY <1>1, <1>3, One, OfCall
<1>6. Grow
  BY <1>1, <1>4, <1>5, OfCall DEF Grow
<1>7. CallBegun(c)' /\ CallApproved(c)' /\ CallEnded(c)'
  <2>1. CallBegun(c)' /\ CallApproved(c)'
    BY <1>4 DEF CallBegun, Asked, CallApproved
  <2>2. Read'[call'[c].ended] = e /\ call'[c].ended \in DOMAIN Read'
    BY <1>4, <1>5
  <2>3. Disturbed \/ (/\ e.after \in {call'[c].left, None}
                      /\ call'[c].moved <=> call'[c].left # call'[c].before)
    BY <1>1, <1>3, <1>4, OfCall DEF CallAlone
  <2>4. CallEnded(c)'
    <3>1. EndsCall(Read[call[c].ended], c)'
      BY <1>2, <1>3, <1>4, <2>2 DEF EndsCall
    <3>2. Disturbed \/ EndsTruly(Read[call[c].ended], c)'
      BY <2>2, <2>3 DEF EndsTruly
    <3> QED BY <2>2, <3>1, <3>2 DEF CallEnded
  <2> QED BY <2>1, <2>4
<1>8. ASSUME ~Disturbed, NEW d \in Calls PROVE CallAlone(d)'
  BY <1>1, <1>4, <1>8, OfCall DEF CallAlone
<1>9. ASSUME NEW i \in DOMAIN Read' \ DOMAIN Read PROVE EventInv(i)'
  <2>1. Read'[i] = e /\ i = Len(Read) + 1
    BY <1>5, OfCall
  <2>2. ASSUME e.tool \in confirmed_tools(contract) PROVE approved_before(Read', i)
    <3>1. PICK j \in DOMAIN Read : /\ Read[j].type = "confirmation_approved"
                                       /\ Read[j].corr = c
      BY <1>1, <1>3, <2>2, OfCall DEF CallApproved
    <3>2. j \in 1..(i - 1) /\ Read'[j] = Read[j]
      BY <1>5, <2>1, <3>1, OfCall
    <3> QED BY <1>3, <2>1, <3>1, <3>2 DEF approved_before
  <2>3. \E d \in Calls : call'[d].pc = "done" /\ call'[d].ended = i
    BY <1>4, <2>1
  <2> QED BY <1>1, <1>3, <2>1, <2>2, <2>3 DEF EventInv, is_invocation_start
<1> QED BY <1>1, <1>4, <1>6, <1>7, <1>8, <1>9, KeepsIInv, KeepsSurface, OfCall

LEMMA CaptureKeeps ==
    ASSUME IInv, TypeOK', Capture, Open
    PROVE  IInv'
<1> DEFINE es == CaptureEvents(page)
<1>1. /\ target' = target /\ contract' = contract /\ UNCHANGED ruling /\ call' = call
      /\ Open /\ Shown' = Append(Shown, page) /\ Read' = Read \o es
  BY Reading DEF Capture, append, ruling
<1>2. /\ TypeOK /\ page \in Surfaces /\ Shown \in Seq(Surfaces)
      /\ Read \in Seq(Event) /\ DOMAIN Read = 1..Len(Read) /\ Len(Read) \in Nat
  BY DEF IInv, TypeOK, Read, Shown
<1>3. /\ es \in Seq(Event)
      /\ \A n \in DOMAIN es : es[n].type \in {"tool_surface_captured", "tool_surface_changed"}
      /\ Shown # <<>> => \A d \in diff_surfaces(Shown[Len(Shown)], page) :
            \E n \in DOMAIN es : es[n].type = "tool_surface_changed" /\ es[n].kind = d.kind
  BY <1>1, <1>2, Captures, Reading DEF ruling
<1> HIDE DEF es
<1>4. /\ DOMAIN Read' = 1..(Len(Read) + Len(es)) /\ Len(es) \in Nat
      /\ DOMAIN es = 1..Len(es)
      /\ \A i \in DOMAIN Read : Read'[i] = Read[i]
      /\ \A n \in DOMAIN es : Read'[Len(Read) + n] = es[n]
      /\ \A i \in DOMAIN Read' : i \in DOMAIN Read \/ \E n \in DOMAIN es : i = Len(Read) + n
  BY <1>1, <1>2, <1>3, More
<1>5. Shown' # <<>> /\ Len(Shown) \in Nat /\ DOMAIN Shown' = 1..(Len(Shown) + 1)
      /\ Shown'[Len(Shown) + 1] = page
      /\ \A n \in 1..Len(Shown) : Shown'[n] = Shown[n]
  BY <1>1, <1>2
<1>6. Grow
  BY <1>1, <1>2, <1>4, <1>5 DEF Grow
<1>7. ASSUME NEW i \in DOMAIN Read' \ DOMAIN Read PROVE EventInv(i)'
  <2>1. PICK n \in DOMAIN es : Read'[i] = es[n]
    BY <1>4
  <2> QED BY <1>3, <1>5, <2>1 DEF EventInv, is_invocation_start
<1>8. SurfaceInv'
  <2>1. CASE \E i \in DOMAIN Read : /\ Read[i].type = "tool_surface_changed"
                                        /\ Read[i].kind \in DefaultFailingKinds
    BY <2>1, <1>6 DEF SurfaceInv, Grow
  <2>2. CASE Shown = <<>>
    <3>1. DOMAIN Shown' = 1..1 /\ Shown'[1] = page
      BY <1>5, <2>2
    <3> QED BY <3>1 DEF SurfaceInv, SameTools
  <2>3. CASE Shown # <<>> /\ \A n \in DOMAIN Shown : SameTools(Shown[1], Shown[n])
    <3> DEFINE last == Shown[Len(Shown)]
    <3>1. /\ Len(Shown) \in 1..Len(Shown) /\ 1 \in 1..Len(Shown)
          /\ DOMAIN Shown = 1..Len(Shown)
      BY <1>2, <2>3
    <3>2. SameTools(Shown[1], last)
      BY <2>3, <3>1
    <3>3. CASE \E d \in diff_surfaces(last, page) : d.kind \in DefaultFailingKinds
      <4>1. PICK n \in DOMAIN es : /\ es[n].type = "tool_surface_changed"
                                   /\ es[n].kind \in DefaultFailingKinds
        BY <1>3, <2>3, <3>3
      <4>2. Len(Read) + n \in DOMAIN Read' /\ Read'[Len(Read) + n] = es[n]
        BY <1>2, <1>4
      <4> QED BY <4>1, <4>2 DEF SurfaceInv
    <3>4. CASE \A d \in diff_surfaces(last, page) : d.kind \notin DefaultFailingKinds
      <4>1. ASSUME NEW t, NEW k \in DefaultFailingKinds
            PROVE  SurfaceDelta(t, k) \notin diff_surfaces(last, page)
        BY <3>4, <4>1 DEF SurfaceDelta
      <4>2. DOMAIN page = DOMAIN last
        <5>1. \A t : SurfaceDelta(t, "added") \notin diff_surfaces(last, page)
          BY <4>1 DEF DefaultFailingKinds
        <5>2. \A t : SurfaceDelta(t, "removed") \notin diff_surfaces(last, page)
          BY <4>1 DEF DefaultFailingKinds
        <5>3. DOMAIN page \ DOMAIN last = {}
          BY <5>1 DEF diff_surfaces
        <5>4. DOMAIN last \ DOMAIN page = {}
          BY <5>2 DEF diff_surfaces
        <5> QED BY <5>3, <5>4
      <4>3. ASSUME NEW t \in DOMAIN last
            PROVE  last[t].schema = page[t].schema /\ last[t].hints = page[t].hints
        <5>1. /\ SurfaceDelta(t, "schema_change") \notin diff_surfaces(last, page)
              /\ SurfaceDelta(t, "hint_change") \notin diff_surfaces(last, page)
          BY <4>1 DEF DefaultFailingKinds
        <5>2. \A k \in differing_kinds(last[t], page[t]) :
                 SurfaceDelta(t, k) \in diff_surfaces(last, page)
          BY <4>2 DEF diff_surfaces
        <5> QED BY <5>1, <5>2 DEF differing_kinds
      <4>4. SameTools(Shown[1], page)
        BY <3>2, <4>2, <4>3 DEF SameTools
      <4>5. ASSUME NEW n \in DOMAIN Shown' PROVE SameTools(Shown'[1], Shown'[n])
        <5>1. Shown'[1] = Shown[1]
          BY <1>5, <3>1
        <5>2. CASE n = Len(Shown) + 1
          BY <1>5, <4>4, <5>1, <5>2
        <5>3. CASE n # Len(Shown) + 1
          <6>1. n \in 1..Len(Shown)
            BY <1>5, <5>3
          <6> QED BY <1>5, <2>3, <3>1, <5>1, <6>1
        <5> QED BY <5>2, <5>3
      <4> QED BY <4>5 DEF SurfaceInv
    <3> QED BY <3>3, <3>4
  <2> QED BY <2>1, <2>2, <2>3 DEF IInv, SurfaceInv
<1>9. Disturbed \/ \A d \in Calls : CallAlone(d)'
  BY <1>1, OfCall DEF CallAlone
<1> QED BY <1>1, <1>6, <1>7, <1>8, <1>9, KeepsIInv

\* Every step keeps the invariant.
LEMMA IInvStep ==
    ASSUME IInv, [Next]_vars
    PROVE  IInv'
<1>1. TypeOK'
  BY TypeStep DEF IInv, CallInv
<1>2. ASSUME UNCHANGED <<contract, initial, Read, Shown, call>>, SealInv',
             \/ Disturbed \/ target' = target
             \/ \A c \in Calls : call[c].pc \notin {"open", "executed"}
      PROVE  IInv'
  <2>1. \A c \in Calls : CallBegun(c)' /\ CallApproved(c)' /\ CallEnded(c)'
    BY <1>2 DEF IInv, CallInv, CallBegun, Asked, CallApproved, CallEnded, EndsCall, EndsTruly
  <2>2. Disturbed \/ \A c \in Calls : CallAlone(c)'
    BY <1>2, OfCall DEF CallAlone
  <2>3. \A i \in DOMAIN Read' : EventInv(i)'
    BY <1>2 DEF IInv, EventInv
  <2>4. SurfaceInv'
    BY <1>2 DEF IInv, SurfaceInv
  <2> QED BY <1>1, <1>2, <2>1, <2>2, <2>3, <2>4 DEF IInv, CallInv
<1>3. ASSUME UNCHANGED <<contract, initial, call, judging, verdict>>
      PROVE  SealInv'
  <2>1. CASE Sealed
    <3>1. judging.gated /\ judging.final # None
      BY <2>1 DEF IInv, SealInv, Open, Sealed
    <3>2. Judgement' = Judgement
      BY <1>3, <3>1 DEF Judgement, Read, Final
    <3> QED BY <1>3, <2>1, <3>2 DEF IInv, SealInv, Sealed, Open
  <2>2. CASE ~Sealed
    BY <1>3, <2>2 DEF IInv, SealInv, Sealed, Open
  <2> QED BY <2>1, <2>2
<1>4. ASSUME NEW state \in States, Edit(state) PROVE IInv'
  <2>1. UNCHANGED <<contract, initial, timeline, captured, call, judging, verdict>>
    BY <1>4 DEF Edit, ruling
  <2>2. Disturbed \/ \A c \in Calls : call[c].pc \notin {"open", "executed"}
    BY <1>4 DEF Edit
  <2>3. UNCHANGED <<Read, Shown>>
    BY <2>1 DEF Read, Shown
  <2> QED BY <1>2, <1>3, <2>1, <2>2, <2>3
<1>5. ASSUME NEW surface \in Surfaces, Redefine(surface) PROVE IInv'
  <2>1. UNCHANGED <<contract, initial, target, timeline, captured, call, judging, verdict>>
    BY <1>5 DEF Redefine, ruling
  <2>2. UNCHANGED <<Read, Shown>>
    BY <2>1 DEF Read, Shown
  <2> QED BY <1>2, <1>3, <2>1, <2>2
<1>6. ASSUME Capture PROVE IInv'
  <2>1. CASE Open
    BY <1>1, <1>6, <2>1, CaptureKeeps
  <2>2. CASE ~Open
    <3>1. UNCHANGED <<contract, initial, target, call, judging, verdict>>
      BY <1>6 DEF Capture, ruling
    <3>2. UNCHANGED <<Read, Shown>>
      BY <2>2, <3>1 DEF Read, Shown, Open
    <3> QED BY <1>2, <1>3, <3>1, <3>2
  <2> QED BY <2>1, <2>2
<1>7. ASSUME Gate PROVE IInv'
  <2>1. UNCHANGED <<contract, initial, target, timeline, captured, call, verdict>>
    BY <1>7 DEF Gate
  <2>2. /\ ~judging.gated /\ judging'.gated /\ judging'.events = timeline
        /\ judging'.shown = captured
    BY <1>7 DEF Gate, Open
  <2>3. UNCHANGED <<Read, Shown>>
    BY <2>1, <2>2 DEF Read, Shown
  <2>4. SealInv'
    <3>1. verdict' = None
      BY <2>1, <2>2 DEF IInv, SealInv, Open
    <3> QED BY <1>7, <2>1, <2>2, <3>1 DEF SealInv, Sealed, Open, Gate
  <2> QED BY <1>2, <2>1, <2>3, <2>4
<1>8. ASSUME Observe PROVE IInv'
  <2>1. UNCHANGED <<contract, initial, target, timeline, captured, call, verdict>>
    BY <1>8 DEF Observe
  <2>2. /\ judging.gated /\ judging'.gated /\ judging'.events = judging.events
        /\ judging'.shown = judging.shown
    BY <1>8 DEF Observe, IInv, TypeOK
  <2>3. UNCHANGED <<Read, Shown>>
    BY <2>1, <2>2 DEF Read, Shown
  <2>4. SealInv'
    <3>1. verdict' = None
      BY <1>8 DEF Observe
    <3> QED BY <2>1, <2>2, <3>1 DEF IInv, SealInv, Sealed, Open
  <2> QED BY <1>2, <2>1, <2>3, <2>4
<1>9. ASSUME Unobservable PROVE IInv'
  <2>1. UNCHANGED <<contract, initial, target, timeline, captured, call, judging>>
    BY <1>9 DEF Unobservable
  <2>2. verdict'.row = "error" /\ judging.gated
    BY <1>9 DEF Unobservable
  <2>3. UNCHANGED <<Read, Shown>>
    BY <2>1 DEF Read, Shown
  <2>4. SealInv'
    BY <2>1, <2>2 DEF IInv, SealInv, Sealed, Open
  <2> QED BY <1>2, <2>1, <2>3, <2>4
<1>10. ASSUME Seal PROVE IInv'
  <2>1. UNCHANGED <<contract, initial, target, timeline, captured, call, judging>>
    BY <1>10 DEF Seal
  <2>2. judging.gated /\ judging.final # None
    BY <1>10 DEF Seal
  <2>3. UNCHANGED <<Read, Shown, Final>>
    BY <2>1 DEF Read, Shown, Final
  <2>4. verdict' = Judgement
    <3>1. Read = judging.events /\ Final = judging.final
      BY <2>2 DEF Read, Final
    <3> QED BY <1>10, <3>1 DEF Seal, Judgement
  <2>5. Judgement' = Judgement
    BY <2>1, <2>3 DEF Judgement
  <2>6. SealInv'
    BY <2>1, <2>2, <2>4, <2>5 DEF IInv, SealInv, Sealed, Open
  <2> QED BY <1>2, <2>1, <2>3, <2>6
<1>11. ASSUME UNCHANGED vars PROVE IInv'
  <2>1. UNCHANGED <<contract, initial, target, timeline, captured, call, judging, verdict>>
    BY <1>11 DEF vars
  <2>2. UNCHANGED <<Read, Shown>>
    BY <2>1 DEF Read, Shown
  <2> QED BY <1>2, <1>3, <2>1, <2>2
<1> QED
  BY <1>1, <1>4, <1>5, <1>6, <1>7, <1>8, <1>9, <1>10, <1>11, StartKeeps, StartProtectedKeeps,
     MismatchKeeps, ApproveKeeps, RefuseKeeps, ResumeKeeps, ExecuteKeeps, TerminateKeeps DEF Next

LEMMA IInvInit ==
    ASSUME Init PROVE IInv
<1>1. TypeOK
  <2>1. call \in [Calls -> CallRecord] /\ \A c \in Calls : call[c] = NoCall
    BY NoCallIs DEF Init
  <2>2. NoCall.ended = 0
    BY DEF NoCall
  <2>3. timeline = <<>> /\ timeline \in Seq(Event) /\ Len(timeline) = 0
    BY DEF Init
  <2>4. captured \in Seq(Surfaces) /\ Len(captured) = 0
    BY DEF Init
  <2>5. /\ judging \in [gated : BOOLEAN, events : Seq(Event), shown : Seq(Surfaces),
                       final : MaybeState]
        /\ ~judging.gated
    BY DEF Init, MaybeState
  <2> QED BY <2>1, <2>2, <2>3, <2>4, <2>5, VerdictAssumption DEF Init, TypeOK
<1>2. \A c \in Calls : CallInv(c)
  BY DEF Init, NoCall, CallInv, CallBegun, Asked, CallAlone, CallApproved, CallEnded
<1>3. DOMAIN Read = {} /\ DOMAIN Shown = {}
  BY DEF Init, Read, Shown
<1>4. SurfaceInv /\ SealInv
  BY <1>3 DEF Init, SurfaceInv, SealInv, Sealed, Open
<1> QED BY <1>1, <1>2, <1>3, <1>4 DEF IInv

\* A run's record is typed, and says of every call and event what is behind it.
THEOREM RecordHolds == Spec => []IInv
<1>1. Init => IInv
  BY IInvInit
<1>2. IInv /\ [Next]_vars => IInv'
  BY IInvStep
<1> QED BY <1>1, <1>2, PTL DEF Spec

----------------------------------------------------------------------------
\* What the engine's findings are

LEMMA FindingIs ==
    ASSUME NEW check, NEW type, NEW status, NEW severity, NEW term
    PROVE  /\ Finding(check, type, status, severity, term).check = check
           /\ Finding(check, type, status, severity, term).type = type
           /\ Finding(check, type, status, severity, term).status = status
           /\ Finding(check, type, status, severity, term).severity = severity
           /\ Finding(check, type, status, severity, term).term = term
           /\ Finding(check, type, status, severity, term).class = None
           /\ Finding(check, type, status, severity, term).cause = None
           /\ Finding(check, type, status, severity, term).paths = {}
           /\ Finding(check, type, status, severity, term).warnings = 0
BY DEF Finding

\* A finding about an assertion accuses a tool only of a success that its own
\* effect contradicts.
LEMMA AssertionFindingIs ==
    ASSUME NEW a, NEW tl, NEW effects, NEW before, NEW after
    PROVE  LET f == classify_one(evaluate_assertion(a, before, after), tl, effects, before)
               i == last_relevant_action(a.path, tl, effects)
           IN /\ f.type = "assertion" /\ f.severity = a.severity /\ f.warnings = 0
              /\ f.class \in {None, "observation_unavailable", "assertion_mismatch",
                              "false_success_or_state_mismatch"}
              /\ f.class = "false_success_or_state_mismatch" =>
                    f.term = a /\ f.causal = i /\ i # 0 /\ Contradicted(a, tl[i], before)
<1> DEFINE g == evaluate_assertion(a, before, after)
           f == classify_one(g, tl, effects, before)
           i == last_relevant_action(a.path, tl, effects)
           Fair(h) ==
             /\ h.type = "assertion" /\ h.severity = a.severity /\ h.warnings = 0
             /\ h.class \in {None, "observation_unavailable", "assertion_mismatch",
                             "false_success_or_state_mismatch"}
             /\ h.class = "false_success_or_state_mismatch" =>
                   h.term = a /\ h.causal = i /\ i # 0 /\ Contradicted(a, tl[i], before)
<1> SUFFICES Fair(f)
  OBVIOUS
<1>1. /\ g \in [check : {g.check}, type : {"assertion"}, status : {g.status},
                severity : {a.severity}, term : {a}, class : {g.class}, path : {a.path},
                paths : {{}}, causal : {0}, exempt : {{}}, cause : {None}, warnings : {0}]
      /\ g.class \in {None, "observation_unavailable", "assertion_mismatch"}
      /\ g.status \in {"passed", "failed", "observation_unavailable"}
  BY DEF evaluate_assertion, AssertionFinding, Finding
<1>2. "false_success_or_state_mismatch" # None
  BY NoneAssumption DEF FailureClassification
<1> HIDE DEF g
<1>3. CASE g.status # "failed" \/ g.class # "assertion_mismatch"
  <2>1. f = g
    BY <1>3 DEF classify_one
  <2>2. Fair(g)
    BY <1>1, <1>2
  <2> QED BY <2>1, <2>2
<1>4. ASSUME g.status = "failed", g.class = "assertion_mismatch"
      PROVE  Fair(f)
  <2> HIDE DEF i
  <2>1. g.path = a.path /\ g.term = a
    BY <1>1
  <2>2. CASE i = 0
    <3>1. f = [g EXCEPT !.cause = NoCause]
      BY <1>4, <2>1, <2>2 DEF classify_one, i
    <3> HIDE DEF f
    <3> QED BY <1>1, <1>2, <3>1
  <2>3. CASE i # 0
    <3> DEFINE class == IF Contradicted(a, tl[i], before)
                        THEN "false_success_or_state_mismatch" ELSE g.class
    <3>1. f = [g EXCEPT !.cause = ToolAction(i, tl[i]), !.causal = i, !.class = class]
      BY <1>4, <2>1, <2>3 DEF classify_one, i
    <3> HIDE DEF f
    <3>2. /\ f.type = "assertion" /\ f.severity = a.severity /\ f.warnings = 0
          /\ f.class = class /\ f.term = a /\ f.causal = i
      <4> HIDE DEF class
      <4> QED BY <1>1, <3>1
    <3> QED BY <1>1, <1>4, <2>3, <3>2
  <2> QED BY <2>2, <2>3
<1> QED BY <1>3, <1>4

LEMMA TrajectoryFindingIs ==
    ASSUME NEW expected, NEW tl
    PROVE  LET f == evaluate_expected_tools(expected, tl)
           IN /\ f.type = "expected_tools" /\ f.severity = "critical"
              /\ f.warnings = 0 /\ f.status \in {"passed", "failed", "not_evaluated"}
              /\ f.class \in {None, "missing_expected_tool", "trajectory_order_violation"}
BY DEF evaluate_expected_tools, Finding

LEMMA ExecutionFindingIs ==
    ASSUME NEW tl, NEW f \in execution_findings(tl)
    PROVE  /\ f.check = "tool_execution" /\ f.type = "policy" /\ f.severity = "critical"
           /\ f.warnings = 0 /\ f.status = "failed" /\ f.class = "tool_execution_error"
BY DEF execution_findings, Finding

LEMMA PolicyFindingHas ==
    ASSUME NEW p, NEW status, NEW class, NEW causal
    PROVE  LET f == PolicyFinding(p, status, class, causal)
           IN /\ f \in [check : {p.type}, type : {"policy"}, status : {status},
                        severity : {"critical"}, term : {p}, class : {class}, path : {None},
                        paths : {{}}, causal : {causal}, exempt : {{}}, cause : {None},
                        warnings : {0}]
BY DEF PolicyFinding, Finding

\* The classes a policy of each type may fail with.
PolicyClass(type) ==
    CASE type = "requires_confirmation" -> "missing_confirmation"
      [] type = "idempotent_by_request_id" -> "idempotency_violation"
      [] type = "maximum_mutations" -> "idempotency_violation"
      [] type = "forbidden_tool" -> "unexpected_tool"
      [] type = "no_undeclared_changes" -> "undeclared_state_change"
      [] type = "stable_tool_surface" -> "tool_surface_mutation"

LEMMA PolicyFindingIs ==
    ASSUME NEW p, p.type \in PolicyType, NEW tl \in Seq(Event), NEW effects, NEW declared,
           NEW changed
    PROVE  LET f == evaluate_policy(p, tl, effects, declared, changed)
           IN /\ f.check = p.type /\ f.type = "policy" /\ f.severity = "critical"
              /\ f.warnings \in Nat
              /\ f.status \in {"passed", "failed", "observation_unavailable", "not_evaluated"}
              /\ f.class \in {None, "observation_unavailable", PolicyClass(p.type)}
              /\ f.status = "passed" => f.class = None
<1> DEFINE Good(f) ==
             /\ f.check = p.type /\ f.type = "policy" /\ f.severity = "critical"
             /\ f.warnings \in Nat
             /\ f.status \in {"passed", "failed", "observation_unavailable", "not_evaluated"}
             /\ f.class \in {None, "observation_unavailable", PolicyClass(p.type)}
             /\ f.status = "passed" => f.class = None
           g == evaluate_policy(p, tl, effects, declared, changed)
<1>1. ASSUME NEW causal
      PROVE  /\ Good(PolicyFinding(p, "passed", None, causal))
             /\ Good(PolicyFinding(p, "not_evaluated", None, causal))
             /\ Good(PolicyFinding(p, "failed", PolicyClass(p.type), causal))
             /\ Good(Unavailable(p, causal))
  BY PolicyFindingHas DEF Unavailable
<1> SUFFICES Good(g)
  OBVIOUS
<1> HIDE DEF Good
<1>2. CASE p.type = "requires_confirmation"
  <2>1. g = evaluate_requires_confirmation(p, tl) /\ PolicyClass(p.type) = "missing_confirmation"
    BY <1>2 DEF evaluate_policy, PolicyClass
  <2>2. \E causal : g = PolicyFinding(p, "passed", None, causal)
                    \/ g = PolicyFinding(p, "failed", "missing_confirmation", causal)
    <3> HIDE DEF g
    <3> QED BY <2>1 DEF evaluate_requires_confirmation
  <2> QED BY <1>1, <2>1, <2>2
<1>3. CASE p.type = "idempotent_by_request_id"
  <2>1. g = evaluate_idempotency(p, tl) /\ PolicyClass(p.type) = "idempotency_violation"
    BY <1>3 DEF evaluate_policy, PolicyClass
  <2>2. \E causal : g = PolicyFinding(p, "passed", None, causal)
                    \/ g = PolicyFinding(p, "failed", "idempotency_violation", causal)
                    \/ g = Unavailable(p, causal)
    <3> HIDE DEF g
    <3> QED BY <2>1 DEF evaluate_idempotency
  <2> QED BY <1>1, <2>1, <2>2
<1>4. CASE p.type = "maximum_mutations"
  <2>1. g = evaluate_maximum_mutations(p, tl) /\ PolicyClass(p.type) = "idempotency_violation"
    BY <1>4 DEF evaluate_policy, PolicyClass
  <2>2. \E causal : g = PolicyFinding(p, "passed", None, causal)
                    \/ g = PolicyFinding(p, "failed", "idempotency_violation", causal)
                    \/ g = Unavailable(p, causal)
    <3> HIDE DEF g
    <3> QED BY <2>1 DEF evaluate_maximum_mutations
  <2> QED BY <1>1, <2>1, <2>2
<1>5. CASE p.type = "forbidden_tool"
  <2>1. g = evaluate_forbidden_tool(p, tl) /\ PolicyClass(p.type) = "unexpected_tool"
    BY <1>5 DEF evaluate_policy, PolicyClass
  <2>2. \E causal : g = PolicyFinding(p, "passed", None, causal)
                    \/ g = PolicyFinding(p, "failed", "unexpected_tool", causal)
    <3> HIDE DEF g
    <3> QED BY <2>1 DEF evaluate_forbidden_tool
  <2> QED BY <1>1, <2>1, <2>2
<1>6. CASE p.type = "no_undeclared_changes"
  <2>1. ASSUME NEW f, NEW status, NEW class, f = PolicyFinding(p, status, class, 0), Good(f),
               NEW paths, NEW exempt, NEW cause
        PROVE  /\ Good([f EXCEPT !.exempt = exempt])
               /\ Good([f EXCEPT !.paths = paths, !.exempt = exempt, !.cause = cause])
    BY <2>1, PolicyFindingHas DEF Good
  <2>2. /\ g = evaluate_no_undeclared_changes(p, tl, effects, declared, changed)
        /\ PolicyClass(p.type) = "undeclared_state_change"
    BY <1>6 DEF evaluate_policy, PolicyClass
  <2> HIDE DEF g
  <2>3. \E exempt, paths, cause :
           \/ g = PolicyFinding(p, "not_evaluated", None, 0)
           \/ g = [PolicyFinding(p, "passed", None, 0) EXCEPT !.exempt = exempt]
           \/ g = [PolicyFinding(p, "failed", "undeclared_state_change", 0)
                      EXCEPT !.paths = paths, !.exempt = exempt, !.cause = cause]
    BY <2>2 DEF evaluate_no_undeclared_changes
  <2>4. PICK exempt, paths, cause :
           \/ g = PolicyFinding(p, "not_evaluated", None, 0)
           \/ g = [PolicyFinding(p, "passed", None, 0) EXCEPT !.exempt = exempt]
           \/ g = [PolicyFinding(p, "failed", "undeclared_state_change", 0)
                      EXCEPT !.paths = paths, !.exempt = exempt, !.cause = cause]
    BY <2>3
  <2>5. CASE g = PolicyFinding(p, "not_evaluated", None, 0)
    BY <1>1, <2>5
  <2>6. CASE g = [PolicyFinding(p, "passed", None, 0) EXCEPT !.exempt = exempt]
    BY <1>1, <2>1, <2>6
  <2>7. CASE g = [PolicyFinding(p, "failed", "undeclared_state_change", 0)
                    EXCEPT !.paths = paths, !.exempt = exempt, !.cause = cause]
    <3>1. Good(PolicyFinding(p, "failed", "undeclared_state_change", 0))
      BY <1>1, <2>2
    <3> QED BY <2>1, <2>7, <3>1
  <2> QED BY <2>4, <2>5, <2>6, <2>7
<1>7. CASE p.type = "stable_tool_surface"
  <2>1. ASSUME NEW f, NEW status, NEW class, f = PolicyFinding(p, status, class, 0), Good(f),
               NEW n \in Nat
        PROVE  Good([f EXCEPT !.warnings = n])
    BY <2>1, PolicyFindingHas DEF Good
  <2> DEFINE warned == observed_deltas(tl) \ {i \in observed_deltas(tl) : tl[i].kind \in p.kinds}
  <2>2. Cardinality(warned) \in Nat
    <3>1. IsFiniteSet(1..Len(tl)) /\ warned \subseteq 1..Len(tl)
      BY FS_Interval DEF observed_deltas
    <3> QED BY <3>1, FS_Subset, FS_CardinalityType
  <2>3. /\ g = evaluate_stable_tool_surface(p, tl)
        /\ PolicyClass(p.type) = "tool_surface_mutation"
    BY <1>7 DEF evaluate_policy, PolicyClass
  <2> HIDE DEF g
  <2>4. \/ g = Unavailable(p, 0)
        \/ g = [PolicyFinding(p, "passed", None, 0) EXCEPT !.warnings = Cardinality(warned)]
        \/ g = [PolicyFinding(p, "failed", "tool_surface_mutation", 0)
                   EXCEPT !.warnings = Cardinality(warned)]
    BY <2>3 DEF evaluate_stable_tool_surface
  <2> HIDE DEF warned
  <2>5. CASE g = Unavailable(p, 0)
    BY <1>1, <2>5
  <2>6. CASE g = [PolicyFinding(p, "passed", None, 0) EXCEPT !.warnings = Cardinality(warned)]
    BY <1>1, <2>1, <2>2, <2>6
  <2>7. CASE g = [PolicyFinding(p, "failed", "tool_surface_mutation", 0)
                    EXCEPT !.warnings = Cardinality(warned)]
    BY <1>1, <2>1, <2>2, <2>3, <2>7
  <2> QED BY <2>4, <2>5, <2>6, <2>7
<1> QED BY <1>2, <1>3, <1>4, <1>5, <1>6, <1>7 DEF PolicyType

----------------------------------------------------------------------------
\* The judgement

\* What the seal wrote, of whom the invariant holds.
LEMMA SealedAs ==
    ASSUME IInv, Sealed
    PROVE  LET ev == Evaluation(contract, EffectMap, Read, initial, Final)
           IN /\ verdict.findings = AllFindings(ev)
              /\ verdict.row = with_recorded_warnings(AllFindings(ev))
              /\ verdict.primary = primary_failure(AllFindings(ev))
              /\ verdict.report = compose_outcome_report(ev, Read)
              /\ \A c \in Calls : call[c].pc \in {"idle", "done"}
              /\ Shown = judging.shown /\ Final = judging.final
<1>1. ~Open /\ judging.final # None
  BY DEF IInv, SealInv, Sealed
<1>2. Shown = judging.shown /\ Final = judging.final
  BY <1>1 DEF Shown, Final, Open
<1> QED BY <1>1, <1>2 DEF IInv, SealInv, Judgement

LEMMA StateTyped ==
    ASSUME IInv
    PROVE  /\ contract \in Contracts /\ initial \in States /\ Final \in States
           /\ Read \in Seq(Event) /\ Len(Read) \in Nat
           /\ DOMAIN Read = 1..Len(Read) /\ IsFiniteSet(DOMAIN Read)
           /\ call \in [Calls -> CallRecord]
           /\ ChangedPaths(initial, Final) = diff_states(initial, Final)
           /\ diff_states(initial, Final) # None
<1>1. /\ contract \in Contracts /\ initial \in States /\ Final \in States
      /\ Read \in Seq(Event) /\ Len(Read) \in Nat
      /\ DOMAIN Read = 1..Len(Read) /\ call \in [Calls -> CallRecord]
  BY DEF IInv, TypeOK, Read, Final, MaybeState
<1>2. initial # None /\ Final # None /\ diff_states(initial, Final) # None
  BY <1>1, NoneAssumption
<1> QED BY <1>1, <1>2, FS_Interval DEF ChangedPaths

\* The engine's part of the state, and the four kinds of findings it is made of.
Evidence == Evaluation(contract, EffectMap, Read, initial, Final)

OfAssertion(a) ==
    classify_one(evaluate_assertion(a, initial, Final), Read, EffectMap, initial)

OfPolicy(p) ==
    evaluate_policy(p, Read, EffectMap, declared_contract_paths(contract),
                    ChangedPaths(initial, Final))

LEMMA EvidenceIs ==
    /\ Evidence.assertions = {OfAssertion(a) : a \in contract.assertions}
    /\ Evidence.trajectory = evaluate_expected_tools(contract.expected, Read)
    /\ Evidence.policies = {OfPolicy(p) : p \in contract.policies}
    /\ Evidence.execution = execution_findings(Read)
    /\ Evidence.changes = ChangedPaths(initial, Final)
BY DEF Evidence, Evaluation, OfAssertion, OfPolicy

\* The findings are finitely many, each of them with a number of warnings.
LEMMA FindingsFinite ==
    ASSUME IInv
    PROVE  /\ IsFiniteSet(AllFindings(Evidence))
           /\ \A f \in AllFindings(Evidence) : f.warnings \in Nat
<1>1. IsFiniteSet(contract.assertions) /\ IsFiniteSet(contract.policies)
  BY StateTyped, ContractAssumption
<1>2. IsFiniteSet(Evidence.assertions)
  <2> DEFINE f == [a \in contract.assertions |-> OfAssertion(a)]
  <2>1. Evidence.assertions = {f[a] : a \in contract.assertions}
    BY EvidenceIs
  <2> HIDE DEF f
  <2> QED BY <1>1, <2>1, ImageFinite
<1>3. IsFiniteSet(Evidence.policies)
  <2> DEFINE f == [p \in contract.policies |-> OfPolicy(p)]
  <2>1. Evidence.policies = {f[p] : p \in contract.policies}
    BY EvidenceIs
  <2> HIDE DEF f
  <2> QED BY <1>1, <2>1, ImageFinite
<1>4. IsFiniteSet(Evidence.execution)
  <2> DEFINE failures == {j \in ActingTerminals(Read) : Read[j].type = "tool_invocation_failed"}
             f == [i \in failures |->
                     [Finding("tool_execution", "policy", "failed", "critical", i)
                        EXCEPT !.class = "tool_execution_error", !.causal = i]]
  <2>1. IsFiniteSet(failures)
    <3>1. failures \subseteq DOMAIN Read
      BY DEF ActingTerminals, Indices
    <3> QED BY <3>1, StateTyped, FS_Subset
  <2>2. Evidence.execution = {f[i] : i \in failures}
    BY EvidenceIs DEF execution_findings
  <2> HIDE DEF f, failures
  <2> QED BY <2>1, <2>2, ImageFinite
<1>5. IsFiniteSet({Evidence.trajectory})
  BY FS_Singleton
<1>6. IsFiniteSet(AllFindings(Evidence))
  BY <1>2, <1>3, <1>4, <1>5, FS_Union DEF AllFindings
<1>7. \A f \in Evidence.assertions : f.warnings \in Nat
  BY EvidenceIs, AssertionFindingIs DEF OfAssertion
<1>8. \A f \in Evidence.policies : f.warnings \in Nat
  <2>1. \A p \in contract.policies : p.type \in PolicyType
    BY StateTyped, ContractAssumption
  <2>2. \A p \in contract.policies : OfPolicy(p).warnings \in Nat
    BY <2>1, StateTyped, PolicyFindingIs DEF OfPolicy
  <2> QED BY <2>2, EvidenceIs
<1>9. \A f \in Evidence.execution : f.warnings \in Nat
  BY EvidenceIs, ExecutionFindingIs
<1>10. Evidence.trajectory.warnings \in Nat
  BY EvidenceIs, TrajectoryFindingIs
<1> QED BY <1>6, <1>7, <1>8, <1>9, <1>10 DEF AllFindings

\* A judgement is one of these findings, of a class its kind may have.
LEMMA FindingsAre ==
    ASSUME IInv, NEW f \in AllFindings(Evidence)
    PROVE  \/ \E a \in contract.assertions : f = OfAssertion(a)
           \/ \E p \in contract.policies : p.type \in PolicyType /\ f = OfPolicy(p)
           \/ f = evaluate_expected_tools(contract.expected, Read)
           \/ f \in execution_findings(Read)
BY EvidenceIs, StateTyped, ContractAssumption DEF AllFindings

----------------------------------------------------------------------------
\* The row and the report

LEMMA WarningsCounted ==
    ASSUME NEW S, IsFiniteSet(S), \A f \in S : f.warnings \in Nat
    PROVE  warning_count(S) > 0 <=>
              FailuresOf(S, "warning") # {} \/ \E f \in S : f.warnings > 0
<1> DEFINE w == [f \in S |-> f.warnings]
           sum == MapThenSumSet(LAMBDA f : f.warnings, S)
<1>1. sum = Total(w, S)
  <2> DEFINE Warns(g) ==
               g = [s \in SUBSET S |-> IF s = {} THEN 0
                                       ELSE Pick(s).warnings + g[s \ {Pick(s)}]]
  <2>1. sum = (CHOOSE g : Warns(g))[S]
    BY DEF MapThenSumSet, MapThenFoldSet, Pick
  <2>2. ASSUME NEW s \in SUBSET S, s # {} PROVE w[Pick(s)] = Pick(s).warnings
    BY <2>2, PickIn
  <2>3. ASSUME NEW g PROVE Warns(g) <=> Weighs(w, S, g)
    <3> HIDE DEF w
    <3>1. [s \in SUBSET S |-> IF s = {} THEN 0 ELSE Pick(s).warnings + g[s \ {Pick(s)}]]
          = [s \in SUBSET S |-> IF s = {} THEN 0 ELSE w[Pick(s)] + g[s \ {Pick(s)}]]
      BY <2>2
    <3> QED BY <3>1 DEF Weighs
  <2> HIDE DEF Warns, w
  <2>4. PICK g : Weighs(w, S, g)
    BY WeighsSomehow
  <2>5. Warns(g)
    BY <2>3, <2>4
  <2>6. Warns(CHOOSE h : Warns(h))
    BY <2>5
  <2>7. Weighs(w, S, CHOOSE h : Warns(h)) /\ Weighs(w, S, CHOOSE h : Weighs(w, S, h))
    BY <2>3, <2>4, <2>6
  <2>8. (CHOOSE h : Warns(h))[S] = (CHOOSE h : Weighs(w, S, h))[S]
    BY <2>7, WeighsOnce
  <2> QED BY <2>1, <2>8 DEF Total
<1>2. sum \in Nat /\ (sum > 0 <=> \E f \in S : f.warnings > 0)
  <2>1. \A f \in S : w[f] = f.warnings /\ w[f] \in Nat /\ w[f] \in Int
    OBVIOUS
  <2> HIDE DEF w, sum
  <2> QED BY <1>1, <2>1, TotalType, TotalPositive
<1>3. /\ Cardinality(FailuresOf(S, "warning")) \in Nat
      /\ Cardinality(FailuresOf(S, "warning")) > 0 <=> FailuresOf(S, "warning") # {}
  <2>1. FailuresOf(S, "warning") \subseteq S
    BY DEF FailuresOf
  <2> QED BY <2>1, FS_Subset, FS_CardinalityType, FS_EmptySet
<1> HIDE DEF sum
<1> QED BY <1>2, <1>3 DEF warning_count, sum

LEMMA SameStory ==
    ASSUME IInv
    PROVE  LET report == compose_outcome_report(Evidence, Read)
               all == AllFindings(Evidence)
           IN /\ report.status = with_recorded_warnings(all)
              /\ report.primary = IF primary_failure(all) = None THEN None
                                  ELSE primary_failure(all).class
              /\ report.undeclared = undeclared_changes(Evidence)
<1> DEFINE all == AllFindings(Evidence)
           report == compose_outcome_report(Evidence, Read)
<1>1. ReportFindings(Evidence) = all
  BY DEF ReportFindings, AllFindings
<1>2. IsFiniteSet(all) /\ \A f \in all : f.warnings \in Nat
  BY FindingsFinite
<1>3. /\ report.status = (IF critical_failures(all) > 0 THEN "failed"
                          ELSE IF warning_count(all) > 0 THEN "passed_with_warnings"
                          ELSE "passed")
      /\ report.primary = (IF primary_failure(all) = None THEN None
                           ELSE primary_failure(all).class)
      /\ report.undeclared = undeclared_changes(Evidence)
  BY <1>1 DEF compose_outcome_report
<1> HIDE DEF all, report
<1>4. critical_failures(all) > 0 <=> FailuresOf(all, "critical") # {}
  <2>1. FailuresOf(all, "critical") \subseteq all
    BY DEF FailuresOf
  <2> QED BY <1>2, <2>1, FS_Subset, FS_CardinalityType, FS_EmptySet DEF critical_failures
<1>5. warning_count(all) > 0 <=>
         FailuresOf(all, "warning") # {} \/ \E f \in all : f.warnings > 0
  BY <1>2, WarningsCounted
<1>6. report.status = with_recorded_warnings(all)
  BY <1>3, <1>4, <1>5 DEF with_recorded_warnings, aggregate
<1> QED BY <1>3, <1>6 DEF all, report

\* Only critical findings are in the safety layer, so it is never passed with warnings.
LEMMA LayersAllowed ==
    ASSUME IInv
    PROVE  LayersPermitted(compose_outcome_report(Evidence, Read).layers)
<1> DEFINE safety == Evidence.policies \cup Evidence.execution
<1>1. layer_from(Evidence.trajectory) \in {"passed", "failed", "not_evaluated"}
  BY EvidenceIs, TrajectoryFindingIs DEF layer_from
<1>2. tool_execution_layer(Read) \in {"passed", "blocked_safely", "failed", "not_evaluated"}
  BY DEF tool_execution_layer
<1>3. aggregate(Evidence.assertions) \in
         {"passed", "passed_with_warnings", "failed", "error", "not_evaluated"}
  BY DEF aggregate
<1>4. \A f \in safety : f.severity = "critical"
  <2>1. \A p \in contract.policies : OfPolicy(p).severity = "critical"
    BY StateTyped, ContractAssumption, PolicyFindingIs DEF OfPolicy
  <2> QED BY <2>1, EvidenceIs, ExecutionFindingIs
<1>5. aggregate(safety) \in {"passed", "failed", "error"}
  <2>1. FailuresOf(safety, "warning") = {}
    BY <1>4 DEF FailuresOf
  <2> QED BY <2>1 DEF aggregate
<1>6. compose_outcome_report(Evidence, Read).layers =
         [observed_trajectory |-> layer_from(Evidence.trajectory),
          tool_execution |-> tool_execution_layer(Read),
          business_outcome |-> aggregate(Evidence.assertions),
          safety_policy |-> aggregate(safety)]
  BY DEF compose_outcome_report
<1> HIDE DEF safety
<1> QED BY <1>1, <1>2, <1>3, <1>5, <1>6 DEF LayersPermitted, ALLOWED_LAYER_RESULTS

LEMMA PathsFinite ==
    ASSUME NEW s \in States
    PROVE  IsFiniteSet(PathsOf(s))
<1> DEFINE prefixes == [l \in DOMAIN s |-> {SubSeq(l, 1, n) : n \in 1..Len(l)}]
<1>1. IsFiniteSet(DOMAIN s) /\ DOMAIN s \subseteq Seq(STRING)
  BY TargetAssumption
<1>2. ASSUME NEW l \in DOMAIN s PROVE IsFiniteSet(prefixes[l])
  <2> DEFINE f == [n \in 1..Len(l) |-> SubSeq(l, 1, n)]
  <2>1. prefixes[l] = {f[n] : n \in 1..Len(l)}
    OBVIOUS
  <2>2. IsFiniteSet(1..Len(l))
    BY <1>1, FS_Interval
  <2> HIDE DEF f, prefixes
  <2>3. IsFiniteSet({f[n] : n \in 1..Len(l)})
    BY <2>2, ImageFinite
  <2> QED BY <2>1, <2>3
<1>3. PathsOf(s) = UNION {prefixes[l] : l \in DOMAIN s}
  BY DEF PathsOf
<1> HIDE DEF prefixes
<1> DEFINE all == {prefixes[l] : l \in DOMAIN s}
<1>4. IsFiniteSet(all)
  BY <1>1, ImageFinite
<1>5. \A q \in all : IsFiniteSet(q)
  BY <1>2
<1> HIDE DEF all
<1>6. IsFiniteSet(UNION all)
  BY <1>4, <1>5, FS_UNION
<1> QED BY <1>3, <1>6 DEF all

\* The finding of a policy against undeclared changes lists a path when it fails.
LEMMA UndeclaredFindingIs ==
    ASSUME IInv, NEW p \in contract.policies, p.type = "no_undeclared_changes"
    PROVE  LET f == OfPolicy(p)
           IN /\ f.check = "no_undeclared_changes" /\ f.status # "not_evaluated"
              /\ IsFiniteSet(f.paths)
              /\ f.class = "undeclared_state_change" <=> f.paths # {}
<1> DEFINE f == OfPolicy(p)
           changed == diff_states(initial, Final)
<1>1. f = evaluate_no_undeclared_changes(p, Read, EffectMap,
                                         declared_contract_paths(contract), changed)
  BY StateTyped DEF OfPolicy, evaluate_policy
<1>2. changed # None /\ "undeclared_state_change" # None
  BY StateTyped, NoneAssumption DEF FailureClassification
<1>3. IsFiniteSet(changed)
  BY StateTyped, PathsFinite, FS_Union, FS_Subset DEF diff_states
<1> HIDE DEF f, changed
<1>4. PICK undeclared, exempt, cause :
         /\ undeclared \in SUBSET changed
         /\ IF undeclared = {}
            THEN f = [PolicyFinding(p, "passed", None, 0) EXCEPT !.exempt = exempt]
            ELSE f = [PolicyFinding(p, "failed", "undeclared_state_change", 0)
                        EXCEPT !.paths = undeclared, !.exempt = exempt, !.cause = cause]
  <2> DEFINE outside == {q \in changed : ~covered(q, declared_contract_paths(contract)
                                                      \cup ExecutedEffects(Read, EffectMap))}
             waivers(q) == {n \in DOMAIN p.allow : overlaps(p.allow[n], q)}
             undeclared == {q \in outside : waivers(q) = {}}
             exempt == {p.allow[Min(waivers(q))] : q \in outside \ undeclared}
  <2>1. undeclared \in SUBSET changed
    OBVIOUS
  <2>2. IF undeclared = {}
        THEN f = [PolicyFinding(p, "passed", None, 0) EXCEPT !.exempt = exempt]
        ELSE f = [PolicyFinding(p, "failed", "undeclared_state_change", 0)
                    EXCEPT !.paths = undeclared, !.exempt = exempt,
                           !.cause = adjacent_cause(Read)]
    BY <1>1, <1>2 DEF evaluate_no_undeclared_changes
  <2> HIDE DEF undeclared, exempt
  <2> QED BY <2>1, <2>2
<1>5. IsFiniteSet(undeclared)
  BY <1>3, <1>4, FS_Subset
<1>6. CASE undeclared = {}
  <2>1. /\ f.check = p.type /\ f.status = "passed" /\ f.paths = {} /\ f.class = None
    BY <1>4, <1>6, PolicyFindingHas
  <2> QED BY <1>2, <1>5, <1>6, <2>1 DEF f
<1>7. CASE undeclared # {}
  <2> DEFINE g == PolicyFinding(p, "failed", "undeclared_state_change", 0)
  <2>0. f = [g EXCEPT !.paths = undeclared, !.exempt = exempt, !.cause = cause]
    BY <1>4, <1>7
  <2>9. g \in [check : {p.type}, type : {"policy"}, status : {"failed"},
                severity : {"critical"}, term : {p}, class : {"undeclared_state_change"},
                path : {None}, paths : {{}}, causal : {0}, exempt : {{}}, cause : {None},
                warnings : {0}]
    BY PolicyFindingHas
  <2> HIDE DEF g
  <2>1. /\ f.check = p.type /\ f.status = "failed" /\ f.paths = undeclared
        /\ f.class = "undeclared_state_change"
    BY <2>0, <2>9
  <2> QED BY <1>5, <1>7, <2>1 DEF f
<1> QED BY <1>6, <1>7

\* Only such a policy finds an undeclared change.
LEMMA UndeclaredFrom ==
    ASSUME IInv, NEW f \in AllFindings(Evidence), f.class = "undeclared_state_change"
    PROVE  \E p \in contract.policies : p.type = "no_undeclared_changes" /\ f = OfPolicy(p)
<1>1. "undeclared_state_change" # None
  BY NoneAssumption DEF FailureClassification
<1>2. CASE \E a \in contract.assertions : f = OfAssertion(a)
  BY <1>1, <1>2, AssertionFindingIs DEF OfAssertion
<1>3. CASE \E p \in contract.policies : p.type \in PolicyType /\ f = OfPolicy(p)
  <2>1. PICK p \in contract.policies : p.type \in PolicyType /\ f = OfPolicy(p)
    BY <1>3
  <2>2. f.class \in {None, "observation_unavailable", PolicyClass(p.type)}
    BY <2>1, PolicyFindingIs, StateTyped DEF OfPolicy
  <2>3. p.type = "no_undeclared_changes"
    BY <1>1, <2>1, <2>2 DEF PolicyClass, PolicyType
  <2> QED BY <2>1, <2>3
<1>4. CASE f = evaluate_expected_tools(contract.expected, Read)
  BY <1>1, <1>4, TrajectoryFindingIs
<1>5. CASE f \in execution_findings(Read)
  BY <1>5, ExecutionFindingIs
<1> QED BY <1>2, <1>3, <1>4, <1>5, FindingsAre

\* A contract says at most once that nothing undeclared may change.  The code
\* accepts one that says it twice, with different waivers; the report's block is
\* then of the first of the two findings, whichever of them failed.
OneUndeclared ==
    \A k \in Contracts : \A p, q \in k.policies :
        p.type = "no_undeclared_changes" /\ q.type = "no_undeclared_changes" => p = q

LEMMA BlockIsTold ==
    ASSUME IInv, OneUndeclared, undeclared_changes(Evidence) # None
    PROVE  undeclared_changes(Evidence).undeclared > 0 <=>
              \E f \in AllFindings(Evidence) : f.class = "undeclared_state_change"
<1> DEFINE of == {f \in Evidence.policies :
                    f.check = "no_undeclared_changes" /\ f.status # "not_evaluated"}
           g == CHOOSE f \in of : TRUE
<1>1. of # {} /\ undeclared_changes(Evidence).undeclared = Cardinality(g.paths)
  BY DEF undeclared_changes
<1>2. g \in of
  BY <1>1
<1> HIDE DEF g
<1>3. PICK p \in contract.policies : g = OfPolicy(p) /\ OfPolicy(p).check = "no_undeclared_changes"
  BY <1>2, EvidenceIs
<1>4. p.type = "no_undeclared_changes"
  BY <1>3, StateTyped, ContractAssumption, PolicyFindingIs DEF OfPolicy
<1>5. IsFiniteSet(g.paths) /\ (g.class = "undeclared_state_change" <=> g.paths # {})
  BY <1>3, <1>4, UndeclaredFindingIs
<1>6. Cardinality(g.paths) > 0 <=> g.class = "undeclared_state_change"
  BY <1>5, FS_CardinalityType, FS_EmptySet
<1>7. g \in AllFindings(Evidence)
  BY <1>2 DEF AllFindings
<1>8. ASSUME NEW f \in AllFindings(Evidence), f.class = "undeclared_state_change" PROVE f = g
  BY <1>3, <1>4, <1>8, UndeclaredFrom, StateTyped DEF OneUndeclared
<1> QED BY <1>1, <1>6, <1>7, <1>8

\* RowMatchesReport: the row and the report of every run agree, whatever the
\* tools, the Final and the page did, and the report is never refused.
THEOREM RowAlwaysMatches ==
    ASSUME OneUndeclared
    PROVE  Spec => []RowMatchesReport
<1>1. IInv => RowMatchesReport
  <2> SUFFICES ASSUME IInv, Sealed
               PROVE  /\ verdict.row = verdict.report.status
                      /\ verdict.report.primary =
                            (IF verdict.primary = None THEN None ELSE verdict.primary.class)
                      /\ verdict.report.undeclared # None =>
                            (verdict.report.undeclared.undeclared > 0 <=>
                               \E f \in verdict.findings : f.class = "undeclared_state_change")
                      /\ LayersPermitted(verdict.report.layers)
    BY DEF RowMatchesReport
  <2>1. /\ verdict.findings = AllFindings(Evidence)
        /\ verdict.row = with_recorded_warnings(AllFindings(Evidence))
        /\ verdict.primary = primary_failure(AllFindings(Evidence))
        /\ verdict.report = compose_outcome_report(Evidence, Read)
    BY SealedAs DEF Evidence
  <2> QED BY <2>1, SameStory, BlockIsTold, LayersAllowed
<1> QED BY <1>1, RecordHolds, PTL

----------------------------------------------------------------------------
\* A pass is earned

LEMMA TwoMembers ==
    ASSUME NEW S, IsFiniteSet(S)
    PROVE  /\ Cardinality(S) \in Nat
           /\ Cardinality(S) > 1 <=> \E x, y \in S : x # y
<1>1. Cardinality(S) \in Nat
  BY FS_CardinalityType
<1>2. ASSUME NEW x \in S, NEW y \in S, x # y PROVE Cardinality(S) > 1
  <2>1. IsFiniteSet({x, y}) /\ {x, y} \subseteq S
    BY FS_Subset
  <2>2. Cardinality({x, y}) = 2
    <3>1. IsFiniteSet({x}) /\ Cardinality({x}) = 1
      BY FS_Singleton
    <3>2. Cardinality({x} \cup {y}) = 2
      BY <1>2, <3>1, FS_AddElement
    <3>3. {x} \cup {y} = {x, y}
      OBVIOUS
    <3> QED BY <3>2, <3>3
  <2> QED BY <1>1, <2>1, <2>2, FS_Subset
<1>3. ASSUME ~ \E x, y \in S : x # y PROVE ~(Cardinality(S) > 1)
  <2>1. CASE S = {}
    BY <2>1, FS_EmptySet
  <2>2. CASE S # {}
    <3>1. PICK x \in S : S = {x}
      BY <1>3, <2>2
    <3> QED BY <3>1, FS_Singleton
  <2> QED BY <2>1, <2>2
<1> QED BY <1>1, <1>2, <1>3

\* No critical finding of a run that is not failed is a failure.
LEMMA NothingFailed ==
    ASSUME IInv, Sealed, verdict.row # "failed"
    PROVE  /\ \A p \in contract.policies :
                 p.type \in PolicyType /\ OfPolicy(p).status \notin {"failed", "observation_unavailable"}
           /\ \A i \in DOMAIN Read :
                 Read[i].actor = "agent" => Read[i].type # "tool_invocation_failed"
<1> DEFINE all == AllFindings(Evidence)
<1>1. verdict.row = with_recorded_warnings(all)
  BY SealedAs DEF Evidence
<1>2. FailuresOf(all, "critical") = {}
  BY <1>1 DEF with_recorded_warnings, aggregate
<1>3. \A f \in all : f.severity = "critical" => f.status \notin {"failed", "observation_unavailable"}
  BY <1>2 DEF FailuresOf, failed
<1>4. ASSUME NEW p \in contract.policies
      PROVE  p.type \in PolicyType /\ OfPolicy(p).status \notin {"failed", "observation_unavailable"}
  <2>1. p.type \in PolicyType
    BY StateTyped, ContractAssumption
  <2>2. OfPolicy(p).severity = "critical"
    BY <2>1, StateTyped, PolicyFindingIs DEF OfPolicy
  <2>3. OfPolicy(p) \in all
    BY EvidenceIs DEF AllFindings
  <2> QED BY <1>3, <2>1, <2>2, <2>3
<1>5. ASSUME NEW i \in DOMAIN Read, Read[i].actor = "agent",
             Read[i].type = "tool_invocation_failed"
      PROVE  FALSE
  <2> DEFINE f == [Finding("tool_execution", "policy", "failed", "critical", i)
                     EXCEPT !.class = "tool_execution_error", !.causal = i]
  <2>1. i \in ActingTerminals(Read)
    BY <1>5 DEF ActingTerminals, Indices, TerminalEvents, ActingActors
  <2>2. f \in execution_findings(Read)
    BY <1>5, <2>1 DEF execution_findings
  <2>3. f \in all /\ f.severity = "critical" /\ f.status = "failed"
    BY <2>2, EvidenceIs, ExecutionFindingIs DEF AllFindings
  <2> QED BY <1>3, <2>3
<1> QED BY <1>4, <1>5

\* What really moved the Final left a completed event of its own; the event says
\* that it moved the Final or does not say whether it did.
LEMMA MoversAre ==
    ASSUME IInv, Sealed, verdict.row # "failed", ~Disturbed, NEW c \in Movers
    PROVE  LET i == call[c].ended
           IN /\ i \in DOMAIN Read
              /\ Read[i].type = "tool_invocation_completed"
              /\ Read[i].tool = call[c].tool /\ Read[i].rid = call[c].rid
              /\ Read[i].rid # None /\ Read[i].corr = c
              /\ changed_state(Read[i]) # None => Moved(Read[i])
<1> DEFINE i == call[c].ended
<1>1. c \in Calls /\ call[c].moved
  BY DEF Movers
<1>2. CallBegun(c) /\ CallEnded(c) /\ call[c].pc \in {"idle", "done"}
  BY <1>1, SealedAs DEF IInv, CallInv
<1>3. call[c].pc = "done"
  BY <1>1, <1>2 DEF CallBegun
<1>4. i \in DOMAIN Read /\ EndsCall(Read[i], c) /\ EndsTruly(Read[i], c)
  BY <1>1, <1>2, <1>3 DEF CallEnded
<1>5. Read[i].type = "tool_invocation_completed"
  BY <1>4, NothingFailed DEF EndsCall
<1>6. changed_state(Read[i]) # None => Moved(Read[i])
  BY <1>1, <1>4 DEF EndsCall, EndsTruly, changed_state, Moved
<1>7. Read[i].rid # None
  BY <1>4, NoneAssumption DEF EndsCall
<1> QED BY <1>4, <1>5, <1>6, <1>7 DEF EndsCall

LEMMA OnceEach ==
    ASSUME IInv, Sealed, verdict.row # "failed", ~Disturbed,
           NEW p \in Policy("idempotent_by_request_id"), NEW rid \in Requests
    PROVE  Cardinality({c \in Movers : call[c].tool = p.tool /\ call[c].rid = rid}) <= 1
<1> DEFINE S == {c \in Movers : call[c].tool = p.tool /\ call[c].rid = rid}
           group == Under(Read, p.tool, rid)
           completions == completions_for(Read, p.tool)
           repeated == {Read[i].rid : i \in {j \in completions : Read[j].rid # None /\
                           Cardinality(Under(Read, p.tool, Read[j].rid)) > 1}}
           wrong == {r \in repeated :
                        LET g == Under(Read, p.tool, r) IN
                        UnknownOf(Read, g) # {} \/ Cardinality(MovedOf(Read, g)) > 1}
<1>1. IsFiniteSet(S)
  BY VerdictAssumption, FS_Subset DEF Movers
<1>2. SUFFICES ASSUME NEW c \in S, NEW d \in S, c # d PROVE FALSE
  BY <1>1, TwoMembers
<1>3. wrong = {}
  <2>1. p \in contract.policies /\ p.type = "idempotent_by_request_id"
    BY DEF Policy
  <2>2. OfPolicy(p) = evaluate_idempotency(p, Read)
    BY <2>1 DEF OfPolicy, evaluate_policy
  <2>3. OfPolicy(p).status \notin {"failed", "observation_unavailable"}
    BY <2>1, NothingFailed
  <2>4. ASSUME wrong # {} PROVE OfPolicy(p).status \in {"failed", "observation_unavailable"}
    <3>1. \E causal : \/ OfPolicy(p) = Unavailable(p, causal)
                      \/ OfPolicy(p) = PolicyFinding(p, "failed", "idempotency_violation", causal)
      BY <2>2, <2>4 DEF evaluate_idempotency
    <3> QED BY <3>1, PolicyFindingHas DEF Unavailable
  <2> QED BY <2>3, <2>4
<1> DEFINE i == call[c].ended
           j == call[d].ended
<1>4. /\ i \in DOMAIN Read /\ j \in DOMAIN Read /\ i # j
      /\ Read[i].rid = rid /\ Read[j].rid = rid /\ rid # None
      /\ Read[i].type = "tool_invocation_completed" /\ Read[i].tool = p.tool
      /\ Read[j].type = "tool_invocation_completed" /\ Read[j].tool = p.tool
      /\ changed_state(Read[i]) # None => Moved(Read[i])
      /\ changed_state(Read[j]) # None => Moved(Read[j])
  BY <1>2, MoversAre
<1> HIDE DEF i, j
<1>5. i \in completions /\ i \in group /\ j \in group /\ i # j
  BY <1>4 DEF completions_for, Indices, Under
<1>6. IsFiniteSet(group) /\ IsFiniteSet(MovedOf(Read, group))
  <2>1. group \subseteq DOMAIN Read /\ MovedOf(Read, group) \subseteq DOMAIN Read
    BY DEF Under, completions_for, Indices, MovedOf
  <2> QED BY <2>1, StateTyped, FS_Subset
<1>7. Cardinality(group) > 1
  BY <1>5, <1>6, TwoMembers
<1>8. rid \in repeated
  BY <1>4, <1>5, <1>7
<1>9. UnknownOf(Read, group) = {} /\ ~(Cardinality(MovedOf(Read, group)) > 1)
  BY <1>3, <1>8
<1>10. i \in MovedOf(Read, group) /\ j \in MovedOf(Read, group)
  BY <1>4, <1>5, <1>9 DEF UnknownOf, MovedOf
<1> QED BY <1>5, <1>6, <1>9, <1>10, TwoMembers

LEMMA NoMoreThanLimit ==
    ASSUME IInv, Sealed, verdict.row # "failed", ~Disturbed, NEW p \in Policy("maximum_mutations")
    PROVE  Cardinality(Movers) <= p.limit
<1> DEFINE completions == Indices(Read, LAMBDA e : e.type = "tool_invocation_completed")
           mutations == MovedOf(Read, completions)
           end == [c \in Movers |-> call[c].ended]
<1>1. p \in contract.policies /\ p.type = "maximum_mutations" /\ p.limit \in Nat
  BY StateTyped, ContractAssumption DEF Policy
<1>2. OfPolicy(p) = evaluate_maximum_mutations(p, Read)
  BY <1>1 DEF OfPolicy, evaluate_policy
<1>3. OfPolicy(p).status \notin {"failed", "observation_unavailable"}
  BY <1>1, NothingFailed
<1>4. UnknownOf(Read, completions) = {} /\ ~(Cardinality(mutations) > p.limit)
  <2>1. ASSUME UnknownOf(Read, completions) # {} \/ Cardinality(mutations) > p.limit
        PROVE  \E causal : \/ OfPolicy(p) = Unavailable(p, causal)
                           \/ OfPolicy(p) = PolicyFinding(p, "failed", "idempotency_violation", causal)
    BY <1>2, <2>1 DEF evaluate_maximum_mutations
  <2>2. ASSUME NEW causal
        PROVE  /\ Unavailable(p, causal).status = "observation_unavailable"
               /\ PolicyFinding(p, "failed", "idempotency_violation", causal).status = "failed"
    BY PolicyFindingHas DEF Unavailable
  <2> QED BY <1>3, <2>1, <2>2
<1>5. IsFiniteSet(mutations) /\ IsFiniteSet(Movers)
  <2>1. mutations \subseteq DOMAIN Read /\ Movers \subseteq Calls
    BY DEF Indices, MovedOf, Movers
  <2> QED BY <2>1, StateTyped, VerdictAssumption, FS_Subset
<1>6. ASSUME NEW c \in Movers PROVE end[c] \in mutations /\ Read[end[c]].corr = c
  <2>1. end[c] \in completions
    BY MoversAre DEF Indices
  <2> QED BY <1>4, <2>1, MoversAre DEF UnknownOf, MovedOf
<1> HIDE DEF mutations
<1>7. end \in Injection(Movers, mutations)
  BY <1>6 DEF Injection, IsInjective
<1>8. Cardinality(Movers) <= Cardinality(mutations)
  BY <1>5, <1>7, FS_Injection
<1> QED BY <1>1, <1>4, <1>5, <1>8, FS_CardinalityType

\* The diff lists every leaf whose value was rewritten: nothing above it is a leaf.
LEMMA RewrittenListed ==
    ASSUME NEW s \in States, NEW t \in States, NEW l \in DOMAIN s \cap DOMAIN t,
           ~SameValue(s[l], t[l])
    PROVE  l \in diff_states(s, t)
<1>1. l \in Seq(STRING) /\ l # <<>> /\ Len(l) \in Nat
  BY TargetAssumption
<1>2. Len(l) >= 1 /\ SubSeq(l, 1, Len(l)) = l
  BY <1>1
<1>3. is_ancestor_of(l, l)
  BY <1>1, <1>2 DEF is_ancestor_of
<1>4. l \in PathsOf(s)
  <2>1. Len(l) \in 1..Len(l)
    BY <1>1, <1>2
  <2>2. l \in {SubSeq(l, 1, n) : n \in 1..Len(l)}
    BY <1>2, <2>1
  <2> QED BY <2>2 DEF PathsOf
<1>5. Rewritten(l, s, t)
  BY <1>3 DEF Rewritten, found, Below, IsLeaf
<1>6. ASSUME NEW n \in 0..(Len(l) - 1) PROVE descends(SubSeq(l, 1, n), s, t)
  <2> DEFINE q == SubSeq(l, 1, n)
  <2>1. n \in Nat /\ n < Len(l) /\ n <= Len(l)
    BY <1>1
  <2>2. q \in Seq(STRING) /\ Len(q) = n
    BY <1>1, <2>1
  <2>3. is_ancestor_of(q, l)
    BY <1>1, <2>1, <2>2 DEF is_ancestor_of
  <2>4. q # l
    BY <2>1, <2>2
  <2> HIDE DEF q
  <2>5. q \notin DOMAIN s /\ q \notin DOMAIN t
    BY <2>3, <2>4, TargetAssumption
  <2>6. found(q, s) /\ found(q, t)
    BY <2>3 DEF found, Below
  <2> QED BY <2>5, <2>6 DEF descends, IsLeaf, q
<1> QED BY <1>4, <1>5, <1>6 DEF diff_states

LEMMA AllAccounted ==
    ASSUME IInv, Sealed, verdict.row # "failed", NEW p \in Policy("no_undeclared_changes"),
           NEW l \in RewrittenLeaves
    PROVE  Accounted(l, p)
<1> DEFINE changed == diff_states(initial, Final)
           declared == declared_contract_paths(contract)
           effects == ExecutedEffects(Read, EffectMap)
           outside == {q \in changed : ~covered(q, declared \cup effects)}
           waivers(q) == {n \in DOMAIN p.allow : overlaps(p.allow[n], q)}
           undeclared == {q \in outside : waivers(q) = {}}
           exempt == {p.allow[Min(waivers(q))] : q \in outside \ undeclared}
<1>1. p \in contract.policies /\ p.type = "no_undeclared_changes"
  BY DEF Policy
<1>2. l \in changed
  BY SealedAs, StateTyped, RewrittenListed DEF RewrittenLeaves
<1>3. OfPolicy(p) = evaluate_no_undeclared_changes(p, Read, EffectMap, declared, changed)
  BY <1>1, StateTyped DEF OfPolicy, evaluate_policy
<1>4. OfPolicy(p).status \notin {"failed", "observation_unavailable"}
  BY <1>1, NothingFailed
<1>5. undeclared = {}
  <2> SUFFICES ASSUME undeclared # {} PROVE FALSE
    OBVIOUS
  <2> DEFINE g == PolicyFinding(p, "failed", "undeclared_state_change", 0)
  <2>1. changed # None
    BY StateTyped
  <2>2. OfPolicy(p) = [g EXCEPT !.paths = undeclared, !.exempt = exempt,
                                !.cause = adjacent_cause(Read)]
    BY <1>3, <2>1 DEF evaluate_no_undeclared_changes
  <2>3. g \in [check : {p.type}, type : {"policy"}, status : {"failed"},
                severity : {"critical"}, term : {p}, class : {"undeclared_state_change"},
                path : {None}, paths : {{}}, causal : {0}, exempt : {{}}, cause : {None},
                warnings : {0}]
    BY PolicyFindingHas
  <2> HIDE DEF g, undeclared, exempt
  <2>4. OfPolicy(p).status = "failed"
    BY <2>2, <2>3
  <2> QED BY <1>4, <2>4
<1>6. CASE l \in outside
  <2>1. waivers(l) # {}
    BY <1>5, <1>6
  <2>2. covered(l, Range(p.allow))
    BY <2>1 DEF covered, Range
  <2> QED BY <2>2 DEF Accounted
<1>7. CASE covered(l, declared)
  BY <1>7 DEF Accounted
<1>8. CASE covered(l, effects)
  <2>1. PICK i \in EligibleStarts(Read) : \E q \in EffectMap[Read[i].tool] : overlaps(q, l)
    BY <1>8 DEF covered, ExecutedEffects
  <2>2. i \in DOMAIN Read /\ is_invocation_start(Read[i])
    BY <2>1 DEF EligibleStarts, Indices
  <2>3. PICK c \in Calls : /\ call[c].pc # "idle" /\ call[c].tool = Read[i].tool
                           /\ Read[i].tool \in Tools
    BY <2>2 DEF IInv, EventInv
  <2>4. c \in Begun
    BY <2>3, NoneAssumption DEF Begun
  <2> QED BY <2>1, <2>3, <2>4 DEF Accounted, covered
<1>9. l \in outside \/ covered(l, declared) \/ covered(l, effects)
  BY <1>2 DEF covered
<1> QED BY <1>6, <1>7, <1>8, <1>9

LEMMA SurfaceStayed ==
    ASSUME IInv, Sealed, verdict.row # "failed", NEW p \in Policy("stable_tool_surface")
    PROVE  /\ Shown # <<>>
           /\ DefaultFailingKinds \subseteq p.kinds =>
                 \A n \in DOMAIN Shown : SameTools(Shown[1], Shown[n])
<1> DEFINE failing == {i \in observed_deltas(Read) : Read[i].kind \in p.kinds}
           warned == Cardinality(observed_deltas(Read) \ failing)
<1>1. p \in contract.policies /\ p.type = "stable_tool_surface"
  BY DEF Policy
<1>2. OfPolicy(p) = evaluate_stable_tool_surface(p, Read)
  BY <1>1 DEF OfPolicy, evaluate_policy
<1>3. OfPolicy(p).status \notin {"failed", "observation_unavailable"}
  BY <1>1, NothingFailed
<1>4. baseline_recorded(Read) /\ failing = {}
  <2>1. ASSUME ~baseline_recorded(Read) PROVE FALSE
    BY <1>2, <1>3, <2>1, PolicyFindingHas DEF evaluate_stable_tool_surface, Unavailable
  <2>2. ASSUME baseline_recorded(Read), failing # {} PROVE FALSE
    <3> DEFINE g == PolicyFinding(p, "failed", "tool_surface_mutation", 0)
    <3>1. OfPolicy(p) = [g EXCEPT !.warnings = warned]
      BY <1>2, <2>2 DEF evaluate_stable_tool_surface
    <3>2. g \in [check : {p.type}, type : {"policy"}, status : {"failed"},
                  severity : {"critical"}, term : {p}, class : {"tool_surface_mutation"},
                  path : {None}, paths : {{}}, causal : {0}, exempt : {{}}, cause : {None},
                  warnings : {0}]
      BY PolicyFindingHas
    <3> HIDE DEF g, warned
    <3>3. OfPolicy(p).status = "failed"
      BY <3>1, <3>2
    <3> QED BY <1>3, <3>3
  <2> QED BY <2>1, <2>2
<1>5. Shown # <<>>
  BY <1>4 DEF baseline_recorded, IInv, EventInv
<1>6. ASSUME DefaultFailingKinds \subseteq p.kinds
      PROVE  \A n \in DOMAIN Shown : SameTools(Shown[1], Shown[n])
  BY <1>4, <1>6 DEF IInv, SurfaceInv, observed_deltas
<1> QED BY <1>5, <1>6

\* PassIsEarned: of a run that was left alone between each call's two
\* observations, for any number of calls under any contract; an observation that
\* could not be taken, a tool that lies about itself, and edits and captures between
\* the gate, the final observation and the seal are among its steps.
THEOREM PassAlwaysEarned ==
    ASSUME ~Disturbed
    PROVE  Spec => []PassIsEarned
<1>1. IInv => PassIsEarned
  BY SealedAs, OnceEach, NoMoreThanLimit, AllAccounted, SurfaceStayed DEF PassIsEarned
<1> QED BY <1>1, RecordHolds, PTL

----------------------------------------------------------------------------
\* Blame is earned

\* Two contexts that agree at and below a path give a term about it one answer.
LEMMA TermReads ==
    ASSUME NEW a, a.path \in Seq(STRING), a.op \in AssertionOperator, NEW before,
           NEW s, NEW t, Below(a.path, s) = Below(a.path, t),
           \A l \in Below(a.path, s) : s[l] = t[l]
    PROVE  evaluate_operator(a, before, s) <=> evaluate_operator(a, before, t)
<1>1. found(a.path, s) <=> found(a.path, t)
  BY DEF found
<1>2. resolve(a.path, s) = resolve(a.path, t)
  BY DEF resolve
<1>3. is_ancestor_of(a.path, a.path)
  BY DEF is_ancestor_of
<1>4. /\ IsLeaf(a.path, s) <=> IsLeaf(a.path, t)
      /\ IsLeaf(a.path, s) => s[a.path] = t[a.path]
  BY <1>3 DEF IsLeaf, Below
<1>5. CASE a.op = "equals"
  BY <1>1, <1>2, <1>5 DEF evaluate_operator, HoldsEquals
<1>6. CASE a.op = "not_equals"
  BY <1>1, <1>2, <1>6 DEF evaluate_operator, HoldsNotEquals
<1>7. CASE a.op = "exists"
  BY <1>1, <1>7 DEF evaluate_operator
<1>8. CASE a.op = "absent"
  BY <1>1, <1>8 DEF evaluate_operator
<1>9. CASE a.op = "unchanged"
  BY <1>1, <1>2, <1>9 DEF evaluate_operator, HoldsUnchanged
<1>10. CASE a.op = "changed_by"
  BY <1>4, <1>10 DEF evaluate_operator, HoldsChangedBy
<1>11. CASE a.op = "count_equals"
  BY <1>1, <1>4, <1>11 DEF evaluate_operator, HoldsCountEquals
<1> QED BY <1>5, <1>6, <1>7, <1>8, <1>9, <1>10, <1>11 DEF AssertionOperator

\* A tool that may touch something of what a term reads declares all of what the
\* term reads.  Where a part of it lies outside the tool's effects, the fragment kept
\* of a call is less than the term is about.
WholeEffects ==
    \A k \in Contracts, t \in Tools, s \in States : \A a \in k.assertions :
        covered(a.path, EffectMap[t]) =>
            \A l \in Below(a.path, s) : \E p \in EffectMap[t] : is_ancestor_of(p, l)

\* The fragment kept then answers a term as the state it is of does.
LEMMA FragmentAnswers ==
    ASSUME WholeEffects, NEW k \in Contracts, NEW a \in k.assertions, NEW t \in Tools,
           covered(a.path, EffectMap[t]), NEW s \in States, NEW before
    PROVE  evaluate_operator(a, before, effect_context(EffectMap[t], s))
              <=> evaluate_operator(a, before, s)
<1> DEFINE leaves == {l \in DOMAIN s : \E p \in EffectMap[t] : is_ancestor_of(p, l)}
           part == [leaf \in leaves |-> s[leaf]]
<1>1. s # None /\ effect_context(EffectMap[t], s) = part
  BY NoneAssumption DEF effect_context
<1>2. a.path \in Seq(STRING) /\ a.op \in AssertionOperator
  BY ContractAssumption
<1>3. ASSUME NEW l \in Below(a.path, s) PROVE l \in leaves
  BY <1>3 DEF WholeEffects, Below
<1>4. DOMAIN part = leaves /\ \A l \in leaves : part[l] = s[l]
  OBVIOUS
<1> HIDE DEF part
<1>5. Below(a.path, part) = Below(a.path, s)
  BY <1>3, <1>4 DEF Below
<1>6. \A l \in Below(a.path, part) : part[l] = s[l]
  BY <1>3, <1>4, <1>5
<1> HIDE DEF leaves
<1> QED BY <1>1, <1>2, <1>5, <1>6, TermReads

\* Behind a completed or failed call's event is a call that it ended, and that
\* really moved the Final if the event says so.
LEMMA EndedBy ==
    ASSUME IInv, ~Disturbed, NEW i \in DOMAIN Read,
           Read[i].type \in {"tool_invocation_completed", "tool_invocation_failed"}
    PROVE  \E c \in Calls :
              /\ call[c].ended = i /\ Read[i].rid = call[c].rid /\ call[c].rid \in Requests
              /\ Read[i].tool \in Tools /\ call[c].left \in States
              /\ Read[i].effect = effect_context(EffectMap[Read[i].tool], Read[i].after)
              /\ Read[i].after \in {call[c].left, None}
              /\ Moved(Read[i]) => c \in Movers
<1>1. PICK c \in Calls : call[c].pc = "done" /\ call[c].ended = i
  BY DEF IInv, EventInv
<1>2. i # 0
  BY StateTyped
<1>3. CallEnded(c)
  BY DEF IInv, CallInv
<1>4. EndsCall(Read[i], c) /\ EndsTruly(Read[i], c)
  BY <1>1, <1>2, <1>3 DEF CallEnded
<1>5. ASSUME Moved(Read[i]) PROVE c \in Movers
  <2>1. Read[i].after # None /\ Read[i].before # Read[i].after
    BY <1>5, NoneAssumption DEF Moved, changed_state
  <2> QED BY <1>4, <2>1 DEF EndsCall, EndsTruly, Movers
<1> QED BY <1>1, <1>4, <1>5 DEF EndsCall, EndsTruly

LEMMA FalselyClaimed ==
    ASSUME IInv, ~Disturbed, WholeEffects, NEW f \in AllFindings(Evidence),
           f.class = "false_success_or_state_mismatch"
    PROVE  \E c \in Calls : /\ call[c].ended = f.causal
                            /\ ~evaluate_operator(f.term, initial, call[c].left)
<1>1. "false_success_or_state_mismatch" # None
  BY NoneAssumption DEF FailureClassification
<1>2. PICK a \in contract.assertions : f = OfAssertion(a)
  <2>1. ~ \E p \in contract.policies : p.type \in PolicyType /\ f = OfPolicy(p)
    BY <1>1, PolicyFindingIs, StateTyped DEF OfPolicy, PolicyType, PolicyClass
  <2> QED BY <1>1, <2>1, FindingsAre, TrajectoryFindingIs, ExecutionFindingIs
<1> DEFINE i == last_relevant_action(a.path, Read, EffectMap)
           e == Read[i]
<1>3. f.term = a /\ f.causal = i /\ i # 0 /\ Contradicted(a, e, initial)
  BY <1>2, AssertionFindingIs DEF OfAssertion
<1>4. i \in Relevant(a.path, Read, EffectMap)
  <2>1. Relevant(a.path, Read, EffectMap) # {} /\ i = Max(Relevant(a.path, Read, EffectMap))
    BY <1>3 DEF last_relevant_action
  <2>2. /\ Relevant(a.path, Read, EffectMap) \subseteq Nat
        /\ \A j \in Relevant(a.path, Read, EffectMap) : j <= Len(Read)
    BY StateTyped DEF Relevant, Indices
  <2> QED BY <2>1, <2>2, StateTyped, MaxIs
<1> HIDE DEF i
<1>5. i \in DOMAIN Read /\ covered(a.path, EffectMap[e.tool])
  BY <1>4 DEF Relevant, Indices, covered
<1>6. /\ e.type = "tool_invocation_completed" /\ e.effect # None
      /\ ~evaluate_operator(a, initial, e.effect)
  <2>1. /\ e.type = "tool_invocation_completed"
        /\ effect_observation_mismatches(a, e, initial) = TRUE
    BY <1>3 DEF Contradicted
  <2>2. None # TRUE
    BY NoneAssumption
  <2>3. ~(e.effect = None \/ (a.op \in TRANSITION_OPERATORS /\ initial = None))
    BY <2>1, <2>2 DEF effect_observation_mismatches
  <2>4. effect_observation_mismatches(a, e, initial) = ~evaluate_operator(a, initial, e.effect)
    BY <2>3 DEF effect_observation_mismatches
  <2> QED BY <2>1, <2>3, <2>4
<1>7. PICK c \in Calls :
         /\ call[c].ended = i /\ e.tool \in Tools /\ call[c].left \in States
         /\ e.effect = effect_context(EffectMap[e.tool], e.after)
         /\ e.after \in {call[c].left, None}
  BY <1>5, <1>6, EndedBy
<1>8. e.after = call[c].left
  BY <1>6, <1>7 DEF effect_context
<1>9. ~evaluate_operator(a, initial, call[c].left)
  BY <1>2, <1>5, <1>6, <1>7, <1>8, StateTyped, FragmentAnswers
<1> QED BY <1>3, <1>7, <1>9

LEMMA MovedTwice ==
    ASSUME IInv, ~Disturbed, NEW f \in AllFindings(Evidence),
           f.class = "idempotency_violation", f.check = "idempotent_by_request_id"
    PROVE  \E rid \in Requests : Cardinality({c \in Movers : call[c].rid = rid}) > 1
<1>1. "idempotency_violation" # None
  BY NoneAssumption DEF FailureClassification
<1>2. PICK p \in contract.policies : p.type = "idempotent_by_request_id" /\ f = OfPolicy(p)
  <2>1. \A a \in contract.assertions : f # OfAssertion(a)
    BY <1>1, AssertionFindingIs DEF OfAssertion
  <2>2. PICK p \in contract.policies : p.type \in PolicyType /\ f = OfPolicy(p)
    BY <1>1, <2>1, FindingsAre, TrajectoryFindingIs, ExecutionFindingIs
  <2> QED BY <2>2, StateTyped, PolicyFindingIs DEF OfPolicy
<1> DEFINE completions == completions_for(Read, p.tool)
           repeated == {Read[i].rid : i \in {j \in completions : Read[j].rid # None /\
                           Cardinality(Under(Read, p.tool, Read[j].rid)) > 1}}
           wrong == {r \in repeated :
                        LET g == Under(Read, p.tool, r) IN
                        UnknownOf(Read, g) # {} \/ Cardinality(MovedOf(Read, g)) > 1}
           rid == Min(wrong)
           group == Under(Read, p.tool, rid)
<1>3. f = evaluate_idempotency(p, Read)
  BY <1>2 DEF OfPolicy, evaluate_policy
<1>4. wrong # {} /\ UnknownOf(Read, group) = {}
  <2>1. ASSUME NEW causal
        PROVE  /\ PolicyFinding(p, "passed", None, causal).class = None
               /\ Unavailable(p, causal).class = "observation_unavailable"
    BY PolicyFindingHas DEF Unavailable
  <2>2. \/ wrong # {} /\ UnknownOf(Read, group) = {}
        \/ f = PolicyFinding(p, "passed", None, 0)
        \/ \E causal : f = Unavailable(p, causal)
    BY <1>3 DEF evaluate_idempotency
  <2> QED BY <1>1, <2>1, <2>2
<1>5. wrong \subseteq Requests
  <2>1. \A j \in completions : Read[j].rid \in Requests \cup {None}
    <3>1. \A j \in DOMAIN Read : Read[j] \in Event
      BY StateTyped
    <3>2. \A e \in Event : e.rid \in Requests \cup {None}
      BY DEF Event
    <3> QED BY <3>1, <3>2 DEF completions_for, Indices
  <2> QED BY <2>1
<1>6. rid \in wrong /\ rid \in Requests
  <2>1. wrong \subseteq Nat
    BY <1>5, VerdictAssumption
  <2> HIDE DEF wrong
  <2> QED BY <1>4, <1>5, <2>1, MinIs
<1> HIDE DEF rid
<1>7. Cardinality(MovedOf(Read, group)) > 1
  BY <1>4, <1>6
<1>8. PICK i, j \in MovedOf(Read, group) : i # j
  <2>1. MovedOf(Read, group) \subseteq DOMAIN Read
    BY DEF MovedOf, Under, completions_for, Indices
  <2>2. IsFiniteSet(MovedOf(Read, group))
    BY <2>1, StateTyped, FS_Subset
  <2> QED BY <1>7, <2>2, TwoMembers
<1>9. ASSUME NEW n \in MovedOf(Read, group)
      PROVE  \E c \in Movers : call[c].ended = n /\ call[c].rid = rid
  <2>1. /\ n \in DOMAIN Read /\ Read[n].type = "tool_invocation_completed"
        /\ Read[n].rid = rid /\ Moved(Read[n])
    BY DEF MovedOf, Under, completions_for, Indices
  <2> QED BY <2>1, EndedBy
<1>10. PICK c, d \in Movers : c # d /\ call[c].rid = rid /\ call[d].rid = rid
  BY <1>8, <1>9
<1> DEFINE S == {x \in Movers : call[x].rid = rid}
<1>11. IsFiniteSet(S)
  BY VerdictAssumption, FS_Subset DEF Movers
<1>12. Cardinality(S) > 1
  BY <1>10, <1>11, TwoMembers
<1> QED BY <1>6, <1>12

LEMMA ReallyAdjacent ==
    ASSUME IInv, ~Disturbed, NEW f \in AllFindings(Evidence), f.type = "policy",
           f.check = "no_undeclared_changes", f.cause # None, f.cause.kind = "tool_action"
    PROVE  \E c \in Movers : call[c].ended = f.cause.sequence
<1>1. PICK p \in contract.policies : p.type = "no_undeclared_changes" /\ f = OfPolicy(p)
  <2>1. \A a \in contract.assertions : f # OfAssertion(a)
    BY AssertionFindingIs DEF OfAssertion
  <2>2. PICK p \in contract.policies : p.type \in PolicyType /\ f = OfPolicy(p)
    BY <2>1, FindingsAre, TrajectoryFindingIs, ExecutionFindingIs
  <2> QED BY <2>2, StateTyped, PolicyFindingIs DEF OfPolicy
<1> DEFINE changed == diff_states(initial, Final)
<1>2. f = evaluate_no_undeclared_changes(p, Read, EffectMap,
                                         declared_contract_paths(contract), changed)
  BY <1>1, StateTyped DEF OfPolicy, evaluate_policy
<1>3. f.cause = adjacent_cause(Read)
  <2>1. PICK paths, exempt, cause :
           /\ cause = adjacent_cause(Read)
           /\ \/ f = [PolicyFinding(p, "passed", None, 0) EXCEPT !.exempt = exempt]
              \/ f = [PolicyFinding(p, "failed", "undeclared_state_change", 0)
                        EXCEPT !.paths = paths, !.exempt = exempt, !.cause = cause]
    BY <1>2, StateTyped DEF evaluate_no_undeclared_changes
  <2>2. CASE f = [PolicyFinding(p, "passed", None, 0) EXCEPT !.exempt = exempt]
    BY <2>2, PolicyFindingHas
  <2>3. CASE f = [PolicyFinding(p, "failed", "undeclared_state_change", 0)
                    EXCEPT !.paths = paths, !.exempt = exempt, !.cause = cause]
    <3> DEFINE g == PolicyFinding(p, "failed", "undeclared_state_change", 0)
    <3>1. g \in [check : {p.type}, type : {"policy"}, status : {"failed"},
                  severity : {"critical"}, term : {p}, class : {"undeclared_state_change"},
                  path : {None}, paths : {{}}, causal : {0}, exempt : {{}}, cause : {None},
                  warnings : {0}]
      BY PolicyFindingHas
    <3>2. f = [g EXCEPT !.paths = paths, !.exempt = exempt, !.cause = cause]
      BY <2>3
    <3> HIDE DEF g
    <3> QED BY <2>1, <3>1, <3>2
  <2> QED BY <2>1, <2>2, <2>3
<1> DEFINE moved == MovedOf(Read, Indices(Read, LAMBDA e : e.type \in TerminalEvents))
           i == Max(moved)
<1>4. moved # {} /\ f.cause.sequence = i
  <2> HIDE DEF moved, i
  <2>1. CASE moved # {}
    <3>1. f.cause = ToolAction(i, Read[i])
      BY <1>3, <2>1 DEF adjacent_cause, moved, i
    <3> QED BY <2>1, <3>1 DEF ToolAction
  <2>2. CASE moved = {}
    <3> DEFINE decisions == Indices(Read, LAMBDA e :
                               e.type \in {"confirmation_approved", "confirmation_denied"})
               decided == [kind |-> "human_confirmation", tool |-> None,
                           sequence |-> Max(decisions)]
    <3>1. adjacent_cause(Read) = IF decisions # {} THEN decided ELSE NoCause
      BY <2>2 DEF adjacent_cause, moved
    <3>2. decided.kind # "tool_action" /\ NoCause.kind # "tool_action"
      BY DEF NoCause
    <3> HIDE DEF decisions, decided
    <3> QED BY <1>3, <3>1, <3>2
  <2> QED BY <2>1, <2>2
<1>5. i \in moved
  <2>1. moved \subseteq Nat /\ \A j \in moved : j <= Len(Read)
    BY StateTyped DEF MovedOf, Indices
  <2> HIDE DEF moved
  <2> QED BY <1>4, <2>1, StateTyped, MaxIs
<1>6. i \in DOMAIN Read /\ Read[i].type \in TerminalEvents /\ Moved(Read[i])
  BY <1>5 DEF MovedOf, Indices
<1> HIDE DEF i
<1>7. Read[i].type # "tool_invocation_cancelled"
  BY <1>6, NoneAssumption DEF IInv, EventInv, Moved, changed_state
<1> QED BY <1>4, <1>6, <1>7, EndedBy DEF TerminalEvents

LEMMA AlwaysConfirmed ==
    ASSUME IInv, NEW f \in AllFindings(Evidence)
    PROVE  f.class # "missing_confirmation"
<1> SUFFICES ASSUME f.class = "missing_confirmation" PROVE FALSE
  OBVIOUS
<1>1. "missing_confirmation" # None
  BY NoneAssumption DEF FailureClassification
<1>2. PICK p \in contract.policies : p.type = "requires_confirmation" /\ f = OfPolicy(p)
  <2>1. \A a \in contract.assertions : f # OfAssertion(a)
    BY <1>1, AssertionFindingIs DEF OfAssertion
  <2>2. PICK p \in contract.policies : p.type \in PolicyType /\ f = OfPolicy(p)
    BY <1>1, <2>1, FindingsAre, TrajectoryFindingIs, ExecutionFindingIs
  <2>3. f.class \in {None, "observation_unavailable", PolicyClass(p.type)}
    BY <2>2, StateTyped, PolicyFindingIs DEF OfPolicy
  <2> QED BY <1>1, <2>2, <2>3 DEF PolicyClass, PolicyType
<1>3. f = evaluate_requires_confirmation(p, Read)
  BY <1>2 DEF OfPolicy, evaluate_policy
<1>4. PolicyFinding(p, "passed", None, 0).class = None
  BY PolicyFindingHas
<1>5. PICK i \in completions_for(Read, p.tool) : ~approved_before(Read, i)
  BY <1>1, <1>3, <1>4 DEF evaluate_requires_confirmation
<1>6. /\ i \in DOMAIN Read /\ Read[i].type = "tool_invocation_completed"
      /\ Read[i].tool = p.tool
  BY DEF completions_for, Indices
<1>7. p.tool \in confirmed_tools(contract)
  BY <1>2 DEF confirmed_tools
<1> QED BY <1>5, <1>6, <1>7 DEF IInv, EventInv

\* BlameIsEarned: of a run that was left alone between each call's two observations,
\* on a Final whose tools declare whole the effects that a contract's terms read.
THEOREM BlameAlwaysEarned ==
    ASSUME ~Disturbed, WholeEffects
    PROVE  Spec => []BlameIsEarned
<1>1. IInv => BlameIsEarned
  <2> SUFFICES ASSUME IInv, Sealed, NEW f \in AllFindings(Evidence)
               PROVE  /\ f.class = "false_success_or_state_mismatch" =>
                            \E c \in Calls : /\ call[c].ended = f.causal
                                             /\ ~evaluate_operator(f.term, initial, call[c].left)
                      /\ f.class = "idempotency_violation" /\ f.check = "idempotent_by_request_id" =>
                            \E rid \in Requests : Cardinality({c \in Movers : call[c].rid = rid}) > 1
                      /\ (/\ f.type = "policy" /\ f.check = "no_undeclared_changes"
                          /\ f.cause # None /\ f.cause.kind = "tool_action") =>
                            \E c \in Movers : call[c].ended = f.cause.sequence
                      /\ f.class # "missing_confirmation"
    BY SealedAs DEF BlameIsEarned, Evidence
  <2> QED BY FalselyClaimed, MovedTwice, ReallyAdjacent, AlwaysConfirmed
<1> QED BY <1>1, RecordHolds, PTL
================================================================================
