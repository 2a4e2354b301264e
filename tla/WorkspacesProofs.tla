---------------------------- MODULE WorkspacesProofs ----------------------------
(***************************************************************************)
(* The workspace lock excludes, the creation budget bounds, a row leads to a *)
(* whole file, and no workspace keeps more artifacts than its ceiling, for   *)
(* any number of workspaces, requests, lock objects, documents and restarts. *)
(***************************************************************************)
EXTENDS Workspaces, SetTheorems

-----------------------------------------------------------------------------
\* The creation budget

\* What the argument needs of the types.
BudgetTypes ==
    /\ created \in Nat
    /\ bucket \in [tokens : 0..CREATIONS, updated_at : Nat] \cup {none}
    /\ bucket # none => bucket.updated_at <= now
    /\ now \in Nat
    /\ crashes \in Nat

\* What has been granted and what could be granted now are within the bound.
BudgetInv ==
    /\ BudgetTypes
    /\ created + refilled(bucket) <= CREATIONS * (crashes + 1) + now

\* A bucket never holds more than its capacity, and none is a full one.
LEMMA RefilledType ==
    ASSUME BudgetTypes
    PROVE  /\ refilled(bucket) \in 0..CREATIONS
           /\ bucket = none => refilled(bucket) = CREATIONS
  <1>1. CREATIONS \in Nat
    BY WorkspacesAssumption
  <1>2. CASE bucket = none
    BY <1>1, <1>2 DEF refilled
  <1>3. CASE bucket # none
    <2>1. /\ bucket.tokens \in 0..CREATIONS /\ bucket.updated_at \in Nat
          /\ bucket.updated_at <= now /\ now \in Nat
      BY <1>3 DEF BudgetTypes
    <2> QED
      BY <1>1, <1>3, <2>1 DEF refilled, least
  <1> QED
    BY <1>2, <1>3

\* A creation takes a token out of the bucket, and a refusal nothing.
LEMMA ChargedBudget ==
    ASSUME BudgetInv, NEW granted \in BOOLEAN, charged(granted),
           created' = created + (IF granted THEN 1 ELSE 0), UNCHANGED <<now, crashes>>
    PROVE  BudgetInv'
  <1> DEFINE t == refilled(bucket) - (IF granted THEN 1 ELSE 0)
  <1>1. refilled(bucket) \in 0..CREATIONS /\ CREATIONS \in Nat
    BY RefilledType, WorkspacesAssumption DEF BudgetInv
  <1>2. t \in 0..CREATIONS
    <2>1. granted => refilled(bucket) >= 1
      BY DEF charged
    <2> QED
      BY <1>1, <2>1
  <1>3. bucket' = [tokens |-> t, updated_at |-> now]
    BY DEF charged
  <1> HIDE DEF t
  <1>4. now \in Nat /\ created \in Nat /\ crashes \in Nat
    BY DEF BudgetInv, BudgetTypes
  <1>5. bucket' \in [tokens : 0..CREATIONS, updated_at : Nat]
    BY <1>2, <1>3, <1>4
  <1>6. bucket' # none /\ bucket'.tokens = t /\ bucket'.updated_at = now
    BY <1>3, <1>5, WorkspacesAssumption
  <1>7. BudgetTypes'
    BY <1>4, <1>5, <1>6 DEF BudgetTypes
  <1>8. refilled(bucket)' = t
    BY <1>1, <1>2, <1>4, <1>6 DEF refilled, least
  <1>9. created' + t = created + refilled(bucket)
    BY <1>1, <1>4 DEF t
  <1> QED
    BY <1>7, <1>8, <1>9 DEF BudgetInv

\* Forgetting a bucket that has been idle for long enough to be full changes nothing.
LEMMA IdleBudget ==
    ASSUME BudgetInv, bucket' = release_idle(bucket), UNCHANGED <<created, now, crashes>>
    PROVE  BudgetInv'
  <1>1. CASE bucket' = bucket
    BY <1>1 DEF BudgetInv, BudgetTypes, refilled
  <1>2. CASE bucket' # bucket
    <2>1. bucket' = none /\ bucket # none /\ now - bucket.updated_at > BUCKET_IDLE
      BY <1>2 DEF release_idle
    <2>2. /\ bucket.tokens \in 0..CREATIONS /\ bucket.updated_at \in Nat
          /\ now \in Nat /\ CREATIONS \in Nat /\ BUCKET_IDLE \in Nat /\ BUCKET_IDLE >= CREATIONS
      BY <2>1, WorkspacesAssumption, IdleAssumption DEF BudgetInv, BudgetTypes
    <2>3. refilled(bucket) = CREATIONS
      BY <2>1, <2>2 DEF refilled, least
    <2>4. refilled(bucket)' = CREATIONS
      BY <2>1 DEF refilled
    <2> QED
      BY <2>1, <2>3, <2>4 DEF BudgetInv, BudgetTypes
  <1> QED
    BY <1>1, <1>2

\* A tick brings back at most one token.
LEMMA TickBudget ==
    ASSUME BudgetInv, now' = now + 1, UNCHANGED <<created, bucket, crashes>>
    PROVE  BudgetInv'
  <1>1. /\ refilled(bucket) \in 0..CREATIONS /\ CREATIONS \in Nat /\ now \in Nat
        /\ created \in Nat /\ crashes \in Nat
    BY RefilledType, WorkspacesAssumption DEF BudgetInv, BudgetTypes
  <1>2. BudgetTypes'
    BY <1>1 DEF BudgetInv, BudgetTypes
  <1>3. refilled(bucket)' <= refilled(bucket) + 1 /\ refilled(bucket)' \in Int
    <2>1. CASE bucket = none
      BY <1>1, <2>1 DEF refilled
    <2>2. CASE bucket # none
      <3>1. bucket.tokens \in 0..CREATIONS /\ bucket.updated_at \in Nat
        BY <2>2 DEF BudgetInv, BudgetTypes
      <3> QED
        BY <1>1, <2>2, <3>1 DEF refilled, least
    <2> QED
      BY <2>1, <2>2
  <1>4. CREATIONS * (crashes + 1) \in Int
    BY <1>1
  <1> QED
    BY <1>1, <1>2, <1>3, <1>4 DEF BudgetInv

\* A restart gives another burst and no more.
LEMMA CrashBudget ==
    ASSUME BudgetInv, bucket' = none, crashes' = crashes + 1, UNCHANGED <<created, now>>
    PROVE  BudgetInv'
  <1>1. /\ refilled(bucket) \in 0..CREATIONS /\ CREATIONS \in Nat /\ now \in Nat
        /\ created \in Nat /\ crashes \in Nat
    BY RefilledType, WorkspacesAssumption DEF BudgetInv, BudgetTypes
  <1>2. BudgetTypes'
    BY <1>1 DEF BudgetTypes
  <1>3. refilled(bucket)' = CREATIONS
    BY DEF refilled
  <1>4. CREATIONS * (crashes + 1 + 1) = CREATIONS * (crashes + 1) + CREATIONS
    BY <1>1
  <1>5. CREATIONS * (crashes + 1) \in Int
    BY <1>1
  <1>6. created <= CREATIONS * (crashes + 1) + now
    BY <1>1, <1>5 DEF BudgetInv
  <1> QED
    BY <1>1, <1>2, <1>3, <1>4, <1>5, <1>6 DEF BudgetInv

\* What is granted stays within the budget at every step.
LEMMA BudgetInductive ==
    /\ Init => BudgetInv
    /\ BudgetInv /\ [Next]_vars => BudgetInv'
  <1>1. Init => BudgetInv
    BY WorkspacesAssumption DEF Init, BudgetInv, BudgetTypes, refilled
  <1>2. ASSUME BudgetInv, [Next]_vars PROVE BudgetInv'
    <2>1. CASE UNCHANGED <<created, bucket, now, crashes>>
      BY <1>2, <2>1 DEF BudgetInv, BudgetTypes, refilled
    <2>2. ASSUME NEW r \in Requests, NEW i \in Ids, resolve_new(r, i) PROVE BudgetInv'
      BY <1>2, <2>2, ChargedBudget DEF resolve_new
    <2>3. ASSUME NEW r \in Requests, resolve_refused(r) PROVE BudgetInv'
      <3>1. created' = created + 0 /\ created \in Nat
        BY <1>2, <2>3 DEF resolve_refused, tables, BudgetInv, BudgetTypes
      <3> QED
        BY <1>2, <2>3, <3>1, ChargedBudget DEF resolve_refused
    <2>4. CASE on_sweep
      BY <1>2, <2>4, IdleBudget DEF on_sweep, tables
    <2>5. CASE Tick
      BY <1>2, <2>5, TickBudget DEF Tick, tables
    <2>6. CASE Crash
      BY <1>2, <2>6, CrashBudget DEF Crash, tables
    <2>7. ASSUME NEW r \in Requests, NEW i \in Ids,
                 \/ resolve_known(r, i) \/ create_eval_workspace(r, i)
                 \/ ensure_observed_workspace(r, i)
          PROVE  UNCHANGED <<created, bucket, now, crashes>>
      BY <2>7 DEF resolve_known, create_eval_workspace, ensure_observed_workspace, rest
    <2>8. ASSUME NEW r \in Requests,
                 \/ wait(r) \/ acquire(r) \/ give_up(r) \/ assert_authorization(r) \/ cancel(r)
                 \/ \E d \in Docs : begin_report(r, d) \/ begin_import(r, d)
                 \/ replace(r) \/ complete_audit(r) \/ record_import(r)
                 \/ stored_reference(r) \/ verified_document(r)
          PROVE  UNCHANGED <<created, bucket, now, crashes>>
      BY <2>8 DEF wait, acquire, give_up, assert_authorization, cancel, begin_report,
                  begin_import, replace, complete_audit, record_import, stored_reference,
                  verified_document, rest, tables
    <2>9. ASSUME sweep \/ \E p \in Paths, removed \in BOOLEAN : unlink(p, removed)
          PROVE  UNCHANGED <<created, bucket, now, crashes>>
      BY <2>9 DEF sweep, unlink, tables
    <2>10. CASE UNCHANGED vars
      BY <2>1, <2>10 DEF vars
    <2> QED
      BY <1>2, <2>1, <2>2, <2>3, <2>4, <2>5, <2>6, <2>7, <2>8, <2>9, <2>10
         DEF Next, Handle, Clean
  <1> QED
    BY <1>1, <1>2

\* A client is granted no more workspaces than a burst, one a tick, and a burst a
\* restart: dropping its idle bucket is no way around the budget, whatever the capacity.
THEOREM CreationsStayBounded == Spec => []CreationsBounded
  <1>1. BudgetInv => CreationsBounded
    <2> SUFFICES ASSUME BudgetInv PROVE CreationsBounded
      OBVIOUS
    <2>1. /\ refilled(bucket) \in 0..CREATIONS /\ CREATIONS \in Nat /\ now \in Nat
          /\ created \in Nat /\ crashes \in Nat
      BY RefilledType, WorkspacesAssumption DEF BudgetInv, BudgetTypes
    <2>2. CREATIONS * (crashes + 1) \in Int
      BY <2>1
    <2> QED
      BY <2>1, <2>2 DEF BudgetInv, CreationsBounded
  <1> QED
    BY <1>1, BudgetInductive, PTL DEF Spec

-----------------------------------------------------------------------------
\* The workspace lock

\* The states of a request that counts among the users of its workspace's lock.
Refers == {"waiting", "holding", "partial", "written"}

Inside == {"holding", "partial", "written"}

\* The requests counted for a workspace.
refs(i) == {r \in Requests : request[r].at \in Refers /\ request[r].workspace = i}

LockTypes ==
    /\ request \in [Requests -> RequestRecord]
    /\ audits \in [Ids -> AuditRecord]
    /\ locks \in [Ids -> LockObjects \cup {none}]
    /\ users \in [Ids -> Nat]
    /\ \A r \in Requests :
         /\ request[r].at # "idle" => request[r].workspace \in Ids
         /\ request[r].at \in {"partial", "written", "reading"} => request[r].path \in Paths

\* Who refers to a lock refers to the one the table holds.
SameLock ==
    \A r \in Requests : request[r].at \in Refers =>
        /\ locks[request[r].workspace] # none
        /\ request[r].lock = locks[request[r].workspace]

Counted == \A i \in Ids : users[i] = Cardinality(refs(i))

Exclusive ==
    \A r, s \in Requests :
        (request[r].at \in Inside /\ request[s].at \in Inside
            /\ request[r].workspace = request[s].workspace) => r = s

LockInv == LockTypes /\ SameLock /\ Counted /\ Exclusive

\* The requests counted for a workspace are finitely many.
LEMMA RefsFinite == \A i : IsFiniteSet(refs(i))
  <1> TAKE i
  <1>1. refs(i) \in SUBSET Requests
    BY DEF refs
  <1> QED
    BY <1>1, FS_Subset, WorkspacesAssumption

\* A step of a request that neither takes nor drops its reference.
LEMMA MoveStep ==
    ASSUME LockInv, NEW r \in Requests, NEW p \in RequestRecord,
           request' = [request EXCEPT ![r] = p], UNCHANGED <<locks, users>>,
           audits' \in [Ids -> AuditRecord],
           p.at # "idle" => p.workspace \in Ids,
           p.at \in {"partial", "written", "reading"} => p.path \in Paths,
           p.at \in Refers <=> request[r].at \in Refers,
           p.at \in Refers => p.workspace = request[r].workspace /\ p.lock = request[r].lock,
           p.at \in Inside =>
              \/ request[r].at \in Inside
              \/ \A s \in Requests : request[s].at \in Inside =>
                                          request[s].workspace # request[r].workspace
    PROVE  LockInv'
  <1> USE DEF LockInv
  <1>1. /\ request \in [Requests -> RequestRecord] /\ request'[r] = p
        /\ \A s \in Requests : s # r => request'[s] = request[s]
    BY DEF LockTypes
  <1>2. LockTypes'
    BY <1>1 DEF LockTypes
  <1>3. SameLock'
    BY <1>1 DEF SameLock
  <1>4. Counted'
    <2>1. \A i \in Ids : refs(i)' = refs(i)
      BY <1>1 DEF refs
    <2> QED
      BY <2>1 DEF Counted
  <1>5. Exclusive'
    BY <1>1 DEF Exclusive, Inside, Refers
  <1> QED
    BY <1>2, <1>3, <1>4, <1>5

\* Dropping a reference: the entry goes only when nobody else counts on it.
LEMMA LeaveStep ==
    ASSUME LockInv, NEW r \in Requests, request[r].at \in Refers, leave(r),
           audits' \in [Ids -> AuditRecord]
    PROVE  LockInv'
  <1> USE DEF LockInv
  <1>1. PICK i \in Ids : i = request[r].workspace
    BY DEF LockTypes, Refers
  <1>2. /\ request \in [Requests -> RequestRecord] /\ request'[r] = Idle
        /\ \A s \in Requests : s # r => request'[s] = request[s]
    BY DEF LockTypes, leave
  <1>3. Idle \in RequestRecord /\ Idle.at = "idle"
    BY DEF Idle, RequestRecord
  <1>4. /\ users[i] = Cardinality(refs(i)) /\ users[i] \in Nat /\ users \in [Ids -> Nat]
        /\ locks \in [Ids -> LockObjects \cup {none}]
    BY <1>1 DEF Counted, LockTypes
  <1>5. refs(i)' = refs(i) \ {r} /\ r \in refs(i)
    BY <1>1, <1>2, <1>3 DEF refs, Refers
  <1>6. IsFiniteSet(refs(i)) /\ Cardinality(refs(i)') = users[i] - 1
    BY <1>4, <1>5, RefsFinite, FS_RemoveElement
  <1>7. users[i] # 0
    BY <1>4, <1>5, <1>6, FS_EmptySet
  <1>8. \A j \in Ids : j # i => refs(j)' = refs(j)
    BY <1>1, <1>2, <1>3 DEF refs, Refers
  <1>9. /\ users' = [users EXCEPT ![i] = users[i] - 1]
        /\ \/ locks' = locks
           \/ users[i] = 1 /\ locks' = [locks EXCEPT ![i] = none]
    BY <1>1, <1>4, <1>7 DEF leave, release_reference
  <1>10. LockTypes'
    <2>1. users[i] - 1 \in Nat
      BY <1>4, <1>7
    <2>2. users' \in [Ids -> Nat] /\ locks' \in [Ids -> LockObjects \cup {none}]
      BY <1>4, <1>9, <2>1
    <2>3. request' \in [Requests -> RequestRecord]
      BY <1>2, <1>3 DEF leave
    <2> QED
      BY <1>2, <1>3, <2>2, <2>3 DEF LockTypes
  <1>11. SameLock'
    <2>1. SUFFICES ASSUME NEW s \in Requests, request'[s].at \in Refers
                   PROVE  /\ locks'[request'[s].workspace] # none
                          /\ request'[s].lock = locks'[request'[s].workspace]
      BY DEF SameLock
    <2>2. s # r /\ request'[s] = request[s]
      BY <1>2, <1>3, <2>1 DEF Refers
    <2>3. request[s].workspace \in Ids
      BY <2>1, <2>2 DEF LockTypes, Refers
    <2>4. CASE locks' = locks
      BY <2>1, <2>2, <2>4 DEF SameLock
    <2>5. CASE users[i] = 1 /\ locks' = [locks EXCEPT ![i] = none]
      <3>1. refs(i)' = {}
        BY <1>5, <1>6, <2>5, RefsFinite, FS_EmptySet, FS_RemoveElement
      <3>2. request[s].workspace # i
        BY <2>1, <2>2, <3>1 DEF refs
      <3> QED
        BY <1>4, <2>1, <2>2, <2>3, <2>5, <3>2 DEF SameLock
    <2> QED
      BY <1>9, <2>4, <2>5
  <1>12. Counted'
    BY <1>1, <1>4, <1>6, <1>8, <1>9 DEF Counted
  <1>13. Exclusive'
    BY <1>2, <1>3 DEF Exclusive, Inside
  <1> QED
    BY <1>10, <1>11, <1>12, <1>13

\* Taking a reference: the newcomer is given the object the others refer to, and a new
\* one only when there are none.
LEMMA WaitStep ==
    ASSUME LockInv, NEW r \in Requests, wait(r)
    PROVE  LockInv'
  <1> USE DEF LockInv
  <1>0. PICK i \in Ids : i = request[r].workspace
    BY DEF wait, LockTypes
  <1>1. PICK o \in LockObjects :
            /\ acquire_reference(r, o)
            /\ request' = [request EXCEPT ![r].at = "waiting", ![r].lock = o]
    BY DEF wait
  <1>2. /\ request[r].at = "resolved" /\ UNCHANGED audits
        /\ request[r] \in RequestRecord /\ request \in [Requests -> RequestRecord]
        /\ users \in [Ids -> Nat] /\ locks \in [Ids -> LockObjects \cup {none}]
    BY DEF wait, LockTypes, tables
  <1> DEFINE p == [request[r] EXCEPT !.at = "waiting", !.lock = o]
  <1>3. p \in RequestRecord /\ p.at = "waiting" /\ p.lock = o /\ p.workspace = i
    BY <1>0, <1>2 DEF RequestRecord
  <1>4. request' = [request EXCEPT ![r] = p]
    BY <1>1, <1>2
  <1> HIDE DEF p
  <1>5. request'[r] = p /\ \A s \in Requests : s # r => request'[s] = request[s]
    BY <1>2, <1>4
  <1>6. /\ locks' = [locks EXCEPT ![i] = o] /\ users' = [users EXCEPT ![i] = users[i] + 1]
        /\ locks[i] # none => o = locks[i]
    BY <1>0, <1>1 DEF acquire_reference
  <1>7. o # none
    BY WorkspacesAssumption
  <1>8. refs(i)' = refs(i) \cup {r} /\ r \notin refs(i)
    BY <1>2, <1>3, <1>5 DEF refs, Refers
  <1>9. Cardinality(refs(i)') = users[i] + 1
    <2>1. users[i] = Cardinality(refs(i))
      BY <1>2 DEF Counted
    <2> QED
      BY <1>8, <2>1, RefsFinite, FS_AddElement
  <1>10. \A j \in Ids : j # i => refs(j)' = refs(j)
    BY <1>2, <1>3, <1>5 DEF refs, Refers
  <1>11. LockTypes'
    <2>1. users[i] + 1 \in Nat
      BY <1>2
    <2>2. users' \in [Ids -> Nat] /\ locks' \in [Ids -> LockObjects \cup {none}]
      BY <1>2, <1>6, <2>1
    <2>3. request' \in [Requests -> RequestRecord]
      BY <1>2, <1>3, <1>4
    <2> QED
      BY <1>2, <1>3, <1>5, <2>2, <2>3 DEF LockTypes
  <1>12. SameLock'
    <2>1. SUFFICES ASSUME NEW s \in Requests, request'[s].at \in Refers
                   PROVE  /\ locks'[request'[s].workspace] # none
                          /\ request'[s].lock = locks'[request'[s].workspace]
      BY DEF SameLock
    <2>2. CASE s = r
      BY <1>2, <1>3, <1>5, <1>6, <1>7, <2>2
    <2>3. CASE s # r
      <3>1. /\ request'[s] = request[s] /\ request[s].workspace \in Ids
            /\ locks[request[s].workspace] # none
            /\ request[s].lock = locks[request[s].workspace]
        BY <1>5, <2>1, <2>3 DEF SameLock, LockTypes, Refers
      <3> QED
        BY <1>2, <1>6, <3>1
    <2> QED
      BY <2>2, <2>3
  <1>13. Counted'
    BY <1>2, <1>6, <1>9, <1>10 DEF Counted
  <1>14. Exclusive'
    BY <1>3, <1>5 DEF Exclusive, Inside
  <1> QED
    BY <1>11, <1>12, <1>13, <1>14

\* A request begins, ends or looks a report up without the lock.
LEMMA OutsideStep ==
    ASSUME LockInv, NEW r \in Requests,
           \/ \E i \in Ids : \/ resolve_known(r, i) \/ resolve_new(r, i)
                             \/ create_eval_workspace(r, i)
           \/ stored_reference(r) \/ verified_document(r)
    PROVE  LockInv'
  <1>0. /\ request \in [Requests -> RequestRecord] /\ request[r] \in RequestRecord
        /\ audits \in [Ids -> AuditRecord]
    BY DEF LockInv, LockTypes
  <1>1. audits' \in [Ids -> AuditRecord] /\ UNCHANGED <<locks, users>>
    BY <1>0 DEF resolve_known, resolve_new, create_eval_workspace, stored_reference,
                verified_document, tables, memory
  <1>2. ASSUME NEW i \in Ids, resolve_known(r, i) \/ resolve_new(r, i) PROVE LockInv'
    <2> DEFINE p == [Idle EXCEPT !.at = "resolved", !.workspace = i]
    <2>1. p \in RequestRecord /\ p.at = "resolved" /\ p.workspace = i
      BY DEF Idle, RequestRecord
    <2>2. request[r].at = "idle" /\ request' = [request EXCEPT ![r] = p]
      BY <1>2 DEF resolve_known, resolve_new
    <2> HIDE DEF p
    <2> QED
      BY <1>1, <2>1, <2>2, MoveStep DEF Refers, Inside
  <1>3. ASSUME \/ \E i \in Ids : create_eval_workspace(r, i)
               \/ verified_document(r)
        PROVE  LockInv'
    <2>1. Idle \in RequestRecord /\ Idle.at = "idle"
      BY DEF Idle, RequestRecord
    <2>2. request[r].at \in {"resolved", "reading"} /\ request' = [request EXCEPT ![r] = Idle]
      BY <1>3 DEF create_eval_workspace, verified_document
    <2> QED
      BY <1>1, <2>1, <2>2, MoveStep DEF Refers, Inside
  <1>4. ASSUME stored_reference(r) PROVE LockInv'
    <2>1. PICK w \in Ids : w = request[r].workspace
      BY <1>4 DEF LockInv, LockTypes, stored_reference
    <2> DEFINE p == [request[r] EXCEPT !.at = "reading", !.path = audits[w].report]
    <2>2. audits[w].report \in Paths
      BY <1>0, <1>4, <2>1 DEF stored_reference, AuditRecord
    <2>3. p \in RequestRecord /\ p.at = "reading" /\ p.path \in Paths /\ p.workspace \in Ids
      BY <1>0, <2>1, <2>2 DEF RequestRecord
    <2>4. request[r].at = "resolved" /\ request' = [request EXCEPT ![r] = p]
      BY <1>0, <1>4, <2>1 DEF stored_reference
    <2> HIDE DEF p
    <2> QED
      BY <1>1, <2>3, <2>4, MoveStep DEF Refers, Inside
  <1> QED
    BY <1>2, <1>3, <1>4

\* The lock is acquired by one who finds it free, and kept while a file is written.
LEMMA InsideStep ==
    ASSUME LockInv, NEW r \in Requests,
           \/ acquire(r) \/ replace(r)
           \/ \E d \in Docs : begin_report(r, d) \/ begin_import(r, d)
    PROVE  LockInv'
  <1>0. /\ request \in [Requests -> RequestRecord] /\ request[r] \in RequestRecord
        /\ audits \in [Ids -> AuditRecord]
    BY DEF LockInv, LockTypes
  <1>1. audits' \in [Ids -> AuditRecord] /\ UNCHANGED <<locks, users>>
    BY <1>0 DEF acquire, replace, begin_report, begin_import, tables, memory
  <1>2. PICK w \in Ids : w = request[r].workspace
    BY DEF LockInv, LockTypes, acquire, replace, begin_report, begin_import
  <1>3. ASSUME acquire(r) PROVE LockInv'
    <2> DEFINE p == [request[r] EXCEPT !.at = "holding"]
    <2>1. p \in RequestRecord /\ p.at = "holding" /\ p.workspace = w /\ p.lock = request[r].lock
      BY <1>0, <1>2 DEF RequestRecord
    <2>2. request[r].at = "waiting" /\ request' = [request EXCEPT ![r] = p]
      BY <1>0, <1>3 DEF acquire
    <2> HIDE DEF p
    <2>3. \A s \in Requests : request[s].at \in Inside => request[s].workspace # w
      <3> SUFFICES ASSUME NEW s \in Requests, request[s].at \in Inside, request[s].workspace = w
                   PROVE  FALSE
        OBVIOUS
      <3>1. request[s].lock = locks[w] /\ request[r].lock = locks[w]
        BY <1>2, <2>2 DEF LockInv, SameLock, Refers, Inside
      <3> QED
        BY <1>3, <3>1 DEF acquire, locked, inside, Inside
    <2> QED
      BY <1>1, <1>2, <2>1, <2>2, <2>3, MoveStep DEF Refers, Inside
  <1>4. ASSUME NEW d \in Docs, begin_report(r, d) \/ begin_import(r, d) PROVE LockInv'
    <2>1. PICK n \in 0..MaxAudits :
              request' = [request EXCEPT ![r].at = "partial", ![r].path = <<w, n, d>>]
      <3>1. audits[w].count \in 0..MaxAudits /\ 0 \in 0..MaxAudits
        BY <1>0, <1>2, WorkspacesAssumption DEF AuditRecord
      <3> QED
        BY <1>2, <1>4, <3>1 DEF begin_report, begin_import
    <2> DEFINE p == [request[r] EXCEPT !.at = "partial", !.path = <<w, n, d>>]
    <2>2. <<w, n, d>> \in Paths
      BY DEF Paths
    <2>3. /\ p \in RequestRecord /\ p.at = "partial" /\ p.workspace = w
          /\ p.lock = request[r].lock /\ p.path \in Paths
      BY <1>0, <1>2, <2>2 DEF RequestRecord
    <2>4. request[r].at = "holding" /\ request' = [request EXCEPT ![r] = p]
      BY <1>0, <1>4, <2>1 DEF begin_report, begin_import
    <2> HIDE DEF p
    <2> QED
      BY <1>1, <1>2, <2>3, <2>4, MoveStep DEF Refers, Inside
  <1>5. ASSUME replace(r) PROVE LockInv'
    <2> DEFINE p == [request[r] EXCEPT !.at = "written"]
    <2>1. request[r].path \in Paths
      BY <1>5 DEF LockInv, LockTypes, replace
    <2>2. /\ p \in RequestRecord /\ p.at = "written" /\ p.workspace = w
          /\ p.lock = request[r].lock /\ p.path \in Paths
      BY <1>0, <1>2, <2>1 DEF RequestRecord
    <2>3. request[r].at = "partial" /\ request' = [request EXCEPT ![r] = p]
      BY <1>0, <1>5 DEF replace
    <2> HIDE DEF p
    <2> QED
      BY <1>1, <1>2, <2>2, <2>3, MoveStep DEF Refers, Inside
  <1> QED
    BY <1>3, <1>4, <1>5

\* Every way out of the lock drops the reference.
LEMMA OutStep ==
    ASSUME LockInv, NEW r \in Requests,
           \/ give_up(r) \/ assert_authorization(r) \/ cancel(r) \/ complete_audit(r)
           \/ record_import(r)
           \/ \E i \in Ids : ensure_observed_workspace(r, i)
    PROVE  LockInv'
  <1>0. audits \in [Ids -> AuditRecord]
    BY DEF LockInv, LockTypes
  <1>1. leave(r) /\ request[r].at \in Refers
    BY DEF give_up, assert_authorization, cancel, complete_audit, record_import, record,
           ensure_observed_workspace, Refers
  <1>2. PICK w \in Ids : w = request[r].workspace
    BY <1>1 DEF LockInv, LockTypes, Refers
  <1>3. CASE UNCHANGED audits
    BY <1>0, <1>1, <1>3, LeaveStep
  <1>4. CASE assert_authorization(r)
    <2>1. audits[w].count + 1 \in 0..MaxAudits
      BY <1>0, <1>2, <1>4, WorkspacesAssumption DEF assert_authorization, AuditRecord
    <2>2. audits' = [audits EXCEPT ![w] = [audits[w] EXCEPT !.count = audits[w].count + 1,
                                                           !.live = TRUE]]
      BY <1>0, <1>2, <1>4 DEF assert_authorization
    <2>3. [audits[w] EXCEPT !.count = audits[w].count + 1, !.live = TRUE] \in AuditRecord
      BY <1>0, <2>1 DEF AuditRecord
    <2> QED
      BY <1>0, <1>1, <2>2, <2>3, LeaveStep
  <1>5. CASE cancel(r)
    <2>1. audits' = [audits EXCEPT ![w] = [audits[w] EXCEPT !.live = FALSE]]
      BY <1>0, <1>2, <1>5 DEF cancel
    <2>2. [audits[w] EXCEPT !.live = FALSE] \in AuditRecord
      BY <1>0 DEF AuditRecord
    <2> QED
      BY <1>0, <1>1, <2>1, <2>2, LeaveStep
  <1>6. CASE complete_audit(r)
    <2>1. request[r].path \in Paths
      BY <1>6 DEF LockInv, LockTypes, complete_audit
    <2>2. audits' = [audits EXCEPT ![w] = [audits[w] EXCEPT !.live = FALSE,
                                                           !.report = request[r].path]]
      BY <1>0, <1>2, <1>6 DEF complete_audit
    <2>3. [audits[w] EXCEPT !.live = FALSE, !.report = request[r].path] \in AuditRecord
      BY <1>0, <2>1 DEF AuditRecord
    <2> QED
      BY <1>0, <1>1, <2>2, <2>3, LeaveStep
  <1> QED
    BY <1>3, <1>4, <1>5, <1>6 DEF give_up, record_import, ensure_observed_workspace, tables

\* The sweep, the clock and a restart.
LEMMA AroundStep ==
    ASSUME LockInv, Clean \/ Tick \/ Crash \/ UNCHANGED vars \/ \E r \in Requests : resolve_refused(r)
    PROVE  LockInv'
  <1>0. audits \in [Ids -> AuditRecord]
    BY DEF LockInv, LockTypes
  <1>1. ASSUME UNCHANGED <<request, locks, users>>, audits' \in [Ids -> AuditRecord]
        PROVE  LockInv'
    <2>1. \A i \in Ids : refs(i)' = refs(i)
      BY <1>1 DEF refs
    <2> QED
      BY <1>1, <2>1 DEF LockInv, LockTypes, SameLock, Counted, Exclusive
  <1>2. CASE sweep
    <2>1. NoAudit \in AuditRecord
      BY WorkspacesAssumption DEF NoAudit, AuditRecord
    <2> QED
      BY <1>0, <1>1, <1>2, <2>1 DEF sweep, memory
  <1>3. CASE \/ \E p \in Paths, removed \in BOOLEAN : unlink(p, removed)
             \/ on_sweep \/ Tick \/ UNCHANGED vars
             \/ \E r \in Requests : resolve_refused(r)
    BY <1>0, <1>1, <1>3 DEF unlink, on_sweep, Tick, vars, resolve_refused, memory, tables
  <1>4. CASE Crash
    <2>1. Idle \in RequestRecord /\ Idle.at = "idle"
      BY DEF Idle, RequestRecord
    <2>2. /\ request' = [r \in Requests |-> Idle] /\ locks' = [i \in Ids |-> none]
          /\ users' = [i \in Ids |-> 0] /\ UNCHANGED audits
      BY <1>4 DEF Crash, tables
    <2>3. \A i \in Ids : refs(i)' = {}
      BY <2>1, <2>2 DEF refs, Refers
    <2>4. Counted'
      BY <2>2, <2>3, FS_EmptySet DEF Counted
    <2> QED
      BY <1>0, <2>1, <2>2, <2>4 DEF LockInv, LockTypes, SameLock, Exclusive, Refers, Inside
  <1> QED
    BY <1>2, <1>3, <1>4 DEF Clean

\* The invariant is inductive.
LEMMA LockInductive ==
    /\ Init => LockInv
    /\ LockInv /\ [Next]_vars => LockInv'
  <1>1. Init => LockInv
    <2> SUFFICES ASSUME Init PROVE LockInv
      OBVIOUS
    <2>1. Idle \in RequestRecord /\ Idle.at = "idle" /\ NoAudit \in AuditRecord
      BY WorkspacesAssumption DEF Idle, RequestRecord, NoAudit, AuditRecord
    <2>2. \A i \in Ids : refs(i) = {}
      BY <2>1 DEF Init, refs, Refers
    <2>3. Counted
      BY <2>2, FS_EmptySet DEF Init, Counted
    <2> QED
      BY <2>1, <2>3 DEF Init, LockInv, LockTypes, SameLock, Exclusive, Refers, Inside
  <1>2. ASSUME LockInv, [Next]_vars PROVE LockInv'
    BY <1>2, OutsideStep, InsideStep, OutStep, WaitStep, AroundStep DEF Next, Handle
  <1> QED
    BY <1>1, <1>2

\* One request at a time is inside a workspace's lock, for any number of requests and
\* lock objects, though the object is dropped with its last user, waits time out at any
\* moment, and the process restarts.
THEOREM LockExcludes == Spec => []OneHolder
  <1>1. LockInv => OneHolder
    BY DEF LockInv, Exclusive, OneHolder, inside, Inside
  <1> QED
    BY <1>1, LockInductive, PTL DEF Spec

-----------------------------------------------------------------------------
\* The artifact files

KeptTypes ==
    /\ workspaces \in [Ids -> WorkspaceRow \cup {none}]
    /\ rows \in [Paths -> Nat]
    /\ files \in [Paths -> {"none", "torn", "whole"}]
    /\ sweeper \in (SUBSET Paths) \cup {none}
    /\ now \in Nat

busy(r) == request[r].at # "idle"

\* A workspace that exists was drawn, and one a request is under way for was seen
\* within the time a workspace may be idle, so no sweep removes it for its age.
Fresh ==
    /\ \A i \in Ids : exists(i) => i \in issued
    /\ \A r \in Requests :
         (busy(r) /\ exists(request[r].workspace)) =>
             now <= workspaces[request[r].workspace].seen + TTL

\* Rows and paths are of a workspace that exists, reports and requests of their own.
Owned ==
    /\ \A p \in Paths : rows[p] > 0 => exists(p[1])
    /\ \A i \in Ids : audits[i].report # none => audits[i].report[1] = i
    /\ \A r \in Requests :
         request[r].at \in {"partial", "written", "reading"} =>
             request[r].path[1] = request[r].workspace

\* What the sweep has yet to unlink is of a workspace that is gone for good, and that
\* no request is under way for.
Swept ==
    sweeper # none =>
        \A p \in sweeper :
            /\ p[1] \in issued
            /\ ~ exists(p[1])
            /\ \A r \in Requests : busy(r) => request[r].workspace # p[1]

\* A file between its replacement and its row is whole.
Replaced ==
    \A r \in Requests : request[r].at = "written" => files[request[r].path] = "whole"

SealedInv == KeptTypes /\ Fresh /\ Owned /\ Swept /\ Replaced /\ SealedReadable

\* A request goes on with its workspace, or ends: the files it replaces are whole, and
\* it adds a row only where one is.
LEMMA RequestStep ==
    ASSUME LockInv, SealedInv, NEW r \in Requests, NEW q \in RequestRecord,
           request' = [request EXCEPT ![r] = q],
           UNCHANGED <<workspaces, issued, sweeper, now>>,
           q.at # "idle" => busy(r) /\ q.workspace = request[r].workspace,
           q.at \in {"partial", "written", "reading"} => q.path[1] = q.workspace,
           q.at \in {"written", "reading"} => files'[q.path] = "whole",
           files' \in [Paths -> {"none", "torn", "whole"}],
           \A p \in Paths : files'[p] = files[p] \/ files'[p] = "whole",
           rows' \in [Paths -> Nat],
           \A p \in Paths : \/ rows'[p] = rows[p]
                            \/ rows'[p] > rows[p] /\ exists(p[1]) /\ files'[p] = "whole",
           audits' \in [Ids -> AuditRecord],
           \A i \in Ids : \/ audits'[i].report = audits[i].report
                          \/ audits'[i].report[1] = i /\ rows'[audits'[i].report] > 0
    PROVE  SealedInv'
  <1> USE DEF SealedInv
  <1>1. /\ request \in [Requests -> RequestRecord] /\ request'[r] = q
        /\ \A s \in Requests : s # r => request'[s] = request[s]
        /\ rows \in [Paths -> Nat] /\ files \in [Paths -> {"none", "torn", "whole"}]
        /\ audits \in [Ids -> AuditRecord]
    BY DEF LockInv, LockTypes, KeptTypes
  <1>2. KeptTypes'
    BY DEF KeptTypes
  <1>3. Fresh'
    BY <1>1 DEF Fresh, busy, exists
  <1>4. Owned'
    <2>1. \A p \in Paths : rows'[p] > 0 => exists(p[1])'
      BY <1>1 DEF Owned, exists
    <2>2. \A i \in Ids : audits'[i].report # none => audits'[i].report[1] = i
      BY DEF Owned
    <2>3. \A s \in Requests : request'[s].at \in {"partial", "written", "reading"} =>
             request'[s].path[1] = request'[s].workspace
      BY <1>1 DEF Owned
    <2> QED
      BY <2>1, <2>2, <2>3 DEF Owned
  <1>5. Swept'
    BY <1>1 DEF Swept, busy, exists
  <1>6. Replaced'
    <2> SUFFICES ASSUME NEW s \in Requests, request'[s].at = "written"
                 PROVE  files'[request'[s].path] = "whole"
      BY DEF Replaced
    <2>1. CASE s = r
      BY <1>1, <2>1
    <2>2. CASE s # r
      BY <1>1, <2>2 DEF Replaced, LockInv, LockTypes
    <2> QED
      BY <2>1, <2>2
  <1>7. SealedReadable'
    <2>1. ASSUME NEW p \in Paths, rows'[p] > 0 PROVE files'[p] = "whole"
      BY <1>1, <2>1 DEF SealedReadable
    <2>2. ASSUME NEW i \in Ids, audits'[i].report # none PROVE rows'[audits'[i].report] > 0
      <3>1. CASE audits'[i].report = audits[i].report
        <4>1. audits[i].report \in Paths /\ rows[audits[i].report] > 0
          BY <1>1, <2>2, <3>1 DEF SealedReadable, AuditRecord
        <4>2. PICK p \in Paths : p = audits[i].report
          BY <4>1
        <4>3. rows[p] \in Nat /\ rows'[p] \in Nat /\ rows[p] > 0
          BY <1>1, <4>1, <4>2
        <4>4. rows'[p] = rows[p] \/ rows'[p] > rows[p]
          OBVIOUS
        <4> QED
          BY <3>1, <4>2, <4>3, <4>4
      <3> QED
        BY <3>1
    <2>3. ASSUME NEW s \in Requests, request'[s].at = "reading"
          PROVE  files'[request'[s].path] = "whole"
      <3>1. CASE s = r
        BY <1>1, <2>3, <3>1
      <3>2. CASE s # r
        BY <1>1, <2>3, <3>2 DEF SealedReadable, LockInv, LockTypes
      <3> QED
        BY <3>1, <3>2
    <2> QED
      BY <2>1, <2>2, <2>3 DEF SealedReadable
  <1> QED
    BY <1>2, <1>3, <1>4, <1>5, <1>6, <1>7

\* A workspace is seen or drawn: no row goes, and the request that is now under way for
\* it saw it just now.
LEMMA TableStep ==
    ASSUME LockInv, SealedInv, NEW r \in Requests, NEW q \in RequestRecord,
           request' = [request EXCEPT ![r] = q],
           UNCHANGED <<audits, rows, files, sweeper, now>>,
           workspaces' \in [Ids -> WorkspaceRow \cup {none}],
           issued \subseteq issued',
           \A i \in Ids : exists(i) =>
               workspaces'[i] # none /\ workspaces'[i].seen \in {workspaces[i].seen, now},
           \A i \in Ids : (~ exists(i) /\ workspaces'[i] # none) =>
               i \notin issued /\ i \in issued' /\ workspaces'[i].seen = now,
           q.at \in {"idle", "resolved"},
           q.at # "idle" => /\ q.workspace \in Ids /\ workspaces'[q.workspace] # none
                            /\ workspaces'[q.workspace].seen = now
    PROVE  SealedInv'
  <1> USE DEF SealedInv
  <1>1. /\ request \in [Requests -> RequestRecord] /\ request'[r] = q
        /\ \A s \in Requests : s # r => request'[s] = request[s]
        /\ now \in Nat /\ TTL \in Nat
        /\ \A s \in Requests : busy(s) => request[s].workspace \in Ids
    BY WorkspacesAssumption DEF LockInv, LockTypes, KeptTypes, busy
  <1>2. KeptTypes'
    BY DEF KeptTypes
  <1>3. Fresh'
    <2>1. \A i \in Ids : exists(i)' => i \in issued'
      BY DEF Fresh, exists
    <2>2. ASSUME NEW s \in Requests, busy(s)', exists(request[s].workspace)'
          PROVE  now' <= workspaces'[request'[s].workspace].seen + TTL
      <3>1. CASE s = r
        BY <1>1, <2>2, <3>1 DEF busy
      <3>2. CASE s # r
        <4>1. PICK i \in Ids : i = request[s].workspace /\ i = request'[s].workspace
          BY <1>1, <2>2, <3>2 DEF busy
        <4>2. workspaces'[i] # none
          BY <2>2, <4>1 DEF exists
        <4>3. CASE workspaces'[i].seen = now
          BY <1>1, <4>1, <4>3
        <4>4. CASE exists(i) /\ workspaces'[i].seen = workspaces[i].seen
          BY <1>1, <2>2, <3>2, <4>1, <4>4 DEF Fresh, busy
        <4> QED
          BY <4>1, <4>2, <4>3, <4>4
      <3> QED
        BY <3>1, <3>2
    <2> QED
      BY <2>1, <2>2 DEF Fresh
  <1>4. Owned'
    <2>1. \A p \in Paths : p[1] \in Ids
      BY DEF Paths
    <2> QED
      BY <1>1, <2>1 DEF Owned, exists
  <1>5. Swept'
    <2> SUFFICES ASSUME sweeper # none, NEW p \in sweeper
                 PROVE  /\ p[1] \in issued' /\ ~ exists(p[1])'
                        /\ \A s \in Requests : busy(s)' => request'[s].workspace # p[1]
      BY DEF Swept
    <2>1. p \in Paths /\ p[1] \in Ids
      <3>1. sweeper \in SUBSET Paths
        BY DEF KeptTypes
      <3>2. p \in Paths
        BY <3>1
      <3> QED
        BY <3>2 DEF Paths
    <2>2. p[1] \in issued /\ ~ exists(p[1])
      BY DEF Swept
    <2>3. workspaces'[p[1]] = none
      BY <2>1, <2>2
    <2>4. \A s \in Requests : busy(s)' => request'[s].workspace # p[1]
      BY <1>1, <2>3 DEF Swept, busy
    <2> QED
      BY <2>2, <2>3, <2>4 DEF exists
  <1>6. Replaced' /\ SealedReadable'
    BY <1>1 DEF Replaced, SealedReadable
  <1> QED
    BY <1>2, <1>3, <1>4, <1>5, <1>6

\* A request resolves its workspace, or draws one for another use.
LEMMA ResolveSealed ==
    ASSUME LockInv, SealedInv, NEW r \in Requests, NEW i \in Ids,
           \/ resolve_known(r, i) \/ resolve_new(r, i)
           \/ create_eval_workspace(r, i) \/ ensure_observed_workspace(r, i)
    PROVE  SealedInv'
  <1>1. /\ workspaces \in [Ids -> WorkspaceRow \cup {none}] /\ now \in Nat
        /\ request \in [Requests -> RequestRecord]
        /\ busy(r) => request[r].workspace \in Ids
    BY DEF SealedInv, KeptTypes, LockInv, LockTypes, busy
  <1>2. Idle \in RequestRecord /\ Idle.at = "idle"
    BY DEF Idle, RequestRecord
  <1> DEFINE q == [Idle EXCEPT !.at = "resolved", !.workspace = i]
  <1>3. q \in RequestRecord /\ q.at = "resolved" /\ q.workspace = i
    BY DEF Idle, RequestRecord
  <1>4. ASSUME NEW owner \in Ids \cup {none}, NEW kind \in WorkspaceKind
        PROVE  /\ Row(kind, owner) \in WorkspaceRow /\ Row(kind, owner) # none
               /\ Row(kind, owner).seen = now
    BY <1>1, RowAssumption DEF Row, WorkspaceRow
  <1>5. CASE resolve_known(r, i)
    <2> DEFINE row == [workspaces[i] EXCEPT !.seen = now]
    <2>1. workspaces[i] \in WorkspaceRow /\ exists(i)
      BY <1>1, <1>5 DEF resolve_known, exists
    <2>2. row \in WorkspaceRow /\ row.seen = now
      BY <1>1, <2>1 DEF WorkspaceRow
    <2>3. row # none
      BY <2>2, RowAssumption
    <2>4. workspaces' = [workspaces EXCEPT ![i] = row]
      BY <1>1, <1>5 DEF resolve_known
    <2>5. /\ request' = [request EXCEPT ![r] = q] /\ issued' = issued
          /\ UNCHANGED <<audits, rows, files, sweeper, now>>
      BY <1>5 DEF resolve_known, storage, rest
    <2> HIDE DEF row, q
    <2>6. /\ workspaces' \in [Ids -> WorkspaceRow \cup {none}] /\ workspaces'[i] = row
          /\ \A j \in Ids : j # i => workspaces'[j] = workspaces[j]
      BY <1>1, <2>2, <2>4
    <2> QED
      BY <1>3, <2>1, <2>2, <2>3, <2>5, <2>6, TableStep DEF exists
  <1>6. ASSUME NEW row \in WorkspaceRow, row # none, row.seen = now, i \notin issued,
               NEW new \in [Ids -> WorkspaceRow \cup {none}], workspaces' = new, new[i] = row,
               \A j \in Ids : j # i =>
                   \/ new[j] = workspaces[j]
                   \/ exists(j) /\ new[j] # none /\ new[j].seen = workspaces[j].seen,
               issued' = issued \cup {i}, UNCHANGED <<audits, rows, files, sweeper, now>>,
               \/ request' = [request EXCEPT ![r] = q]
               \/ request' = [request EXCEPT ![r] = Idle]
        PROVE  SealedInv'
    <2>1. ~ exists(i)
      BY <1>6 DEF SealedInv, Fresh
    <2> HIDE DEF q
    <2>2. /\ \A j \in Ids : exists(j) =>
                workspaces'[j] # none /\ workspaces'[j].seen \in {workspaces[j].seen, now}
          /\ \A j \in Ids : (~ exists(j) /\ workspaces'[j] # none) =>
                j \notin issued /\ j \in issued' /\ workspaces'[j].seen = now
      BY <1>6, <2>1 DEF exists
    <2>3. issued \subseteq issued' /\ workspaces' \in [Ids -> WorkspaceRow \cup {none}]
      BY <1>6
    <2>4. CASE request' = [request EXCEPT ![r] = q]
      BY <1>3, <1>6, <2>2, <2>3, <2>4, TableStep
    <2>5. CASE request' = [request EXCEPT ![r] = Idle]
      BY <1>2, <1>6, <2>2, <2>3, <2>5, TableStep
    <2> QED
      BY <1>6, <2>4, <2>5
  <1>7. ASSUME NEW owner \in Ids \cup {none}, NEW kind \in WorkspaceKind,
               workspaces' = [workspaces EXCEPT ![i] = Row(kind, owner)], i \notin issued,
               issued' = issued \cup {i}, UNCHANGED <<audits, rows, files, sweeper, now>>,
               \/ request' = [request EXCEPT ![r] = q]
               \/ request' = [request EXCEPT ![r] = Idle]
        PROVE  SealedInv'
    <2> HIDE DEF q
    <2>1. PICK row \in WorkspaceRow : row = Row(kind, owner) /\ row # none /\ row.seen = now
      BY <1>4
    <2>2. PICK new \in [Ids -> WorkspaceRow \cup {none}] :
             /\ new = workspaces' /\ new[i] = row
             /\ \A j \in Ids : j # i => new[j] = workspaces[j]
      BY <1>1, <1>7, <2>1
    <2> QED
      BY <1>6, <1>7, <2>1, <2>2
  <1>8. CASE resolve_new(r, i)
    BY <1>7, <1>8 DEF resolve_new, storage, WorkspaceKind
  <1>9. CASE create_eval_workspace(r, i)
    BY <1>1, <1>7, <1>9 DEF create_eval_workspace, storage, rest, WorkspaceKind, busy
  <1>10. CASE ensure_observed_workspace(r, i)
    <2>1. PICK w \in Ids : w = request[r].workspace
      BY <1>1, <1>10 DEF ensure_observed_workspace, busy
    <2>2. exists(w) /\ i \notin issued /\ w # i
      BY <1>10, <2>1 DEF ensure_observed_workspace, SealedInv, Fresh
    <2>3. PICK row \in WorkspaceRow : row = Row("observed", w) /\ row # none /\ row.seen = now
      BY <1>4 DEF WorkspaceKind
    <2> DEFINE old == [workspaces[w] EXCEPT !.observes = i]
    <2>4. old \in WorkspaceRow /\ old.seen = workspaces[w].seen
      BY <1>1, <2>2 DEF WorkspaceRow, exists
    <2>5. old # none
      BY <2>4, RowAssumption
    <2>6. workspaces' = [workspaces EXCEPT ![i] = row, ![w] = old]
      BY <1>1, <1>10, <2>1, <2>2, <2>3 DEF ensure_observed_workspace
    <2> HIDE DEF old, q
    <2>7. PICK new \in [Ids -> WorkspaceRow \cup {none}] :
             /\ new = workspaces' /\ new[i] = row /\ new[w] = old
             /\ \A j \in Ids : j # i /\ j # w => new[j] = workspaces[j]
      BY <1>1, <2>2, <2>4, <2>6
    <2>8. /\ request' = [request EXCEPT ![r] = Idle] /\ issued' = issued \cup {i}
          /\ UNCHANGED <<audits, rows, files, sweeper, now>>
      BY <1>10 DEF ensure_observed_workspace, leave, storage, rest
    <2> QED
      BY <1>6, <2>2, <2>3, <2>4, <2>5, <2>7, <2>8
  <1> QED
    BY <1>5, <1>8, <1>9, <1>10

\* A request moves on without touching a row or a file, or leaves.
LEMMA MoveSealed ==
    ASSUME LockInv, SealedInv, NEW r \in Requests,
           \/ wait(r) \/ acquire(r) \/ give_up(r) \/ assert_authorization(r) \/ cancel(r)
           \/ \E d \in Docs : begin_report(r, d) \/ begin_import(r, d)
           \/ stored_reference(r) \/ verified_document(r),
           audits' \in [Ids -> AuditRecord]
    PROVE  SealedInv'
  <1>1. /\ rows \in [Paths -> Nat] /\ files \in [Paths -> {"none", "torn", "whole"}]
        /\ request \in [Requests -> RequestRecord] /\ request[r] \in RequestRecord
        /\ audits \in [Ids -> AuditRecord]
    BY DEF SealedInv, KeptTypes, LockInv, LockTypes
  <1>2. UNCHANGED <<workspaces, issued, sweeper, now, rows, files>> /\ busy(r)
    BY DEF wait, acquire, give_up, assert_authorization, cancel, begin_report, begin_import,
           stored_reference, verified_document, storage, rest, tables, write_partial, busy
  <1>3. PICK w \in Ids : w = request[r].workspace
    BY <1>2 DEF busy, LockInv, LockTypes
  <1>4. \A i \in Ids : audits'[i].report = audits[i].report
    <2>1. CASE assert_authorization(r)
      <3>1. audits' = [audits EXCEPT ![w] = [audits[w] EXCEPT !.count = audits[w].count + 1,
                                                             !.live = TRUE]]
        BY <1>1, <1>3, <2>1 DEF assert_authorization
      <3> QED
        BY <1>1, <3>1 DEF AuditRecord
    <2>2. CASE cancel(r)
      <3>1. audits' = [audits EXCEPT ![w] = [audits[w] EXCEPT !.live = FALSE]]
        BY <1>1, <1>3, <2>2 DEF cancel
      <3> QED
        BY <1>1, <3>1 DEF AuditRecord
    <2>3. CASE UNCHANGED audits
      BY <2>3
    <2> QED
      BY <2>1, <2>2, <2>3 DEF wait, acquire, give_up, begin_report, begin_import,
                              stored_reference, verified_document, tables
  <1>5. \A p \in Paths : files'[p] = files[p] /\ rows'[p] = rows[p]
    BY <1>2
  <1>6. rows' \in [Paths -> Nat] /\ files' \in [Paths -> {"none", "torn", "whole"}]
    BY <1>1, <1>2
  <1>7. ASSUME NEW q \in RequestRecord, request' = [request EXCEPT ![r] = q],
               q.at # "idle" => q.workspace = w,
               q.at \in {"partial", "written", "reading"} => q.path[1] = w,
               q.at \in {"written", "reading"} => files[q.path] = "whole"
        PROVE  SealedInv'
    <2>1. q.at \in {"partial", "written", "reading"} => q.path[1] = q.workspace
      BY <1>7
    <2>2. q.at \in {"written", "reading"} => files'[q.path] = "whole"
      BY <1>2, <1>7
    <2>3. q.at # "idle" => busy(r) /\ q.workspace = request[r].workspace
      BY <1>2, <1>3, <1>7
    <2> QED
      BY <1>2, <1>4, <1>5, <1>6, <1>7, <2>1, <2>2, <2>3, RequestStep
  <1>8. CASE give_up(r) \/ assert_authorization(r) \/ cancel(r) \/ verified_document(r)
    <2>1. Idle \in RequestRecord /\ Idle.at = "idle"
      BY DEF Idle, RequestRecord
    <2>2. request' = [request EXCEPT ![r] = Idle]
      BY <1>8 DEF give_up, assert_authorization, cancel, verified_document, leave
    <2> QED
      BY <1>7, <2>1, <2>2
  <1>9. CASE wait(r) \/ acquire(r)
    <2>1. \A o \in LockObjects :
             /\ [request[r] EXCEPT !.at = "waiting", !.lock = o] \in RequestRecord
             /\ [request[r] EXCEPT !.at = "waiting", !.lock = o].workspace = w
             /\ [request[r] EXCEPT !.at = "waiting", !.lock = o].at = "waiting"
      BY <1>1, <1>3 DEF RequestRecord
    <2>2. /\ [request[r] EXCEPT !.at = "holding"] \in RequestRecord
          /\ [request[r] EXCEPT !.at = "holding"].workspace = w
          /\ [request[r] EXCEPT !.at = "holding"].at = "holding"
      BY <1>1, <1>3 DEF RequestRecord
    <2>3. CASE wait(r)
      <3>1. PICK o \in LockObjects :
               request' = [request EXCEPT ![r] = [request[r] EXCEPT !.at = "waiting", !.lock = o]]
        BY <1>1, <2>3 DEF wait
      <3> QED
        BY <1>7, <2>1, <3>1
    <2>4. CASE acquire(r)
      <3>1. request' = [request EXCEPT ![r] = [request[r] EXCEPT !.at = "holding"]]
        BY <1>1, <2>4 DEF acquire
      <3> QED
        BY <1>7, <2>2, <3>1
    <2> QED
      BY <1>9, <2>3, <2>4
  <1>10. ASSUME NEW d \in Docs, begin_report(r, d) \/ begin_import(r, d) PROVE SealedInv'
    <2>1. PICK n \in 0..MaxAudits :
             request' = [request EXCEPT ![r].at = "partial", ![r].path = <<w, n, d>>]
      <3>1. audits[w].count \in 0..MaxAudits /\ 0 \in 0..MaxAudits
        BY <1>1, <1>3, WorkspacesAssumption DEF AuditRecord
      <3> QED
        BY <1>3, <1>10, <3>1 DEF begin_report, begin_import
    <2>2. PICK p \in Paths : p = <<w, n, d>> /\ p[1] = w
      <3>1. <<w, n, d>> \in Paths
        BY DEF Paths
      <3>2. <<w, n, d>>[1] = w
        OBVIOUS
      <3> QED
        BY <3>1, <3>2
    <2> DEFINE q == [request[r] EXCEPT !.at = "partial", !.path = p]
    <2>3. q \in RequestRecord /\ q.workspace = w /\ q.at = "partial" /\ q.path = p
      BY <1>1, <1>3 DEF RequestRecord
    <2>4. request' = [request EXCEPT ![r] = q]
      BY <1>1, <2>1, <2>2
    <2> HIDE DEF q
    <2> QED
      BY <1>7, <2>2, <2>3, <2>4
  <1>11. CASE stored_reference(r)
    <2>1. audits[w].report # none
      BY <1>3, <1>11 DEF stored_reference
    <2>2. PICK p \in Paths : p = audits[w].report
      BY <1>1, <2>1 DEF AuditRecord
    <2>3. p[1] = w /\ rows[p] > 0 /\ files[p] = "whole"
      BY <2>1, <2>2 DEF SealedInv, Owned, SealedReadable
    <2> DEFINE q == [request[r] EXCEPT !.at = "reading", !.path = p]
    <2>4. q \in RequestRecord /\ q.workspace = w /\ q.at = "reading" /\ q.path = p
      BY <1>1, <1>3 DEF RequestRecord
    <2>5. request' = [request EXCEPT ![r] = q]
      BY <1>1, <1>3, <1>11, <2>2 DEF stored_reference
    <2> HIDE DEF q
    <2> QED
      BY <1>7, <2>3, <2>4, <2>5
  <1> QED
    BY <1>8, <1>9, <1>10, <1>11

\* The file is replaced, and the row recorded once it is whole.
LEMMA StoreSealed ==
    ASSUME LockInv, SealedInv, NEW r \in Requests,
           replace(r) \/ complete_audit(r) \/ record_import(r),
           audits' \in [Ids -> AuditRecord]
    PROVE  SealedInv'
  <1>1. /\ rows \in [Paths -> Nat] /\ files \in [Paths -> {"none", "torn", "whole"}]
        /\ request \in [Requests -> RequestRecord] /\ request[r] \in RequestRecord
        /\ audits \in [Ids -> AuditRecord]
    BY DEF SealedInv, KeptTypes, LockInv, LockTypes
  <1>2. UNCHANGED <<workspaces, issued, sweeper, now>> /\ request[r].at \in {"partial", "written"}
    BY DEF replace, complete_audit, record_import, rest, tables
  <1>3. PICK w \in Ids, p \in Paths : w = request[r].workspace /\ p = request[r].path /\ p[1] = w
    BY <1>2 DEF LockInv, LockTypes, SealedInv, Owned
  <1>4. CASE replace(r)
    <2> DEFINE q == [request[r] EXCEPT !.at = "written"]
    <2>1. q \in RequestRecord /\ q.at = "written" /\ q.workspace = w /\ q.path = p
      BY <1>1, <1>3 DEF RequestRecord
    <2>2. /\ request' = [request EXCEPT ![r] = q] /\ files' = [files EXCEPT ![p] = "whole"]
          /\ UNCHANGED <<rows, audits>>
      BY <1>1, <1>3, <1>4 DEF replace, tables
    <2> HIDE DEF q
    <2>3. /\ files' \in [Paths -> {"none", "torn", "whole"}] /\ files'[p] = "whole"
          /\ \A u \in Paths : files'[u] = files[u] \/ files'[u] = "whole"
          /\ rows' \in [Paths -> Nat] /\ \A u \in Paths : rows'[u] = rows[u]
          /\ \A i \in Ids : audits'[i].report = audits[i].report
      BY <1>1, <2>2
    <2> QED
      BY <1>2, <1>3, <2>1, <2>2, <2>3, RequestStep DEF busy
  <1>5. CASE complete_audit(r) \/ record_import(r)
    <2>1. record(r) /\ files' = files
      BY <1>5 DEF complete_audit, record_import
    <2>2. /\ rows' = [rows EXCEPT ![p] = rows[p] + 1] /\ exists(w) /\ request[r].at = "written"
          /\ request' = [request EXCEPT ![r] = Idle]
      BY <1>3, <2>1 DEF record, leave
    <2>3. files[p] = "whole"
      BY <1>3, <2>2 DEF SealedInv, Replaced
    <2>4. /\ rows' \in [Paths -> Nat] /\ rows'[p] > 0
          /\ \A u \in Paths : \/ rows'[u] = rows[u]
                              \/ rows'[u] > rows[u] /\ exists(u[1]) /\ files'[u] = "whole"
      <3>1. rows[p] + 1 \in Nat /\ rows[p] + 1 > rows[p] /\ rows[p] + 1 > 0
        BY <1>1
      <3>2. rows' \in [Paths -> Nat] /\ rows'[p] = rows[p] + 1
            /\ \A u \in Paths : u # p => rows'[u] = rows[u]
        BY <1>1, <2>2, <3>1
      <3>3. exists(p[1]) /\ files'[p] = "whole"
        BY <1>3, <2>1, <2>2, <2>3
      <3> QED
        BY <3>1, <3>2, <3>3
    <2>5. \A i \in Ids : \/ audits'[i].report = audits[i].report
                         \/ audits'[i].report[1] = i /\ rows'[audits'[i].report] > 0
      <3>1. CASE complete_audit(r)
        <4>1. audits' = [audits EXCEPT ![w] = [audits[w] EXCEPT !.live = FALSE, !.report = p]]
          BY <1>1, <1>3, <3>1 DEF complete_audit
        <4>2. audits'[w].report = p /\ \A i \in Ids : i # w => audits'[i] = audits[i]
          BY <1>1, <4>1 DEF AuditRecord
        <4> QED
          BY <1>3, <2>4, <4>2
      <3>2. CASE record_import(r)
        BY <3>2 DEF record_import, tables
      <3> QED
        BY <1>5, <3>1, <3>2
    <2>6. Idle \in RequestRecord /\ Idle.at = "idle"
      BY DEF Idle, RequestRecord
    <2>7. \A u \in Paths : files'[u] = files[u]
      BY <2>1
    <2> QED
      BY <1>1, <1>2, <2>1, <2>2, <2>4, <2>5, <2>6, <2>7, RequestStep
  <1> QED
    BY <1>4, <1>5

\* The sweep takes the rows of workspaces nobody has seen in time, so of none that a
\* request is under way for.
LEMMA SweepSealed ==
    ASSUME LockInv, SealedInv, sweep, audits' \in [Ids -> AuditRecord]
    PROVE  SealedInv'
  <1> USE DEF SealedInv
  <1>1. /\ workspaces \in [Ids -> WorkspaceRow \cup {none}] /\ now \in Nat /\ TTL \in Nat
        /\ rows \in [Paths -> Nat] /\ audits \in [Ids -> AuditRecord]
        /\ \A p \in Paths : p[1] \in Ids
    BY WorkspacesAssumption DEF KeptTypes, LockInv, LockTypes, Paths
  <1>2. UNCHANGED <<issued, files, request, now>>
    BY DEF sweep
  <1>3. \A i \in Ids : workspaces'[i] = IF i \in cascade THEN none ELSE workspaces[i]
    BY DEF sweep
  <1>4. \A p \in Paths : rows'[p] = IF p[1] \in cascade THEN 0 ELSE rows[p]
    BY DEF sweep
  <1>5. \A i \in Ids : audits'[i] = IF i \in cascade THEN NoAudit ELSE audits[i]
    BY DEF sweep
  <1>6. sweeper' = {p \in Paths : rows[p] > 0 /\ p[1] \in expired}
    BY DEF sweep
  <1>7. KeptTypes'
    <2>1. workspaces' \in [Ids -> WorkspaceRow \cup {none}] /\ rows' \in [Paths -> Nat]
      BY <1>1 DEF sweep
    <2>2. sweeper' \in SUBSET Paths
      BY <1>6
    <2> QED
      BY <1>2, <2>1, <2>2 DEF KeptTypes
  <1>8. \A i \in expired : /\ i \in Ids /\ exists(i) /\ i \in cascade
                           /\ \A r \in Requests : busy(r) => request[r].workspace # i
    <2> SUFFICES ASSUME NEW i \in expired, NEW r \in Requests, busy(r), request[r].workspace = i
                 PROVE  FALSE
      BY DEF expired, cascade
    <2>1. i \in Ids /\ exists(i) /\ workspaces[i].seen + TTL < now
      BY DEF expired
    <2>2. workspaces[i].seen \in Nat
      BY <1>1, <2>1 DEF exists, WorkspaceRow
    <2>3. now <= workspaces[i].seen + TTL
      BY <2>1 DEF Fresh
    <2> QED
      BY <1>1, <2>1, <2>2, <2>3
  <1>9. Fresh'
    <2>1. \A i \in Ids : exists(i)' => exists(i) /\ workspaces'[i] = workspaces[i]
      BY <1>3 DEF exists
    <2>2. \A r \in Requests : busy(r) => request[r].workspace \in Ids
      BY DEF LockInv, LockTypes, busy
    <2> QED
      BY <1>2, <2>1, <2>2 DEF Fresh, busy
  <1>10. Owned'
    <2>1. NoAudit.report = none
      BY DEF NoAudit
    <2> QED
      BY <1>1, <1>2, <1>3, <1>4, <1>5, <2>1 DEF Owned, exists
  <1>11. Swept'
    BY <1>2, <1>3, <1>6, <1>8 DEF Swept, Fresh, exists, busy
  <1>12. Replaced'
    BY <1>2 DEF Replaced
  <1>13. SealedReadable'
    <2>1. \A p \in Paths : rows'[p] > 0 => files'[p] = "whole"
      BY <1>1, <1>2, <1>4 DEF SealedReadable
    <2>2. ASSUME NEW i \in Ids, audits'[i].report # none PROVE rows'[audits'[i].report] > 0
      <3>1. i \notin cascade /\ audits'[i] = audits[i]
        BY <1>5, <2>2 DEF NoAudit
      <3>2. PICK p \in Paths : p = audits[i].report
        BY <1>1, <2>2, <3>1 DEF AuditRecord
      <3>3. p[1] = i /\ rows[p] > 0
        BY <2>2, <3>1, <3>2 DEF Owned, SealedReadable
      <3> QED
        BY <1>4, <3>1, <3>2, <3>3
    <2>3. \A r \in Requests : request'[r].at = "reading" => files'[request'[r].path] = "whole"
      BY <1>2 DEF SealedReadable
    <2> QED
      BY <2>1, <2>2, <2>3 DEF SealedReadable
  <1> QED
    BY <1>7, <1>9, <1>10, <1>11, <1>12, <1>13

\* A path the sweep unlinks has no row, no writer and no reader.
LEMMA UnlinkSealed ==
    ASSUME LockInv, SealedInv, NEW p \in Paths, NEW removed \in BOOLEAN, unlink(p, removed)
    PROVE  SealedInv'
  <1> USE DEF SealedInv
  <1>1. /\ UNCHANGED <<workspaces, issued, audits, rows, request, now>>
        /\ sweeper # none /\ p \in sweeper /\ sweeper' = sweeper \ {p}
    BY DEF unlink, tables
  <1>2. /\ files \in [Paths -> {"none", "torn", "whole"}] /\ sweeper \in SUBSET Paths
        /\ rows \in [Paths -> Nat]
    BY <1>1 DEF KeptTypes
  <1>3. /\ files' \in [Paths -> {"none", "torn", "whole"}]
        /\ \A u \in Paths : u # p => files'[u] = files[u]
    BY <1>2 DEF unlink
  <1>4. ~ exists(p[1]) /\ \A r \in Requests : busy(r) => request[r].workspace # p[1]
    BY <1>1 DEF Swept
  <1>5. KeptTypes'
    BY <1>1, <1>2, <1>3 DEF KeptTypes
  <1>6. Fresh' /\ Owned'
    BY <1>1 DEF Fresh, Owned, busy, exists
  <1>7. Swept'
    BY <1>1 DEF Swept, busy, exists
  <1>8. \A r \in Requests : request[r].at \in {"written", "reading"} =>
           request[r].path \in Paths /\ request[r].path # p
    BY <1>4 DEF Owned, LockInv, LockTypes, busy
  <1>9. Replaced'
    BY <1>1, <1>3, <1>8 DEF Replaced
  <1>10. SealedReadable'
    <2>1. ~ (rows[p] > 0)
      BY <1>4 DEF Owned
    <2>2. \A u \in Paths : rows'[u] > 0 => files'[u] = "whole"
      BY <1>1, <1>3, <2>1 DEF SealedReadable
    <2>3. \A i \in Ids : audits'[i].report # none => rows'[audits'[i].report] > 0
      BY <1>1 DEF SealedReadable
    <2>4. \A r \in Requests : request'[r].at = "reading" => files'[request'[r].path] = "whole"
      BY <1>1, <1>3, <1>8 DEF SealedReadable
    <2> QED
      BY <2>2, <2>3, <2>4 DEF SealedReadable
  <1> QED
    BY <1>5, <1>6, <1>7, <1>9, <1>10

\* The end of a sweep, the clock, a refusal and a restart.
LEMMA AroundSealed ==
    ASSUME LockInv, SealedInv,
           on_sweep \/ Tick \/ Crash \/ UNCHANGED vars \/ \E r \in Requests : resolve_refused(r)
    PROVE  SealedInv'
  <1> USE DEF SealedInv
  <1>1. UNCHANGED <<workspaces, issued, audits, rows, files>>
    BY DEF on_sweep, Tick, Crash, vars, resolve_refused, tables, storage
  <1>2. CASE UNCHANGED <<request, now>> /\ (sweeper' = sweeper \/ sweeper' = none)
    BY <1>1, <1>2 DEF KeptTypes, Fresh, Owned, Swept, Replaced, SealedReadable, busy, exists
  <1>3. CASE Tick
    <2>1. UNCHANGED <<request, sweeper>> /\ now' = now + 1 /\ now \in Nat
      BY <1>3 DEF Tick, KeptTypes
    <2>2. Fresh'
      <3>1. ASSUME NEW r \in Requests, busy(r), exists(request[r].workspace)
            PROVE  now + 1 <= workspaces[request[r].workspace].seen + TTL
        <4>1. PICK w \in Ids : w = request[r].workspace
          BY <3>1 DEF busy, LockInv, LockTypes
        <4>2. w # none /\ workspaces[w] # none
          BY <3>1, <4>1, WorkspacesAssumption DEF exists
        <4>3. now < workspaces[w].seen + TTL
          BY <1>3, <4>1, <4>2 DEF Tick
        <4>4. workspaces[w].seen \in Nat /\ TTL \in Nat
          BY <4>1, <4>2, WorkspacesAssumption DEF KeptTypes, WorkspaceRow
        <4> QED
          BY <2>1, <4>1, <4>3, <4>4
      <3> QED
        BY <1>1, <2>1, <3>1 DEF Fresh, busy, exists
    <2> QED
      BY <1>1, <2>1, <2>2 DEF KeptTypes, Owned, Swept, Replaced, SealedReadable, busy, exists
  <1>4. CASE Crash
    <2>1. Idle.at = "idle"
      BY DEF Idle
    <2>2. /\ \A r \in Requests : request'[r].at = "idle"
          /\ sweeper' = none /\ now' = now
      BY <1>4, <2>1 DEF Crash
    <2>3. Fresh' /\ Owned' /\ Swept' /\ Replaced' /\ SealedReadable'
      BY <1>1, <2>2 DEF Fresh, Owned, Swept, Replaced, SealedReadable, busy, exists
    <2> QED
      BY <1>1, <2>2, <2>3 DEF KeptTypes
  <1> QED
    BY <1>2, <1>3, <1>4 DEF on_sweep, resolve_refused, vars

\* The invariant is inductive, given the lock's.
LEMMA SealedInductive ==
    /\ Init => SealedInv
    /\ LockInv /\ SealedInv /\ [Next]_vars => SealedInv'
  <1>1. Init => SealedInv
    <2> SUFFICES ASSUME Init PROVE SealedInv
      OBVIOUS
    <2>1. NoAudit.report = none /\ Idle.at = "idle"
      BY DEF NoAudit, Idle
    <2> QED
      BY <2>1 DEF Init, SealedInv, KeptTypes, Fresh, Owned, Swept, Replaced, SealedReadable,
                  busy, exists
  <1>2. ASSUME LockInv, SealedInv, [Next]_vars PROVE SealedInv'
    <2>1. audits' \in [Ids -> AuditRecord]
      BY <1>2, LockInductive DEF LockInv, LockTypes
    <2> QED
      BY <1>2, <2>1, ResolveSealed, MoveSealed, StoreSealed, SweepSealed, UnlinkSealed,
         AroundSealed DEF Next, Handle, Clean
  <1> QED
    BY <1>1, <1>2

\* A row leads to a whole file, a completed audit to its row, and a reader who has looked
\* a path up to the file, for any number of workspaces, requests, audits and restarts: a
\* sweep unlinks no file that a row, a writer or a reader still counts on.
THEOREM SealedStaysReadable == Spec => []SealedReadable
  <1>1. SealedInv => SealedReadable
    BY DEF SealedInv
  <1> QED
    BY <1>1, LockInductive, SealedInductive, PTL DEF Spec

-----------------------------------------------------------------------------
\* The ceiling on artifacts, and the types

\* No workspace has more artifacts than it may.
Ceiling == \A i \in Ids : Total(rows, artifacts_of(i)) <= ARTIFACTS_PER_WORKSPACE

CeilingInv == Ceiling /\ issued \in SUBSET Ids

\* The paths of a workspace are finitely many, and none is of another.
LEMMA ArtifactsFinite ==
    ASSUME NEW i \in Ids
    PROVE  IsFiniteSet(artifacts_of(i)) /\ artifacts_of(i) \subseteq Paths
  <1> DEFINE names == (0..MaxAudits) \X Docs
             at == [n \in names |-> <<i, n[1], n[2]>>]
  <1>1. IsFiniteSet(0..MaxAudits)
    BY WorkspacesAssumption, FS_Interval
  <1>2. IsFiniteSet(names)
    BY <1>1, WorkspacesAssumption, FS_Product
  <1>3. IsFiniteSet({at[n] : n \in names})
    <2> HIDE DEF names, at
    <2> QED BY <1>2, ImageFinite
  <1>4. artifacts_of(i) \subseteq {at[n] : n \in names}
    <2> SUFFICES ASSUME NEW p \in Paths, p[1] = i PROVE \E n \in names : at[n] = p
      BY DEF artifacts_of
    <2>1. PICK m \in 0..MaxAudits, d \in Docs : p = <<i, m, d>>
      BY DEF Paths
    <2>2. <<m, d>> \in names /\ at[<<m, d>>] = p
      BY <2>1
    <2> QED BY <2>2
  <1> QED BY <1>3, <1>4, FS_Subset DEF artifacts_of

\* What the store counts is the sum of the rows.
LEMMA StoredIs == \A i \in Ids : stored(i) = Total(rows, artifacts_of(i))
  BY ArtifactsFinite, MapIsTotal DEF stored

\* Rows that stay as they are keep their sum.
LEMMA SameRows ==
    ASSUME CeilingInv, rows' = rows, issued' \in SUBSET Ids
    PROVE  CeilingInv'
  BY DEF CeilingInv, Ceiling, artifacts_of

\* A row is added to a workspace that has room for one more.
LEMMA RecordCeiling ==
    ASSUME LockInv, SealedInv, CeilingInv, NEW r \in Requests, record(r),
           UNCHANGED issued
    PROVE  CeilingInv'
  <1>1. PICK w \in Ids, p \in Paths : w = request[r].workspace /\ p = request[r].path /\ p[1] = w
    BY DEF record, LockInv, LockTypes, SealedInv, Owned
  <1>2. rows \in [Paths -> Nat] /\ ARTIFACTS_PER_WORKSPACE \in Nat
    BY WorkspacesAssumption DEF SealedInv, KeptTypes
  <1>3. /\ rows' \in [Paths -> Nat] /\ rows'[p] = rows[p] + 1
        /\ \A q \in Paths : q # p => rows'[q] = rows[q]
    BY <1>1, <1>2 DEF record
  <1>4. Total(rows, artifacts_of(w)) < ARTIFACTS_PER_WORKSPACE
    BY <1>1, StoredIs DEF record
  <1>5. ASSUME NEW i \in Ids
        PROVE  Total(rows', artifacts_of(i)) <= ARTIFACTS_PER_WORKSPACE
    <2> DEFINE S == artifacts_of(i)
    <2>1. IsFiniteSet(S) /\ S \subseteq Paths /\ \A q \in S : q[1] = i
      BY ArtifactsFinite DEF artifacts_of
    <2>2. CASE i # w
      <3>1. \A q \in S : rows'[q] = rows[q]
        BY <1>1, <1>3, <2>1, <2>2
      <3> HIDE DEF S
      <3>2. Total(rows', S) = Total(rows, S)
        BY <2>1, <3>1, TotalSame
      <3> QED BY <3>2 DEF CeilingInv, Ceiling, S
    <2>3. CASE i = w
      <3> DEFINE R == S \ {p}
      <3>1. p \in S
        BY <1>1, <2>3 DEF artifacts_of
      <3> HIDE DEF S
      <3>2. IsFiniteSet(R) /\ \A q \in R : rows'[q] = rows[q] /\ rows[q] \in Int
        BY <1>2, <1>3, <2>1, FS_Subset
      <3>3. Total(rows', S) = rows'[p] + Total(rows', R)
        BY <1>3, <2>1, <3>1, TotalSplit
      <3>4. Total(rows, S) = rows[p] + Total(rows, R)
        BY <1>2, <2>1, <3>1, TotalSplit
      <3> HIDE DEF R
      <3>5. Total(rows', R) = Total(rows, R) /\ Total(rows, R) \in Int
        BY <3>2, TotalSame, TotalType
      <3>6. Total(rows, S) < ARTIFACTS_PER_WORKSPACE
        BY <1>4, <2>3 DEF S
      <3>7. rows[p] \in Nat
        BY <1>2
      <3>8. Total(rows', S) <= ARTIFACTS_PER_WORKSPACE
        BY <1>2, <1>3, <3>3, <3>4, <3>5, <3>6, <3>7
      <3> QED BY <3>8 DEF S
    <2> QED BY <2>2, <2>3
  <1> QED BY <1>5 DEF CeilingInv, Ceiling, artifacts_of

\* A workspace keeps all its rows or none.
LEMMA SweepCeiling ==
    ASSUME SealedInv, CeilingInv, sweep
    PROVE  CeilingInv'
  <1>1. rows \in [Paths -> Nat] /\ ARTIFACTS_PER_WORKSPACE \in Nat /\ issued' = issued
    BY WorkspacesAssumption DEF SealedInv, KeptTypes, sweep
  <1>2. \A p \in Paths : rows'[p] = IF p[1] \in cascade THEN 0 ELSE rows[p]
    BY DEF sweep
  <1>3. ASSUME NEW i \in Ids
        PROVE  Total(rows', artifacts_of(i)) <= ARTIFACTS_PER_WORKSPACE
    <2> DEFINE S == artifacts_of(i)
    <2>1. IsFiniteSet(S) /\ S \subseteq Paths /\ \A q \in S : q[1] = i
      BY ArtifactsFinite DEF artifacts_of
    <2>2. CASE i \in cascade
      <3>1. \A q \in S : rows'[q] = 0
        BY <1>2, <2>1, <2>2
      <3> HIDE DEF S
      <3>2. Total(rows', S) \in Nat /\ ~ (Total(rows', S) > 0)
        BY <2>1, <3>1, TotalType, TotalPositive
      <3>3. Total(rows', S) <= ARTIFACTS_PER_WORKSPACE
        BY <1>1, <3>2
      <3> QED BY <3>3 DEF S
    <2>3. CASE i \notin cascade
      <3>1. \A q \in S : rows'[q] = rows[q]
        BY <1>2, <2>1, <2>3
      <3> HIDE DEF S
      <3>2. Total(rows', S) = Total(rows, S)
        BY <2>1, <3>1, TotalSame
      <3> QED BY <3>2 DEF CeilingInv, Ceiling, S
    <2> QED BY <2>2, <2>3
  <1> QED BY <1>1, <1>3 DEF CeilingInv, Ceiling, artifacts_of

\* The ceiling holds of every step, given what holds of the rows.
LEMMA CeilingInductive ==
    /\ Init => CeilingInv
    /\ LockInv /\ SealedInv /\ CeilingInv /\ [Next]_vars => CeilingInv'
  <1>1. ASSUME Init PROVE CeilingInv
    <2>1. ASSUME NEW i \in Ids
          PROVE  Total(rows, artifacts_of(i)) <= ARTIFACTS_PER_WORKSPACE
      <3> DEFINE S == artifacts_of(i)
      <3>1. IsFiniteSet(S) /\ \A q \in S : rows[q] = 0
        BY <1>1, ArtifactsFinite DEF Init
      <3> HIDE DEF S
      <3>2. Total(rows, S) \in Nat /\ ~ (Total(rows, S) > 0)
        BY <3>1, TotalType, TotalPositive
      <3>3. Total(rows, S) <= ARTIFACTS_PER_WORKSPACE
        BY <3>2, WorkspacesAssumption
      <3> QED BY <3>3 DEF S
    <2> QED BY <1>1, <2>1 DEF Init, CeilingInv, Ceiling
  <1>2. ASSUME LockInv, SealedInv, CeilingInv, [Next]_vars PROVE CeilingInv'
    <2>1. ASSUME NEW r \in Requests, complete_audit(r) \/ record_import(r) PROVE CeilingInv'
      BY <1>2, <2>1, RecordCeiling DEF complete_audit, record_import, tables
    <2>2. CASE sweep
      BY <1>2, <2>2, SweepCeiling
    <2>3. ASSUME NEW r \in Requests, NEW i \in Ids,
                 \/ resolve_known(r, i) \/ resolve_new(r, i) \/ create_eval_workspace(r, i)
                 \/ ensure_observed_workspace(r, i)
          PROVE  CeilingInv'
      <3>1. rows' = rows /\ (issued' = issued \/ issued' = issued \cup {i})
        BY <2>3 DEF resolve_known, resolve_new, create_eval_workspace,
                    ensure_observed_workspace, storage
      <3> QED BY <1>2, <3>1, SameRows DEF CeilingInv
    <2>4. ASSUME NEW r \in Requests,
                 \/ resolve_refused(r) \/ wait(r) \/ acquire(r) \/ give_up(r)
                 \/ assert_authorization(r) \/ cancel(r)
                 \/ \E d \in Docs : begin_report(r, d) \/ begin_import(r, d)
                 \/ replace(r) \/ stored_reference(r) \/ verified_document(r)
          PROVE  CeilingInv'
      <3>1. rows' = rows /\ issued' = issued
        BY <2>4 DEF resolve_refused, wait, acquire, give_up, assert_authorization, cancel,
                    begin_report, begin_import, replace, stored_reference, verified_document,
                    tables, storage
      <3> QED BY <1>2, <3>1, SameRows DEF CeilingInv
    <2>5. ASSUME \/ \E p \in Paths, removed \in BOOLEAN : unlink(p, removed)
                 \/ on_sweep \/ Tick \/ Crash \/ UNCHANGED vars
          PROVE  CeilingInv'
      <3>1. rows' = rows /\ issued' = issued
        BY <2>5 DEF unlink, on_sweep, Tick, Crash, vars, tables, storage
      <3> QED BY <1>2, <3>1, SameRows DEF CeilingInv
    <2> QED BY <1>2, <2>1, <2>2, <2>3, <2>4, <2>5 DEF Next, Handle, Clean
  <1> QED BY <1>1, <1>2

\* A workspace never has more artifacts than its ceiling, whichever writer records one:
\* the count is read in the transaction that adds to it, and no path leads around it.
THEOREM CeilingHolds == Spec => [](\A i \in Ids : stored(i) <= ARTIFACTS_PER_WORKSPACE)
  <1>1. CeilingInv => \A i \in Ids : stored(i) <= ARTIFACTS_PER_WORKSPACE
    BY StoredIs DEF CeilingInv, Ceiling
  <1> QED BY <1>1, LockInductive, SealedInductive, CeilingInductive, PTL DEF Spec

\* The types hold: a path has no more rows than its workspace may have artifacts.
THEOREM WorkspacesTyped == Spec => []TypeOK
  <1>1. BudgetInv /\ LockInv /\ SealedInv /\ CeilingInv => TypeOK
    <2> SUFFICES ASSUME BudgetInv, LockInv, SealedInv, CeilingInv PROVE TypeOK
      OBVIOUS
    <2>1. rows \in [Paths -> 0..ARTIFACTS_PER_WORKSPACE]
      <3>1. rows \in [Paths -> Nat] /\ ARTIFACTS_PER_WORKSPACE \in Nat
        BY WorkspacesAssumption DEF SealedInv, KeptTypes
      <3>2. ASSUME NEW p \in Paths PROVE rows[p] <= ARTIFACTS_PER_WORKSPACE
        <4> DEFINE S == artifacts_of(p[1])
                   R == S \ {p}
        <4>1. p[1] \in Ids
          BY DEF Paths
        <4>2. IsFiniteSet(S) /\ S \subseteq Paths /\ p \in S
          BY <4>1, ArtifactsFinite DEF artifacts_of
        <4>3. Total(rows, S) <= ARTIFACTS_PER_WORKSPACE
          BY <4>1 DEF CeilingInv, Ceiling
        <4> HIDE DEF S
        <4>4. Total(rows, S) = rows[p] + Total(rows, R)
          BY <3>1, <4>2, TotalSplit
        <4>5. IsFiniteSet(R) /\ \A q \in R : rows[q] \in Nat
          BY <3>1, <4>2, FS_Subset
        <4> HIDE DEF R
        <4>6. Total(rows, R) \in Nat
          BY <4>5, TotalType
        <4> QED BY <3>1, <4>3, <4>4, <4>6
      <3> QED BY <3>1, <3>2
    <2> QED BY <2>1 DEF BudgetInv, BudgetTypes, LockInv, LockTypes, SealedInv, KeptTypes,
                        CeilingInv, TypeOK
  <1> QED BY <1>1, BudgetInductive, LockInductive, SealedInductive, CeilingInductive, PTL
          DEF Spec
=============================================================================
