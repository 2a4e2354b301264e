------------------------------- MODULE Workspaces -------------------------------
(***************************************************************************)
(* What surrounds every request: the anonymous workspace behind the cookie,  *)
(* the in-process lock that serialises its mutations, the files its           *)
(* artifacts are kept in, and the hourly sweep that removes a workspace       *)
(* nobody has used for a day.  A stop of the process loses the locks, the     *)
(* creation budget and every request; rows and files stay.                    *)
(*                                                                          *)
(* An artifact is a file and a row.  The file is written before the           *)
(* transaction that inserts the row, under a name that is its content's hash. *)
(* Two writers stand for the ones the service has: an external audit, which   *)
(* completes with its report, and an import into a draft benchmark suite,     *)
(* which may be repeated with the same document.                              *)
(***************************************************************************)
EXTENDS Integers, FiniteSets, FiniteSetsExt

CONSTANTS
    Ids,                  \* what new_workspace_id draws from; never drawn twice
    Requests,             \* requests in progress at a time
    LockObjects,          \* asyncio.Lock objects, reused once nothing refers to one
    Docs,                 \* artifact contents
    MaxAudits,            \* bound: audits of a workspace
    ARTIFACTS_PER_WORKSPACE,
    TTL,                  \* INTERACTIVE_WORKSPACE_TTL_HOURS, in ticks
    CREATIONS,            \* WORKSPACE_CREATIONS_PER_HOUR: the bucket's capacity
    BUCKET_IDLE,          \* _BUCKET_IDLE_SECONDS, in ticks; one token comes back a tick
    MaxNow,               \* bound: ticks
    MaxCrashes,           \* bound: restarts
    none

ASSUME WorkspacesAssumption ==
    /\ IsFiniteSet(Requests)
    /\ IsFiniteSet(Docs)       \* an artifact is of a bounded size
    /\ none \notin Ids \cup LockObjects
    /\ MaxAudits \in Nat
    /\ ARTIFACTS_PER_WORKSPACE \in Nat
    /\ TTL \in Nat
    /\ CREATIONS \in Nat
    /\ BUCKET_IDLE \in Nat
    /\ MaxNow \in Nat
    /\ MaxCrashes \in Nat
    /\ none \notin [tokens : 0..CREATIONS, updated_at : Nat]

\* an hour brings back a full bucket, so an idle one may be forgotten after an hour
ASSUME IdleAssumption == BUCKET_IDLE >= CREATIONS

VARIABLES
    workspaces,   \* the table: Ids -> row, or none
    issued,       \* history: ids drawn
    created,      \* history: interactive workspaces created
    audits,       \* of a workspace: how many, whether one is live, the last report
    rows,         \* the artifacts table: rows at a path
    files,        \* the artifact root: what a path holds
    locks,        \* WorkspaceLocks._locks
    users,        \* WorkspaceLocks._users; 0 where there is no entry
    request,      \* where each request is
    sweeper,      \* the paths the sweep has yet to unlink, or none
    bucket,       \* the client's creation bucket, or none
    now,
    crashes

vars == <<workspaces, issued, created, audits, rows, files, locks, users, request,
          sweeper, bucket, now, crashes>>

WorkspaceKind == {"interactive", "eval", "observed"}

\* <workspace>/<audit or suite>/<digest>; subject 0 is the draft suite
Paths == Ids \X (0..MaxAudits) \X Docs

WorkspaceRow ==
    [kind : WorkspaceKind, owner : Ids \cup {none}, observes : Ids \cup {none}, seen : Nat]

\* a missing row is no row
ASSUME RowAssumption == none \notin WorkspaceRow

AuditRecord == [count : 0..MaxAudits, live : BOOLEAN, report : Paths \cup {none}]

RequestRecord ==
    [at : {"idle", "resolved", "waiting", "holding", "partial", "written", "reading"},
     workspace : Ids \cup {none}, lock : LockObjects \cup {none}, path : Paths \cup {none}]

Idle == [at |-> "idle", workspace |-> none, lock |-> none, path |-> none]

NoAudit == [count |-> 0, live |-> FALSE, report |-> none]

TypeOK ==
    /\ workspaces \in [Ids -> WorkspaceRow \cup {none}]
    /\ issued \in SUBSET Ids
    /\ created \in Nat
    /\ audits \in [Ids -> AuditRecord]
    /\ rows \in [Paths -> 0..ARTIFACTS_PER_WORKSPACE]
    /\ files \in [Paths -> {"none", "torn", "whole"}]
    /\ locks \in [Ids -> LockObjects \cup {none}]
    /\ users \in [Ids -> Nat]
    /\ request \in [Requests -> RequestRecord]
    /\ sweeper \in (SUBSET Paths) \cup {none}
    /\ bucket \in [tokens : 0..CREATIONS, updated_at : Nat] \cup {none}
    /\ now \in Nat
    /\ crashes \in Nat

Init ==
    /\ workspaces = [i \in Ids |-> none]
    /\ issued = {}
    /\ created = 0
    /\ audits = [i \in Ids |-> NoAudit]
    /\ rows = [p \in Paths |-> 0]
    /\ files = [p \in Paths |-> "none"]
    /\ locks = [i \in Ids |-> none]
    /\ users = [i \in Ids |-> 0]
    /\ request = [r \in Requests |-> Idle]
    /\ sweeper = none
    /\ bucket = none
    /\ now = 0
    /\ crashes = 0

storage == <<rows, files>>

tables == <<workspaces, issued, created, audits>>

memory == <<locks, users>>

rest == <<sweeper, bucket, now, crashes>>

----------------------------------------------------------------------------
\* The creation budget: TokenBucket and RateLimiter

least(a, b) == IF a <= b THEN a ELSE b

\* TokenBucket.take, before the token is taken
refilled(b) ==
    IF b = none
      THEN CREATIONS
      ELSE least(CREATIONS, b.tokens + (now - b.updated_at))

\* allow_workspace_creation: the bucket is created or brought up to date either way
charged(granted) ==
    /\ granted = (refilled(bucket) >= 1)
    /\ bucket' = [tokens |-> refilled(bucket) - (IF granted THEN 1 ELSE 0), updated_at |-> now]

\* slip: every bucket is forgotten, not only the idle ones
forget_all(b) == none

\* RateLimiter.release_idle
release_idle(b) == IF b # none /\ now - b.updated_at > BUCKET_IDLE THEN none ELSE b

----------------------------------------------------------------------------
\* WorkspaceStore

exists(i) == workspaces[i] # none

Row(kind, owner) == [kind |-> kind, owner |-> owner, observes |-> none, seen |-> now]

\* resolve, a cookie that names a workspace: it has been seen
resolve_known(r, i) ==
    /\ request[r].at = "idle"
    /\ exists(i)
    /\ workspaces' = [workspaces EXCEPT ![i].seen = now]
    /\ request' = [request EXCEPT ![r] = [Idle EXCEPT !.at = "resolved", !.workspace = i]]
    /\ UNCHANGED <<issued, created, audits, storage, memory, rest>>

\* resolve, no cookie or one that names nothing: the client is charged
resolve_new(r, i) ==
    /\ request[r].at = "idle"
    /\ i \notin issued
    /\ charged(TRUE)
    /\ workspaces' = [workspaces EXCEPT ![i] = Row("interactive", none)]
    /\ issued' = issued \cup {i}
    /\ created' = created + 1
    /\ request' = [request EXCEPT ![r] = [Idle EXCEPT !.at = "resolved", !.workspace = i]]
    /\ UNCHANGED <<audits, storage, memory, sweeper, now, crashes>>

\* CreationRefused: nothing is created
resolve_refused(r) ==
    /\ request[r].at = "idle"
    /\ charged(FALSE)
    /\ UNCHANGED <<tables, storage, memory, request, sweeper, now, crashes>>

\* create_eval_workspace, for a replay of the owner's regression case
create_eval_workspace(r, i) ==
    /\ request[r].at = "resolved"
    /\ exists(request[r].workspace)
    /\ i \notin issued
    /\ workspaces' = [workspaces EXCEPT ![i] = Row("eval", request[r].workspace)]
    /\ issued' = issued \cup {i}
    /\ request' = [request EXCEPT ![r] = Idle]
    /\ UNCHANGED <<created, audits, storage, memory, rest>>

----------------------------------------------------------------------------
\* WorkspaceLocks

inside(r) == request[r].at \in {"holding", "partial", "written"}

locked(o) == \E r \in Requests : inside(r) /\ request[r].lock = o

unreferenced(o) ==
    /\ \A i \in Ids : locks[i] # o
    /\ \A r \in Requests : request[r].lock # o

\* asyncio.Lock(): which of the unused objects it is makes no difference
new_lock == CHOOSE o \in LockObjects : unreferenced(o)

\* _acquire_reference: counted before the wait, which may be long
acquire_reference(r, o) ==
    LET i == request[r].workspace
    IN  /\ o = IF locks[i] = none THEN new_lock ELSE locks[i]
        /\ locks[i] = none => unreferenced(o)
        /\ locks' = [locks EXCEPT ![i] = o]
        /\ users' = [users EXCEPT ![i] = @ + 1]

\* slip: the entry goes when the lock is released, though others wait for it
forget_on_release(i) ==
    /\ locks' = [locks EXCEPT ![i] = none]
    /\ users' = [users EXCEPT ![i] = 0]

\* _release_reference: the last user takes the entry with it
release_reference(i) ==
    IF users[i] - 1 > 0
      THEN /\ users' = [users EXCEPT ![i] = @ - 1]
           /\ UNCHANGED locks
      ELSE /\ locks' = [locks EXCEPT ![i] = none]
           /\ users' = [users EXCEPT ![i] = 0]

\* hold, up to the wait for the lock
wait(r) ==
    /\ request[r].at = "resolved"
    /\ \E o \in LockObjects :
         /\ acquire_reference(r, o)
         /\ request' = [request EXCEPT ![r].at = "waiting", ![r].lock = o]
    /\ UNCHANGED <<tables, storage, rest>>

acquire(r) ==
    /\ request[r].at = "waiting"
    /\ ~ locked(request[r].lock)
    /\ request' = [request EXCEPT ![r].at = "holding"]
    /\ UNCHANGED <<tables, storage, memory, rest>>

\* the end of hold, however its body ended: the lock, then the reference
leave(r) ==
    /\ release_reference(request[r].workspace)
    /\ request' = [request EXCEPT ![r] = Idle]

\* WORKSPACE_LOCK_TIMEOUT, or the caller has gone; inside, any exception at all
give_up(r) ==
    /\ request[r].at \in {"waiting", "holding", "partial", "written"}
    /\ leave(r)
    /\ UNCHANGED <<tables, storage, rest>>

----------------------------------------------------------------------------
\* Mutations under the lock that write rows only

\* ensure_observed_workspace: one observed workspace each, and never of an observed one
ensure_observed_workspace(r, i) ==
    LET w == request[r].workspace
    IN  /\ request[r].at = "holding"
        /\ exists(w)
        /\ workspaces[w].kind # "observed"
        /\ workspaces[w].observes = none
        /\ i \notin issued
        /\ workspaces' = [workspaces EXCEPT ![i] = Row("observed", w), ![w].observes = i]
        /\ issued' = issued \cup {i}
        /\ leave(r)
        /\ UNCHANGED <<created, audits, storage, rest>>

\* AuditService.assert_authorization: one live audit at a time
assert_authorization(r) ==
    LET w == request[r].workspace
    IN  /\ request[r].at = "holding"
        /\ exists(w)
        /\ ~ audits[w].live
        /\ audits[w].count < MaxAudits
        /\ audits' = [audits EXCEPT ![w].count = @ + 1, ![w].live = TRUE]
        /\ leave(r)
        /\ UNCHANGED <<workspaces, issued, created, storage, rest>>

\* AuditService.cancel
cancel(r) ==
    LET w == request[r].workspace
    IN  /\ request[r].at = "holding"
        /\ audits[w].live
        /\ audits' = [audits EXCEPT ![w].live = FALSE]
        /\ leave(r)
        /\ UNCHANGED <<workspaces, issued, created, storage, rest>>

----------------------------------------------------------------------------
\* ArtifactStore

\* slip: the final name is opened for writing, and so truncated, from the start
write_in_place(p) == files' = [files EXCEPT ![p] = "torn"]

\* _write_atomically, up to the fsync: the bytes are in a file of another name
write_partial(p) == UNCHANGED files

\* submit_audit_evidence: the live audit is read, its report composed
begin_report(r, d) ==
    LET w == request[r].workspace
        p == <<w, audits[w].count, d>>
    IN  /\ request[r].at = "holding"
        /\ audits[w].live
        /\ write_partial(p)
        /\ request' = [request EXCEPT ![r].at = "partial", ![r].path = p]
        /\ UNCHANGED <<tables, rows, memory, rest>>

\* the import of an evaluator's report into a suite that is still a draft
begin_import(r, d) ==
    LET p == <<request[r].workspace, 0, d>>
    IN  /\ request[r].at = "holding"
        /\ exists(request[r].workspace)
        /\ write_partial(p)
        /\ request' = [request EXCEPT ![r].at = "partial", ![r].path = p]
        /\ UNCHANGED <<tables, rows, memory, rest>>

\* os.replace
replace(r) ==
    /\ request[r].at = "partial"
    /\ files' = [files EXCEPT ![request[r].path] = "whole"]
    /\ request' = [request EXCEPT ![r].at = "written"]
    /\ UNCHANGED <<tables, rows, memory, rest>>

artifacts_of(i) == {p \in Paths : p[1] = i}

stored(i) == MapThenSumSet(LAMBDA p : rows[p], artifacts_of(i))

\* slip: the ceiling is not asked
record_uncounted(r) ==
    /\ request[r].at = "written"
    /\ exists(request[r].workspace)
    /\ rows' = [rows EXCEPT ![request[r].path] = @ + 1]
    /\ leave(r)

\* record: the ceiling, then the row; the workspace is a foreign key
record(r) ==
    LET p == request[r].path
        w == request[r].workspace
    IN  /\ request[r].at = "written"
        /\ exists(w)
        /\ stored(w) < ARTIFACTS_PER_WORKSPACE
        /\ rows' = [rows EXCEPT ![p] = @ + 1]
        /\ leave(r)

\* AuditService.complete, in the transaction that records the report
complete_audit(r) ==
    LET p == request[r].path
        w == request[r].workspace
    IN  /\ request[r].at = "written"
        /\ p[2] # 0
        /\ audits[w].live
        /\ audits[w].count = p[2]
        /\ record(r)
        /\ audits' = [audits EXCEPT ![w].live = FALSE, ![w].report = p]
        /\ UNCHANGED <<workspaces, issued, created, files, rest>>

record_import(r) ==
    /\ request[r].at = "written"
    /\ request[r].path[2] = 0
    /\ record(r)
    /\ UNCHANGED <<tables, files, rest>>

\* read_audit_report: the row's path is read, its transaction ends, then the file
stored_reference(r) ==
    LET w == request[r].workspace
    IN  /\ request[r].at = "resolved"
        /\ audits[w].report # none
        /\ request' = [request EXCEPT ![r].at = "reading", ![r].path = audits[w].report]
        /\ UNCHANGED <<tables, storage, memory, rest>>

verified_document(r) ==
    /\ request[r].at = "reading"
    /\ request' = [request EXCEPT ![r] = Idle]
    /\ UNCHANGED <<tables, storage, memory, rest>>

----------------------------------------------------------------------------
\* WorkspaceCleaner

expired ==
    {i \in Ids : exists(i) /\ workspaces[i].kind = "interactive"
                   /\ workspaces[i].seen + TTL < now}

\* ON DELETE CASCADE, through owner_workspace_id: ownership is one level deep
cascade == expired \cup {i \in Ids : exists(i) /\ workspaces[i].owner \in expired}

\* sweep: the rows go in one transaction.  The paths to unlink are read before they
\* do; they are those of the expired workspaces, not of the ones these own.
sweep ==
    /\ sweeper = none
    /\ workspaces' = [i \in Ids |-> IF i \in cascade THEN none ELSE workspaces[i]]
    /\ audits' = [i \in Ids |-> IF i \in cascade THEN NoAudit ELSE audits[i]]
    /\ rows' = [p \in Paths |-> IF p[1] \in cascade THEN 0 ELSE rows[p]]
    /\ sweeper' = {p \in Paths : rows[p] > 0 /\ p[1] \in expired}
    /\ UNCHANGED <<issued, created, files, memory, request, bucket, now, crashes>>

\* _remove_files: one path removed, or one that could not be and is passed over
unlink(p, removed) ==
    /\ sweeper # none
    /\ p \in sweeper
    /\ files' = IF removed THEN [files EXCEPT ![p] = "none"] ELSE files
    /\ sweeper' = sweeper \ {p}
    /\ UNCHANGED <<tables, rows, memory, request, bucket, now, crashes>>

\* run_until: the maintenance hook after the sweep, failed or not, then the wait
on_sweep ==
    /\ sweeper = {}
    /\ sweeper' = none
    /\ bucket' = release_idle(bucket)
    /\ UNCHANGED <<tables, storage, memory, request, now, crashes>>

----------------------------------------------------------------------------
\* Time passes, but no request takes as long as a workspace may be idle
Tick ==
    /\ now < MaxNow
    /\ \A r \in Requests :
         LET w == request[r].workspace
         IN  (w # none /\ workspaces[w] # none) => now < workspaces[w].seen + TTL
    /\ now' = now + 1
    /\ UNCHANGED <<tables, storage, memory, request, sweeper, bucket, crashes>>

\* The process stops at any point and starts again
Crash ==
    /\ crashes < MaxCrashes
    /\ crashes' = crashes + 1
    /\ locks' = [i \in Ids |-> none]
    /\ users' = [i \in Ids |-> 0]
    /\ request' = [r \in Requests |-> Idle]
    /\ sweeper' = none
    /\ bucket' = none
    /\ UNCHANGED <<tables, storage, now>>

Handle(r) ==
    \/ resolve_refused(r)
    \/ \E i \in Ids : \/ resolve_known(r, i)
                      \/ resolve_new(r, i)
                      \/ create_eval_workspace(r, i)
                      \/ ensure_observed_workspace(r, i)
    \/ wait(r) \/ acquire(r) \/ give_up(r)
    \/ assert_authorization(r) \/ cancel(r)
    \/ \E d \in Docs : begin_report(r, d) \/ begin_import(r, d)
    \/ replace(r) \/ complete_audit(r) \/ record_import(r)
    \/ stored_reference(r) \/ verified_document(r)

Clean ==
    \/ sweep
    \/ \E p \in Paths, removed \in BOOLEAN : unlink(p, removed)
    \/ on_sweep

Next ==
    \/ \E r \in Requests : Handle(r)
    \/ Clean
    \/ Tick
    \/ Crash

Spec == Init /\ [][Next]_vars

----------------------------------------------------------------------------
\* Properties

\* One request at a time is inside a workspace's lock, though the lock object is
\* dropped with its last user and made again for the next: nobody waits for an
\* object the table no longer holds while a newcomer is given another.
OneHolder ==
    \A r, s \in Requests :
        (inside(r) /\ inside(s) /\ request[r].workspace = request[s].workspace) => r = s

\* A row always leads to a whole file, whichever writer rewrites the file, wherever
\* the process stops, and while a sweep is under way; a completed audit has its
\* report's row; and a reader who has looked the path up finds the file whole.
SealedReadable ==
    /\ \A p \in Paths : rows[p] > 0 => files[p] = "whole"
    /\ \A i \in Ids : audits[i].report # none => rows[audits[i].report] > 0
    /\ \A r \in Requests : request[r].at = "reading" => files[request[r].path] = "whole"

\* A client that asks for new workspaces gets a burst and one a tick: forgetting its
\* idle bucket never gives it more, and a restart no more than another burst.
CreationsBounded == created <= CREATIONS * (crashes + 1) + now
=================================================================================
