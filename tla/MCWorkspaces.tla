------------------------------ MODULE MCWorkspaces ------------------------------
(***************************************************************************)
(* Two workspaces and three requests.  The requests under way are of one       *)
(* workspace, the other one ages; all three are under way together only for    *)
(* the lock: one inside it, one waiting, one arriving as it is released.  One   *)
(* workspace at a time has files.                                             *)
(***************************************************************************)
EXTENDS Workspaces, TLC

Symmetric == Permutations(Requests) \cup Permutations(Ids)

busy == {r \in Requests : request[r].at # "idle"}

Focus ==
    /\ \A r, s \in busy : request[r].workspace = request[s].workspace
    /\ busy = Requests =>
         \A r \in busy : request[r].at \in {"resolved", "waiting", "holding"}
    /\ \A p, q \in Paths : (files[p] # "none" /\ files[q] # "none") => p[1] = q[1]
=================================================================================
