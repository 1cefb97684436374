----------------------------- MODULE Permissions -----------------------------
(***************************************************************************)
(* PermissionManager (src/coolbox/utils/security/permissions.py) and the   *)
(* copy of the grants its supervisor keeps (plugins/worker.py).  Plugins   *)
(* request, the security center decides and refreshes its snapshot, uses   *)
(* are recorded and workers come and go, each under the manager's lock.    *)
(*                                                                         *)
(* Instants are left out: an expiry is running or over, a last use recent  *)
(* or older than auto_downgrade_after, and time may turn one into the      *)
(* other at any moment.                                                    *)
(***************************************************************************)
CONSTANTS Worker, Capability

VARIABLES
  registered,  \* _registrations
  grants,      \* _grants: worker -> capability -> its grant, or NoGrant
  pending,     \* _pending: pairs of worker and capability
  supervised,  \* whether a supervisor is bound
  applied,     \* the supervisor's _applied_permissions, "none" where it has no entry
  basis,       \* history: what the present state of a grant rests on
  orphaned     \* history: workers unregistered since the supervisor last heard of them

permissionVars == <<registered, grants, pending, supervised, applied, basis, orphaned>>

States == {"allowed", "pending", "downgraded", "revoked"}
Decisions == {"allow_once", "allow_always", "allow_temporary", "downgrade", "revoke"}
Grant == [state : States, pending : BOOLEAN, once : BOOLEAN,
          expiry : {"none", "running", "over"}, used : {"never", "recent", "long ago"}]
NoGrant == [state |-> "none", pending |-> FALSE, once |-> FALSE,
            expiry |-> "none", used |-> "never"]
Fresh == [state |-> "allowed", pending |-> FALSE, once |-> FALSE,
          expiry |-> "none", used |-> "never"]

Held(w) == {c \in Capability : grants[w][c] # NoGrant}

PermissionInit ==
  /\ registered = {} /\ grants = [w \in Worker |-> [c \in Capability |-> NoGrant]]
  /\ pending = {} /\ supervised = FALSE
  /\ applied = [w \in Worker |-> [c \in Capability |-> "none"]]
  /\ basis = [w \in Worker |-> [c \in Capability |-> "none"]] /\ orphaned = {}

\* _ensure_grant(): a grant nobody decided about is an allowed one
Ensured(w, c) == IF grants[w][c] = NoGrant THEN Fresh ELSE grants[w][c]
Based(w, c) == IF grants[w][c] = NoGrant THEN "declared" ELSE basis[w][c]

NotifyAdded(ws) ==                        \* mutant of Notify
  IF supervised
  THEN /\ applied' = [w \in Worker |-> IF w \in ws
                        THEN [c \in Capability |-> IF applied[w][c] # "none" THEN applied[w][c]
                                                   ELSE grants'[w][c].state]
                        ELSE applied[w]]
       /\ orphaned' = orphaned \ ws
  ELSE UNCHANGED <<applied, orphaned>>

\* _notify_supervisor_locked() replaces what the supervisor holds of a worker
Notify(ws) ==
  IF supervised
  THEN /\ applied' = [w \in Worker |-> IF w \in ws
                        THEN [c \in Capability |-> grants'[w][c].state]
                        ELSE applied[w]]
       /\ orphaned' = orphaned \ ws
  ELSE UNCHANGED <<applied, orphaned>>

-----------------------------------------------------------------------------
Register(w, requires) ==
  /\ registered' = registered \union {w}
  /\ grants' = [grants EXCEPT ![w] = [c \in Capability |->
                  IF c \in requires THEN Ensured(w, c) ELSE grants[w][c]]]
  /\ basis' = [basis EXCEPT ![w] = [c \in Capability |->
                  IF c \in requires THEN Based(w, c) ELSE basis[w][c]]]
  /\ UNCHANGED <<pending, supervised, applied, orphaned>>

\* the supervisor is not told
Unregister(w) ==
  /\ registered' = registered \ {w}
  /\ grants' = [grants EXCEPT ![w] = [c \in Capability |-> NoGrant]]
  /\ basis' = [basis EXCEPT ![w] = [c \in Capability |-> "none"]]
  /\ pending' = {r \in pending : r[1] # w}
  /\ orphaned' = orphaned \union {w}
  /\ UNCHANGED <<supervised, applied>>

\* a new supervisor, or the clear() of the one that is bound
BindSupervisor ==
  /\ supervised' = TRUE /\ orphaned' = {}
  /\ applied' = [w \in Worker |-> [c \in Capability |-> "none"]]
  /\ UNCHANGED <<registered, grants, pending, basis>>

\* once and expiry are kept, the supervisor is not told
Request(w, c) ==
  /\ grants' = [grants EXCEPT ![w][c] = [Ensured(w, c) EXCEPT !.pending = TRUE, !.state = "pending"]]
  /\ basis' = [basis EXCEPT ![w][c] = Based(w, c)]
  /\ pending' = pending \union {<<w, c>>}
  /\ UNCHANGED <<registered, supervised, applied, orphaned>>

Decided(g, d) ==
  [g EXCEPT !.pending = FALSE,
            !.state = CASE d = "downgrade" -> "downgraded" [] d = "revoke" -> "revoked"
                        [] OTHER -> "allowed",
            !.once = d = "allow_once",
            !.expiry = IF d = "allow_temporary" THEN "running" ELSE "none"]

Resolve(w, c, d) ==
  /\ grants' = [grants EXCEPT ![w][c] = Decided(Ensured(w, c), d)]
  /\ basis' = [basis EXCEPT ![w][c] = d]
  /\ pending' = pending \ {<<w, c>>}
  /\ Notify({w})
  /\ UNCHANGED <<registered, supervised>>

\* an unknown decision raises after it has dropped the request
ResolveRaises(w, c) ==
  /\ grants' = [grants EXCEPT ![w][c] = [Ensured(w, c) EXCEPT !.pending = FALSE]]
  /\ basis' = [basis EXCEPT ![w][c] = Based(w, c)]
  /\ pending' = pending \ {<<w, c>>}
  /\ UNCHANGED <<registered, supervised, applied, orphaned>>

UsedUp(g) == g.once \/ g.expiry = "over"

RecordActivity(w, c) ==
  LET g == Ensured(w, c)
  IN /\ grants' = [grants EXCEPT ![w][c] = [g EXCEPT !.used = "recent", !.once = FALSE,
           !.state = IF UsedUp(g) THEN "revoked" ELSE @,
           !.expiry = IF @ = "over" THEN "none" ELSE @]]
     /\ basis' = [basis EXCEPT ![w][c] = IF UsedUp(g) THEN "none" ELSE Based(w, c)]
     /\ Notify({w})
     /\ UNCHANGED <<registered, pending, supervised>>

\* _expire_inactive_locked() for one grant: what is pending waits
Swept(g) ==
  IF g = NoGrant \/ g.pending THEN g
  ELSE IF g.expiry = "over" THEN [g EXCEPT !.state = "revoked", !.expiry = "none"]
  ELSE IF g.used = "long ago" /\ g.state = "allowed" THEN [g EXCEPT !.state = "downgraded"]
  ELSE g

Snapshot ==
  LET swept == [w \in Worker |-> [c \in Capability |-> Swept(grants[w][c])]]
      dirty == {w \in Worker : \E c \in Held(w) : swept[w][c].state # grants[w][c].state}
  IN /\ grants' = swept
     /\ basis' = [w \in Worker |-> [c \in Capability |->
          IF grants[w][c] # swept[w][c] THEN "none" ELSE basis[w][c]]]
     /\ Notify(dirty)
     /\ UNCHANGED <<registered, pending, supervised>>

\* time passes for one grant
Expire(w, c) ==
  /\ c \in Held(w) /\ grants[w][c].expiry = "running"
  /\ grants' = [grants EXCEPT ![w][c].expiry = "over"]
  /\ UNCHANGED <<registered, pending, supervised, applied, basis, orphaned>>
Idle(w, c) ==
  /\ c \in Held(w) /\ grants[w][c].used = "recent"
  /\ grants' = [grants EXCEPT ![w][c].used = "long ago"]
  /\ UNCHANGED <<registered, pending, supervised, applied, basis, orphaned>>

PermissionNext ==
  \/ BindSupervisor \/ Snapshot
  \/ \E w \in Worker :
       \/ Unregister(w) \/ \E requires \in SUBSET Capability : Register(w, requires)
       \/ \E c \in Capability :
            \/ Request(w, c) \/ ResolveRaises(w, c) \/ RecordActivity(w, c)
            \/ Expire(w, c) \/ Idle(w, c)
            \/ \E d \in Decisions : Resolve(w, c, d)
PermissionSpec == PermissionInit /\ [][PermissionNext]_permissionVars

-----------------------------------------------------------------------------
Basis == Decisions \union {"declared", "none"}
PermissionTypeOK ==
  /\ registered \subseteq Worker /\ orphaned \subseteq Worker /\ supervised \in BOOLEAN
  /\ grants \in [Worker -> [Capability -> Grant \union {NoGrant}]]
  /\ pending \subseteq Worker \X Capability
  /\ applied \in [Worker -> [Capability -> States \union {"none"}]]
  /\ basis \in [Worker -> [Capability -> Basis]]

\* The set pending_count() counts and the flags of the grants the security
\* center lists as pending requests name the same requests.
RequestsAgree ==
  \A w \in Worker, c \in Capability :
    <<w, c>> \in pending <=> c \in Held(w) /\ grants[w][c].pending

\* An allowance that must end carries what ends it: it rests on a declaration,
\* an unlimited decision, one unspent use or an expiry that is still set,
\* whatever requests, failed decisions and sweeps came in between.
AllowanceHasBasis ==
  \A w \in Worker : \A c \in Held(w) : grants[w][c].state = "allowed" =>
    \/ basis[w][c] \in {"declared", "allow_always"}
    \/ basis[w][c] = "allow_once" /\ grants[w][c].once
    \/ basis[w][c] = "allow_temporary" /\ grants[w][c].expiry # "none"

\* What the supervisor holds of a worker that has not been unregistered since
\* is what the manager holds, but for a request that came after it.
CopyFollows ==
  \A w \in Worker \ orphaned, c \in Capability : applied[w][c] # "none" =>
    c \in Held(w) /\ (grants[w][c].state \in {applied[w][c], "pending"})

PermissionsInv == PermissionTypeOK /\ RequestsAgree /\ AllowanceHasBasis /\ CopyFollows

=============================================================================
