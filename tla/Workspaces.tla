----------------------------- MODULE Workspaces -----------------------------
(***************************************************************************)
(* Git worktrees of writers (.adwf/lib/workspaces.py): the registry file   *)
(* under its lock, and the worktree directories on disk.  A workspace is   *)
(* named by its issue.  A CLEANED record is never looked at again: an      *)
(* issue's record is None then.  Creation and cleanup run git between      *)
(* reading the registry and saving it, so either may die in between; the   *)
(* other commands only rewrite the file.                                   *)
(***************************************************************************)
EXTENDS NextAction

CONSTANTS Worker,
          MaxActive,      \* config max_active
          MaxRetries,     \* config max_retries
          StallTimeout,   \* config stall_timeout_minutes
          Ttl,            \* minutes a claim grants
          MaxTime,        \* bound on the clock
          MaxLeases       \* bound on the leases of the queue

VARIABLES registry,  \* .adwf-runtime/workspaces.json: the record of each issue, or None
          tree,      \* the worktree directory of each issue: none, clean or dirty
          lock,      \* the command that holds the registry lock across git, or None
          clock

Occupying == {"ACTIVE", "STALLED", "RETRY_WAIT", "RETRY_READY", "RECOVERY"}

Record ==
    [lease : 1..MaxLeases, worker : Worker, status : Occupying \cup {"COMPLETED"},
     beat : 0..MaxTime, expires : 0..MaxTime + Ttl, retries : 0..MaxRetries]

InUse == {i \in Issue : registry[i] # None /\ registry[i].status \in Occupying}

SetStatus(i, s) == registry' = [registry EXCEPT ![i].status = s]

WsInit ==
    /\ registry = [i \in Issue |-> None]
    /\ tree = [i \in Issue |-> "none"]
    /\ lock = None
    /\ clock = 0

-----------------------------------------------------------------------------

\* create_workspace: the checks of transform, in one reading of the registry.
CanCreate(i) ==
    /\ registry[i] = None
    /\ Cardinality(InUse) < MaxActive
    /\ tree[i] = "none"

\* git worktree add.
AddTree(lease) ==
    /\ lock = None
    /\ CanCreate(lease.issue)
    /\ tree' = [tree EXCEPT ![lease.issue] = "clean"]
    /\ lock' = [at |-> "create", lease |-> lease]
    /\ UNCHANGED <<registry, clock>>

\* The record is saved with the lease's own expiry.
SaveTree(lease) ==
    /\ lock = [at |-> "create", lease |-> lease]
    /\ registry' = [registry EXCEPT ![lease.issue] =
           [lease |-> lease.id, worker |-> lease.worker, status |-> "ACTIVE",
            beat |-> clock, expires |-> lease.expires, retries |-> 0]]
    /\ lock' = None
    /\ UNCHANGED <<tree, clock>>

-----------------------------------------------------------------------------
\* heartbeat_workspace.
HeartbeatWorkspace(i, w) ==
    /\ lock = None
    /\ registry[i] # None
    /\ registry[i].worker = w
    /\ registry[i].status \in {"ACTIVE", "RETRY_READY"}
    /\ registry' = [registry EXCEPT ![i].status = "ACTIVE", ![i].beat = clock]
    /\ UNCHANGED <<tree, lock, clock>>

Stalled(r) == clock - r.beat > StallTimeout \/ r.expires <= clock

\* reconcile_workspaces --apply; whether a retry is due is seconds, not ticks.
Reconciled(i, due) ==
    LET r == registry[i] IN
    IF r = None THEN r
    ELSE IF r.status = "ACTIVE" /\ tree[i] = "none" THEN [r EXCEPT !.status = "RECOVERY"]
    ELSE IF r.status = "ACTIVE" /\ Stalled(r) THEN [r EXCEPT !.status = "STALLED"]
    ELSE IF r.status = "RETRY_WAIT" /\ due THEN [r EXCEPT !.status = "RETRY_READY"]
    ELSE r

ReconcileWorkspaces(due) ==
    /\ lock = None
    /\ registry' = [i \in Issue |-> Reconciled(i, due)]
    /\ registry' # registry
    /\ UNCHANGED <<tree, lock, clock>>

MayRetry(r) == r.retries < MaxRetries

\* schedule_retry; at the limit the workspace stays in recovery.
ScheduleRetry(i) ==
    /\ lock = None
    /\ registry[i] # None
    /\ registry[i].status \in {"STALLED", "RECOVERY"}
    /\ IF MayRetry(registry[i])
       THEN registry' = [registry EXCEPT ![i].status = "RETRY_WAIT", ![i].retries = @ + 1]
       ELSE SetStatus(i, "RECOVERY")
    /\ UNCHANGED <<tree, lock, clock>>

\* complete_workspace: from any status, once git finds nothing to save.
CompleteWorkspace(i) ==
    /\ lock = None
    /\ registry[i] # None
    /\ tree[i] = "clean"
    /\ SetStatus(i, "COMPLETED")
    /\ UNCHANGED <<tree, lock, clock>>

-----------------------------------------------------------------------------
\* cleanup_workspace --apply: the status is read, and git status finds nothing.
BeginCleanup(i) ==
    /\ lock = None
    /\ registry[i] # None
    /\ registry[i].status = "COMPLETED"
    /\ tree[i] = "clean"
    /\ lock' = [at |-> "cleanup", issue |-> i]
    /\ UNCHANGED <<registry, tree, clock>>

\* Mutant: git worktree remove --force.
GitRemovesForced(i) == tree[i] # "none"

\* git worktree remove refuses a tree with unsaved work.
GitRemoves(i) == tree[i] = "clean"

RemoveTree(i) ==
    /\ lock = [at |-> "cleanup", issue |-> i]
    /\ IF GitRemoves(i)
       THEN /\ tree' = [tree EXCEPT ![i] = "none"]
            /\ lock' = [at |-> "removed", issue |-> i]
       ELSE lock' = None /\ UNCHANGED tree
    /\ UNCHANGED <<registry, clock>>

SaveCleanup(i) ==
    /\ lock = [at |-> "removed", issue |-> i]
    /\ registry' = [registry EXCEPT ![i] = None]
    /\ lock' = None
    /\ UNCHANGED <<tree, clock>>

\* A command that dies releases the lock and saves nothing.
CleanupDies ==
    /\ lock # None /\ lock.at \in {"cleanup", "removed"}
    /\ lock' = None
    /\ UNCHANGED <<registry, tree, clock>>

-----------------------------------------------------------------------------
\* The agent works in the tree whatever the registry says.
EditTree(i) ==
    /\ tree[i] = "clean"
    /\ tree' = [tree EXCEPT ![i] = "dirty"]
    /\ UNCHANGED <<registry, lock, clock>>

CommitTree(i) ==
    /\ tree[i] = "dirty"
    /\ tree' = [tree EXCEPT ![i] = "clean"]
    /\ UNCHANGED <<registry, lock, clock>>

WsNext ==
    \/ \E i \in Issue :
         \/ \E w \in Worker : HeartbeatWorkspace(i, w)
         \/ ScheduleRetry(i) \/ CompleteWorkspace(i)
         \/ BeginCleanup(i) \/ RemoveTree(i) \/ SaveCleanup(i)
         \/ EditTree(i) \/ CommitTree(i)
    \/ \E due \in BOOLEAN : ReconcileWorkspaces(due)
    \/ CleanupDies
=============================================================================
