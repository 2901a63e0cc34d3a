------------------------------ MODULE LocalWork ------------------------------
(***************************************************************************)
(* One machine's queue of work: `adwf claim --apply`, `adwf reconcile`,    *)
(* `adwf workspace-create` and the workspace commands of adwf.py, any      *)
(* number at a time, over queue.json (leases.py) and the workspaces.  A    *)
(* claim decides on the queue it read, claims under the queue's lock,      *)
(* creates the workspace under the registry's lock, and takes the claim    *)
(* back when that fails; it may die at any of these points.                *)
(***************************************************************************)
EXTENDS Workspaces

CONSTANT QueueStates  \* the states of state-machine.json that the issues visit

VARIABLES queue,  \* queue.json: the state and lease of each issue, and the leases
          call    \* the command each worker runs

vars == <<registry, tree, lock, clock, queue, call>>
stored == <<registry, tree, lock, clock>>

NoCall == [at |-> "idle"]

Lease ==
    [id : 1..MaxLeases, issue : Issue, worker : Worker, beat : 0..MaxTime,
     expires : 0..MaxTime + Ttl, status : {"ACTIVE", "EXPIRED", "RELEASED"},
     workspace : Issue, tree : {None}]

Call ==
    [at : {"idle"}] \cup [at : {"decided"}, issue : Issue]
    \cup [at : {"claimed", "adding", "failed"}, lease : Lease, hand : BOOLEAN]

\* What a command holds the registry lock for.
LockHolder == [at : {"create"}, lease : Lease] \cup [at : {"cleanup", "removed"}, issue : Issue]

ASSUME LocalWorkAssumption ==
    /\ {MaxActive, MaxRetries, StallTimeout, Ttl, MaxTime, MaxLeases} \subseteq Nat
    /\ None \notin Record \cup LockHolder
    /\ {"READY", "IN_PROGRESS", "RECOVERY"} \subseteq QueueStates

Init ==
    /\ WsInit
    /\ queue = [issues |-> [i \in Issue |-> [state |-> "READY", lease |-> 0, workspace |-> None]],
                leases |-> {}]
    /\ call = [w \in Worker |-> NoCall]

-----------------------------------------------------------------------------
\* Mutant: a lease that is there does not stop a claim.
ClaimableBesideLease(i) ==
    /\ \A l \in Declared(queue.leases) : Fresh(l, clock)
    /\ queue.issues[i].state = "READY"
    /\ Resolved(queue, i)
    /\ i \in Autonomous

\* claim: everything but the order of the roadmap and the policy is checked
\* again on the queue read under the lock.
Claimable(i) ==
    /\ \A l \in Declared(queue.leases) : Fresh(l, clock)
    /\ Held(queue.leases, clock) = {}
    /\ queue.issues[i].state = "READY"
    /\ Resolved(queue, i)
    /\ i \in Autonomous

NewLease(i, w) ==
    [id |-> Cardinality(queue.leases) + 1, issue |-> i, worker |-> w, beat |-> clock,
     expires |-> clock + Ttl, status |-> "ACTIVE", workspace |-> i, tree |-> None]

\* cmd_claim reads the queue and asks what is next.
Decide(w, i, ctx) ==
    /\ call[w] = NoCall
    /\ AuthorizeNextAction(queue, ctx, clock) = Outcome("CLAIM_ONE_READY", i)
    /\ call' = [call EXCEPT ![w] = [at |-> "decided", issue |-> i]]
    /\ UNCHANGED <<stored, queue>>

\* atomic_update(queue_path, claim).
ClaimLocked(w) ==
    /\ call[w].at = "decided"
    /\ LET i == call[w].issue
           lease == NewLease(i, w)
       IN  IF Claimable(i)
           THEN /\ Cardinality(queue.leases) < MaxLeases
                /\ queue' = [issues |-> [queue.issues EXCEPT ![i] =
                                 [state |-> "IN_PROGRESS", lease |-> lease.id, workspace |-> i]],
                             leases |-> queue.leases \cup {lease}]
                /\ call' = [call EXCEPT ![w] = [at |-> "claimed", lease |-> lease, hand |-> FALSE]]
           ELSE call' = [call EXCEPT ![w] = NoCall] /\ UNCHANGED queue
    /\ UNCHANGED stored

\* cmd_workspace_create: somebody hands over a lease file, a copy that says
\* ACTIVE for ever.
CreateByHand(w, lease) ==
    /\ call[w] = NoCall
    /\ call' = [call EXCEPT ![w] =
           [at |-> "claimed", lease |-> [lease EXCEPT !.status = "ACTIVE"], hand |-> TRUE]]
    /\ UNCHANGED <<stored, queue>>

Add(w) ==
    /\ call[w].at = "claimed"
    /\ AddTree(call[w].lease)
    /\ call' = [call EXCEPT ![w].at = "adding"]
    /\ UNCHANGED queue

Save(w) ==
    /\ call[w].at = "adding"
    /\ SaveTree(call[w].lease)
    /\ call' = [call EXCEPT ![w] = NoCall]
    /\ UNCHANGED queue

\* A check of create_workspace, or git, refuses; nothing was added.
Refused(w) ==
    /\ call[w].at = "claimed"
    /\ call' = IF call[w].hand THEN [call EXCEPT ![w] = NoCall]
                              ELSE [call EXCEPT ![w].at = "failed"]
    /\ UNCHANGED <<stored, queue>>

\* The workspace is there already, for this lease: created by hand.
AlreadyActive(w) ==
    /\ call[w].at = "claimed"
    /\ lock = None
    /\ registry[call[w].lease.issue] # None
    /\ registry[call[w].lease.issue].lease = call[w].lease.id
    /\ call' = [call EXCEPT ![w] = NoCall]
    /\ UNCHANGED <<stored, queue>>

\* Mutant: the leases of the issue are released, whoever holds them.
ReleasedOfIssue(leases, lease) ==
    {IF l.issue = lease.issue THEN [l EXCEPT !.status = "RELEASED"] ELSE l : l \in leases}

Released(leases, lease) ==
    {IF l.id = lease.id THEN [l EXCEPT !.status = "RELEASED"] ELSE l : l \in leases}

\* recover: the lease is released and the issue left for recovery.
TakeBack(w) ==
    /\ call[w].at = "failed"
    /\ queue' = [issues |-> [queue.issues EXCEPT ![call[w].lease.issue].state = "RECOVERY"],
                 leases |-> Released(queue.leases, call[w].lease)]
    /\ call' = [call EXCEPT ![w] = NoCall]
    /\ UNCHANGED stored

Die(w) ==
    /\ call[w] # NoCall
    /\ call' = [call EXCEPT ![w] = NoCall]
    /\ lock' = IF call[w].at = "adding" THEN None ELSE lock
    /\ UNCHANGED <<registry, tree, clock, queue>>

-----------------------------------------------------------------------------
Stale(l) == l.status = "ACTIVE" /\ ~Fresh(l, clock)

\* cmd_reconcile --apply: leases.reconcile on the queue read under the lock.
ReconcileQueue ==
    /\ \E l \in queue.leases : Stale(l)
    /\ LET lost == {l.issue : l \in {k \in queue.leases : Stale(k)}} IN
       queue' = [issues |-> [i \in Issue |->
                     IF i \in lost /\ queue.issues[i].state \in {"IN_PROGRESS", "REVIEW", "VERIFICATION"}
                     THEN [queue.issues[i] EXCEPT !.state = "RECOVERY"] ELSE queue.issues[i]],
                 leases |-> {IF Stale(l) THEN [l EXCEPT !.status = "EXPIRED"] ELSE l
                               : l \in queue.leases}]
    /\ UNCHANGED <<stored, call>>

\* Whoever keeps queue.json moves an issue along the state machine; review
\* needs a live lease and READY again a lease that is gone.
MoveIssue(i, s) ==
    LET from == queue.issues[i].state
        leased == \E l \in Declared(queue.leases) : l.issue = i
    IN  /\ s \in QueueStates
        /\ Transition(from, s, (s = "REVIEW" => leased) /\ (s = "READY" => ~leased))
        /\ queue' = [queue EXCEPT !.issues[i].state = s]
        /\ UNCHANGED <<stored, call>>

Tick ==
    /\ clock < MaxTime
    /\ clock' = clock + 1
    /\ UNCHANGED <<registry, tree, lock, queue, call>>

Next ==
    \/ \E w \in Worker :
         \/ \E i \in Issue, ctx \in Context : Decide(w, i, ctx)
         \/ \E l \in queue.leases : CreateByHand(w, l)
         \/ ClaimLocked(w) \/ Add(w) \/ Save(w)
         \/ AlreadyActive(w) \/ Refused(w) \/ TakeBack(w) \/ Die(w)
    \/ WsNext /\ UNCHANGED <<queue, call>>
    \/ ReconcileQueue
    \/ \E i \in Issue, s \in QueueStates : MoveIssue(i, s)
    \/ Tick

Spec == Init /\ [][Next]_vars

-----------------------------------------------------------------------------
TypeOK ==
    /\ registry \in [Issue -> Record \cup {None}]
    /\ tree \in [Issue -> {"none", "clean", "dirty"}]
    /\ lock \in LockHolder \cup {None}
    /\ clock \in 0..MaxTime
    /\ queue \in [issues : [Issue -> [state : QueueStates, lease : 0..MaxLeases,
                                      workspace : Issue \cup {None}]],
                  leases : SUBSET Lease]
    /\ call \in [Worker -> Call]

\* However many claims decide on the queue they read before its lock, at most
\* one lease is ACTIVE, and the issue it is for carries its id (leases.claim,
\* one_active_writer).
OneWriter ==
    /\ Cardinality(Declared(queue.leases)) <= 1
    /\ \A l \in Declared(queue.leases) : queue.issues[l.issue].lease = l.id

\* No more worktrees are bound to writers than config allows, stalled and
\* retried ones counted, and no two commands are between git and the registry
\* (create_workspace).
OneWorkspace == Cardinality(InUse \cup {call[w].lease.issue : w \in {v \in Worker : call[v].at = "adding"}})
                  <= MaxActive

\* config.json max_parallel_writers = 1: one lease and one worktree at a time,
\* although queue, registry and git are three stores with their own locks.
OneAtWork == OneWriter /\ OneWorkspace

\* Work that was not committed is never removed with its worktree, however the
\* agent's writes fall between the check and the removal (cleanup_workspace,
\* "--force" is forbidden).
UnsavedWorkKept == [][\A i \in Issue : tree[i] = "dirty" => tree'[i] # "none"]_vars

\* A live lease is only lost to time or to the claim that made it: the claim
\* that fails late does not release its successor's (cmd_claim.recover).
LeaseLostByRight ==
    [][\A l \in Declared(queue.leases) :
         \/ \E k \in Declared(queue'.leases) : k.id = l.id
         \/ Stale(l)
         \/ call[l.worker].at = "failed" /\ call[l.worker].lease.id = l.id]_vars
=============================================================================
