----------------------------- MODULE NextAction -----------------------------
(***************************************************************************)
(* What to do next, given a queue of issues and leases: leases.py and      *)
(* orchestration.authorize_next_action as operators.  An issue's place in  *)
(* _sort_key is its rank.  An issue's risk, work type and owner flags are  *)
(* whether the policy lets it run alone; the health, cost and provider     *)
(* facts of a call are ctx: whether the common findings are empty with     *)
(* (control) and without (base) the health of the control plane.  Conflict *)
(* domains only matter beside another lease, where both callers have       *)
(* already stopped.                                                        *)
(***************************************************************************)
EXTENDS Integers, FiniteSets

CONSTANTS Issue,
          Rank,              \* the order of _sort_key, by issue
          Autonomous,        \* issues whose risk and owner flags permit autonomous work
          RecoveryType,      \* issues of type "recovery"
          Deps,              \* the dependencies of each issue
          HeartbeatTimeout,  \* DEFAULT_HEARTBEAT_TIMEOUT_MINUTES
          None

ASSUME NextActionAssumption ==
    /\ Rank \in [Issue -> Nat]
    /\ \A i, j \in Issue : Rank[i] = Rank[j] => i = j
    /\ Autonomous \subseteq Issue /\ RecoveryType \subseteq Issue
    /\ Deps \in [Issue -> SUBSET Issue]

Context == [base : BOOLEAN, control : BOOLEAN]

ActiveStates == {"CLAIMED", "IN_PROGRESS", "REVIEW"}
LeasedStates == ActiveStates \cup {"VERIFICATION", "RECOVERY"}

-----------------------------------------------------------------------------
\* lease_freshness_errors finds nothing.
Fresh(lease, now) ==
    /\ lease.status = "ACTIVE"
    /\ lease.expires > now
    /\ lease.beat <= now
    /\ now - lease.beat <= HeartbeatTimeout

\* active_leases: a lease with a late heartbeat still occupies the writer.
Held(leases, now) == {l \in leases : l.status = "ACTIVE" /\ l.expires > now}

Declared(leases) == {l \in leases : l.status = "ACTIVE"}

-----------------------------------------------------------------------------
Resolved(queue, i) ==
    \A d \in Deps[i] : d \in DOMAIN queue.issues /\ queue.issues[d].state = "DONE"

InState(queue, states) ==
    {i \in DOMAIN queue.issues : queue.issues[i].state \in states}

First(issues) == CHOOSE i \in issues : \A j \in issues : Rank[i] <= Rank[j]

Permitted(ctx, i, recovery) ==
    ctx.base /\ (recovery \/ ctx.control) /\ i \in Autonomous

Outcome(action, i) == [action |-> action, issue |-> i]

IsRecovery(queue, i) == queue.issues[i].state = "RECOVERY" \/ i \in RecoveryType

\* Lease and issue name each other, and the workspace both name is at work.
LeaseAgrees(queue, lease, now) ==
    LET i == lease.issue IN
    /\ i \in InState(queue, LeasedStates)
    /\ queue.issues[i].lease = lease.id
    /\ lease.workspace # None
    /\ queue.issues[i].workspace = lease.workspace
    /\ Fresh(lease, now)
    /\ lease.tree = "ACTIVE"

ContinueLease(queue, lease, ctx, now) ==
    IF ~LeaseAgrees(queue, lease, now)
    THEN Outcome("RECONCILE", None)
    ELSE IF Permitted(ctx, lease.issue, IsRecovery(queue, lease.issue))
         THEN Outcome("CONTINUE_EXISTING", lease.issue)
         ELSE Outcome("BLOCKED", lease.issue)

\* REVIEW is already an orphan here; VERIFICATION and RECOVERY come first.
ContinueUnfinished(queue, ctx) ==
    LET i == First(InState(queue, {"REVIEW", "VERIFICATION", "RECOVERY"})) IN
    IF Permitted(ctx, i, IsRecovery(queue, i))
    THEN Outcome("CONTINUE_REVIEW_OR_RECOVERY", i)
    ELSE Outcome("BLOCKED", i)

\* choose_next.
Candidates(queue, ctx) ==
    {i \in InState(queue, {"READY"}) : Resolved(queue, i) /\ Permitted(ctx, i, FALSE)}

ClaimReady(queue, ctx) ==
    IF ~(ctx.base /\ ctx.control) THEN Outcome("BLOCKED", None)
    ELSE IF Candidates(queue, ctx) # {}
         THEN Outcome("CLAIM_ONE_READY", First(Candidates(queue, ctx)))
         ELSE IF InState(queue, {"READY"}) # {} THEN Outcome("BLOCKED", None)
              ELSE Outcome("ROADMAP_COMPLETE_OR_EMPTY", None)

\* authorize_next_action.
AuthorizeNextAction(queue, ctx, now) ==
    LET declared == Declared(queue.leases) IN
    IF Cardinality(declared) > 1 THEN Outcome("RECONCILE", None)
    ELSE IF declared # {}
    THEN ContinueLease(queue, CHOOSE l \in declared : TRUE, ctx, now)
    ELSE IF InState(queue, ActiveStates) # {} THEN Outcome("RECONCILE", None)
    ELSE IF InState(queue, {"VERIFICATION", "RECOVERY"}) # {} THEN ContinueUnfinished(queue, ctx)
    ELSE ClaimReady(queue, ctx)

-----------------------------------------------------------------------------
\* state-machine.json: the moves of an issue.  READY to CLAIMED to IN_PROGRESS
\* is what a claim does at once.
MachineEdges ==
    {<<"BACKLOG", s>> : s \in {"SPECIFIED", "HOLD", "CANCELLED"}} \cup
    {<<"SPECIFIED", s>> : s \in {"READY", "BLOCKED", "HUMAN_REQUIRED", "HOLD", "CANCELLED"}} \cup
    {<<"READY", s>> : s \in {"CLAIMED", "BLOCKED", "HOLD", "HUMAN_REQUIRED", "CANCELLED"}} \cup
    {<<"CLAIMED", s>> : s \in {"IN_PROGRESS", "READY", "BLOCKED", "RECOVERY"}} \cup
    {<<"IN_PROGRESS", s>> : s \in {"REVIEW", "BLOCKED", "HUMAN_REQUIRED", "RECOVERY"}} \cup
    {<<"REVIEW", s>> : s \in {"IN_PROGRESS", "VERIFICATION", "BLOCKED", "RECOVERY"}} \cup
    {<<"VERIFICATION", s>> : s \in {"DONE", "IN_PROGRESS", "BLOCKED", "RECOVERY"}} \cup
    {<<"DONE", "SPECIFIED">>} \cup
    {<<"BLOCKED", s>> : s \in {"SPECIFIED", "READY", "HUMAN_REQUIRED", "HOLD", "CANCELLED", "RECOVERY"}} \cup
    {<<"HOLD", s>> : s \in {"BACKLOG", "SPECIFIED", "READY", "CANCELLED"}} \cup
    {<<"HUMAN_REQUIRED", s>> : s \in {"SPECIFIED", "READY", "BLOCKED", "HOLD", "CANCELLED"}} \cup
    {<<"RECOVERY", s>> : s \in {"IN_PROGRESS", "REVIEW", "VERIFICATION", "DONE", "BLOCKED"}}

\* evaluate_transition: the edge exists and its preconditions are met.
Transition(from, to, met) == <<from, to>> \in MachineEdges /\ met
=============================================================================
