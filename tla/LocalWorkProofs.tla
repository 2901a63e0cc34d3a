--------------------------- MODULE LocalWorkProofs ---------------------------
(***************************************************************************)
(* The queue and the workspaces of one machine for any number of workers,  *)
(* issues, leases and workspace slots.  Three stores with their own locks  *)
(* are related through the calls that are on their way between them, so    *)
(* the inductive invariant speaks about those calls.  Behind them, what    *)
(* the managed surface promises the consumer of a package, for any         *)
(* manifest, any number of edits, deaths and failures: the survival of its *)
(* bytes for any number of operators, the truth of every status for calls  *)
(* that come one after another.                                            *)
(***************************************************************************)
EXTENDS LocalWork, ManagedSurface, FiniteSetTheorems, TLAPS

-----------------------------------------------------------------------------
(* Type correctness.                                                       *)

Carrying == [at : {"claimed", "adding", "failed"}, lease : Lease, hand : BOOLEAN]

LEMMA CallType ==
    ASSUME TypeOK, NEW w \in Worker
    PROVE  /\ call[w].at = "decided" => call[w].issue \in Issue
           /\ call[w].at \in {"claimed", "adding", "failed"} => call[w] \in Carrying
  BY DEF TypeOK, Call, Carrying

\* A call changes its stage and keeps the lease it carries.
LEMMA StageType ==
    ASSUME NEW c \in Carrying, NEW s \in {"claimed", "adding", "failed"}
    PROVE  /\ [c EXCEPT !.at = s] \in Carrying
           /\ [c EXCEPT !.at = s].at = s
           /\ [c EXCEPT !.at = s].lease = c.lease
           /\ [c EXCEPT !.at = s].hand = c.hand
  BY DEF Carrying

LEMMA CallKeepsType ==
    ASSUME TypeOK, NEW w \in Worker, NEW c \in Call, call' = [call EXCEPT ![w] = c]
    PROVE  call' \in [Worker -> Call]
  BY DEF TypeOK

LEMMA NewLeaseType ==
    ASSUME TypeOK, NEW i \in Issue, NEW w \in Worker, IsFiniteSet(queue.leases),
           Cardinality(queue.leases) < MaxLeases
    PROVE  /\ NewLease(i, w) \in Lease
           /\ NewLease(i, w).id = Cardinality(queue.leases) + 1
           /\ NewLease(i, w).worker = w /\ NewLease(i, w).issue = i
<1>1. Cardinality(queue.leases) \in Nat
  BY FS_CardinalityType
<1>2. Cardinality(queue.leases) + 1 \in 1..MaxLeases
  BY <1>1, LocalWorkAssumption
<1>3. clock + Ttl \in 0..MaxTime + Ttl
  BY LocalWorkAssumption DEF TypeOK
<1>4. QED
  BY <1>2, <1>3 DEF NewLease, Lease, TypeOK

\* The lease of a rewritten queue.
LEMMA ReleasedType ==
    ASSUME NEW L \in SUBSET Lease, NEW lease
    PROVE  Released(L, lease) \subseteq Lease
<1>1. \A l \in L : [l EXCEPT !.status = "RELEASED"] \in Lease
  BY DEF Lease
<1>2. QED
  BY <1>1 DEF Released

Reconciling == {IF Stale(l) THEN [l EXCEPT !.status = "EXPIRED"] ELSE l : l \in queue.leases}

LEMMA ReconcilingType ==
    ASSUME TypeOK
    PROVE  Reconciling \subseteq Lease
<1>1. queue.leases \subseteq Lease
  BY DEF TypeOK
<1>2. \A l \in queue.leases : [l EXCEPT !.status = "EXPIRED"] \in Lease
  BY <1>1 DEF Lease
<1>3. QED
  BY <1>1, <1>2 DEF Reconciling

\* The commands on the workspaces keep the types.
WsTypes ==
    /\ registry \in [Issue -> Record \cup {None}]
    /\ tree \in [Issue -> {"none", "clean", "dirty"}]
    /\ lock \in LockHolder \cup {None}
    /\ clock \in 0..MaxTime

LEMMA StatusType ==
    ASSUME NEW r \in Record, NEW s \in Occupying \cup {"COMPLETED"}, NEW t \in 0..MaxTime,
           NEW n \in 0..MaxRetries
    PROVE  /\ [r EXCEPT !.status = s] \in Record
           /\ [r EXCEPT !.status = s, !.beat = t] \in Record
           /\ [r EXCEPT !.status = s, !.retries = n] \in Record
           /\ [r EXCEPT !.status = s].status = s
           /\ [r EXCEPT !.status = s, !.beat = t].status = s
           /\ [r EXCEPT !.status = s, !.retries = n].status = s
  BY DEF Record

LEMMA WsTypeStep ==
    ASSUME WsTypes, WsNext
    PROVE  WsTypes'
<1> USE LocalWorkAssumption
<1>1. ASSUME NEW i \in Issue, NEW w \in Worker, HeartbeatWorkspace(i, w) PROVE WsTypes'
  <2>1. registry[i] \in Record
    BY <1>1 DEF HeartbeatWorkspace, WsTypes
  <2>2. [registry[i] EXCEPT !.status = "ACTIVE", !.beat = clock] \in Record
    BY <2>1, StatusType DEF WsTypes, Occupying, Record
  <2>3. registry' = [registry EXCEPT ![i] = [registry[i] EXCEPT !.status = "ACTIVE", !.beat = clock]]
    BY <1>1, <2>1 DEF HeartbeatWorkspace, WsTypes, Record
  <2>4. QED
    BY <1>1, <2>2, <2>3 DEF HeartbeatWorkspace, WsTypes
<1>2. ASSUME NEW i \in Issue, ScheduleRetry(i) PROVE WsTypes'
  <2> DEFINE r == registry[i]
  <2>1. r \in Record
    BY <1>2 DEF ScheduleRetry, WsTypes
  <2>2. CASE MayRetry(r)
    <3>1. r.retries + 1 \in 0..MaxRetries
      BY <2>1, <2>2 DEF MayRetry, Record
    <3>2. [r EXCEPT !.status = "RETRY_WAIT", !.retries = r.retries + 1] \in Record
      BY <2>1, <3>1 DEF Occupying, Record
    <3>3. registry' = [registry EXCEPT ![i] =
                          [r EXCEPT !.status = "RETRY_WAIT", !.retries = r.retries + 1]]
      BY <1>2, <2>1, <2>2 DEF ScheduleRetry, WsTypes, Record
    <3>4. QED
      BY <1>2, <3>2, <3>3 DEF ScheduleRetry, WsTypes
  <2>3. CASE ~MayRetry(r)
    <3>1. [r EXCEPT !.status = "RECOVERY"] \in Record
      BY <2>1 DEF Occupying, Record
    <3>2. registry' = [registry EXCEPT ![i] = [r EXCEPT !.status = "RECOVERY"]]
      BY <1>2, <2>1, <2>3 DEF ScheduleRetry, SetStatus, WsTypes, Record
    <3>3. QED
      BY <1>2, <3>1, <3>2 DEF ScheduleRetry, WsTypes
  <2>4. QED
    BY <2>2, <2>3
<1>3. ASSUME NEW i \in Issue, CompleteWorkspace(i) PROVE WsTypes'
  <2>1. registry[i] \in Record
    BY <1>3 DEF CompleteWorkspace, WsTypes
  <2>2. [registry[i] EXCEPT !.status = "COMPLETED"] \in Record
    BY <2>1 DEF Record
  <2>3. registry' = [registry EXCEPT ![i] = [registry[i] EXCEPT !.status = "COMPLETED"]]
    BY <1>3, <2>1 DEF CompleteWorkspace, SetStatus, WsTypes, Record
  <2>4. QED
    BY <1>3, <2>2, <2>3 DEF CompleteWorkspace, WsTypes
<1>4. ASSUME NEW i \in Issue,
             BeginCleanup(i) \/ RemoveTree(i) \/ SaveCleanup(i) \/ EditTree(i) \/ CommitTree(i)
      PROVE  WsTypes'
  BY <1>4 DEF BeginCleanup, RemoveTree, SaveCleanup, EditTree, CommitTree, WsTypes, LockHolder
<1>5. ASSUME NEW due \in BOOLEAN, ReconcileWorkspaces(due) PROVE WsTypes'
  <2>1. ASSUME NEW i \in Issue PROVE Reconciled(i, due) \in Record \cup {None}
    <3>1. registry[i] \in Record \cup {None}
      BY DEF WsTypes
    <3>2. registry[i] \in Record =>
             \A s \in {"RECOVERY", "STALLED", "RETRY_READY"} :
                [registry[i] EXCEPT !.status = s] \in Record
      BY DEF Occupying, Record
    <3>3. QED
      BY <3>1, <3>2 DEF Reconciled
  <2>2. QED
    BY <1>5, <2>1 DEF ReconcileWorkspaces, WsTypes
<1>6. ASSUME CleanupDies PROVE WsTypes'
  BY <1>6 DEF CleanupDies, WsTypes
<1>7. QED
  BY <1>1, <1>2, <1>3, <1>4, <1>5, <1>6 DEF WsNext

-----------------------------------------------------------------------------
(* The queue: its leases, and the calls that still own one.                *)

\* Leases are numbered in the order they were granted.
Numbered(L) ==
    /\ IsFiniteSet(L)
    /\ \A l \in L : l.id <= Cardinality(L)
    /\ \A k, l \in L : k.id = l.id => k = l

\* A rewrite that keeps the numbers keeps the order.
LEMMA RewriteNumbered ==
    ASSUME NEW L \in SUBSET Lease, Numbered(L), NEW f \in [L -> Lease],
           \A l \in L : f[l].id = l.id
    PROVE  LET M == {f[l] : l \in L}
           IN  Numbered(M) /\ Cardinality(M) = Cardinality(L)
<1> DEFINE M == {f[l] : l \in L}
<1>1. f \in [L -> M] /\ \A m \in M : \E l \in L : f[l] = m
  OBVIOUS
<1>2. \A k, l \in L : f[k] = f[l] => k = l
  BY DEF Numbered
<1>3. f \in Bijection(L, M)
  BY <1>1, <1>2 DEF Bijection, Injection, Surjection, IsInjective
<1>4. IsFiniteSet(M) /\ Cardinality(M) = Cardinality(L)
  BY <1>3, FS_Bijection DEF ExistsBijection, Numbered
<1>5. \A m \in M : m.id <= Cardinality(M)
  BY <1>4 DEF Numbered
<1>6. \A k, l \in M : k.id = l.id => k = l
  BY DEF Numbered
<1>7. QED
  BY <1>4, <1>5, <1>6 DEF Numbered

LEMMA ReleasedNumbered ==
    ASSUME NEW L \in SUBSET Lease, Numbered(L), NEW lease
    PROVE  /\ Numbered(Released(L, lease)) /\ Cardinality(Released(L, lease)) = Cardinality(L)
           /\ \A k \in Released(L, lease) :
                  \E l \in L : /\ k.id = l.id /\ k.worker = l.worker /\ k.issue = l.issue
                               /\ k.status = "ACTIVE" => k = l
<1> DEFINE f == [l \in L |-> IF l.id = lease.id THEN [l EXCEPT !.status = "RELEASED"] ELSE l]
<1>1. \A l \in L : /\ [l EXCEPT !.status = "RELEASED"] \in Lease
                   /\ [l EXCEPT !.status = "RELEASED"].id = l.id
                   /\ [l EXCEPT !.status = "RELEASED"].worker = l.worker
                   /\ [l EXCEPT !.status = "RELEASED"].issue = l.issue
                   /\ [l EXCEPT !.status = "RELEASED"].status = "RELEASED"
  BY DEF Lease
<1>2. f \in [L -> Lease] /\ \A l \in L : f[l].id = l.id
  BY <1>1
<1>3. Released(L, lease) = {f[l] : l \in L}
  BY DEF Released
<1>4. \A k \in Released(L, lease) :
          \E l \in L : /\ k.id = l.id /\ k.worker = l.worker /\ k.issue = l.issue
                       /\ k.status = "ACTIVE" => k = l
  BY <1>1 DEF Released
<1> HIDE DEF f
<1>5. QED
  BY <1>2, <1>3, <1>4, RewriteNumbered

LEMMA ReconcilingNumbered ==
    ASSUME TypeOK, Numbered(queue.leases)
    PROVE  /\ Numbered(Reconciling) /\ Cardinality(Reconciling) = Cardinality(queue.leases)
           /\ \A k \in Reconciling :
                  \E l \in queue.leases : /\ k.id = l.id /\ k.worker = l.worker
                                          /\ k.issue = l.issue
                                          /\ k.status = "ACTIVE" => k = l
<1> DEFINE L == queue.leases
           f == [l \in L |-> IF Stale(l) THEN [l EXCEPT !.status = "EXPIRED"] ELSE l]
<1>0. L \in SUBSET Lease
  BY DEF TypeOK
<1>1. \A l \in L : /\ [l EXCEPT !.status = "EXPIRED"] \in Lease
                   /\ [l EXCEPT !.status = "EXPIRED"].id = l.id
                   /\ [l EXCEPT !.status = "EXPIRED"].worker = l.worker
                   /\ [l EXCEPT !.status = "EXPIRED"].issue = l.issue
                   /\ [l EXCEPT !.status = "EXPIRED"].status = "EXPIRED"
  BY <1>0 DEF Lease
<1>2. f \in [L -> Lease] /\ \A l \in L : f[l].id = l.id
  BY <1>0, <1>1
<1>3. Reconciling = {f[l] : l \in L}
  BY DEF Reconciling
<1>4. \A k \in Reconciling :
          \E l \in L : /\ k.id = l.id /\ k.worker = l.worker /\ k.issue = l.issue
                       /\ k.status = "ACTIVE" => k = l
  BY <1>1 DEF Reconciling
<1> HIDE DEF f
<1>5. QED
  BY <1>0, <1>2, <1>3, <1>4, RewriteNumbered

\* A claim on its way: it will take its lease back when the workspace fails.
Owner(w) == \/ call[w].at = "failed"
            \/ call[w].at \in {"claimed", "adding"} /\ ~call[w].hand

\* The number of such a lease is its own for good.
OwnsItsLease(w) ==
    /\ call[w].lease.id <= Cardinality(queue.leases)
    /\ \A l \in queue.leases : l.id = call[w].lease.id => l.worker = w

QueueInv ==
    /\ Numbered(queue.leases)
    /\ \A k, l \in Declared(queue.leases) : k = l
    /\ \A l \in Declared(queue.leases) : queue.issues[l.issue].lease = l.id
    /\ \A w \in Worker : Owner(w) => OwnsItsLease(w)

SameCalls == \A w \in Worker : Owner(w)' => Owner(w) /\ call'[w].lease = call[w].lease

\* A step that rewrites leases without activating one, and keeps who has which number.
LEMMA QueueRewritten ==
    ASSUME QueueInv, SameCalls, Numbered(queue'.leases),
           Cardinality(queue'.leases) = Cardinality(queue.leases),
           \A k \in queue'.leases :
               \E l \in queue.leases : /\ k.id = l.id /\ k.worker = l.worker
                                       /\ k.issue = l.issue
                                       /\ k.status = "ACTIVE" => k = l,
           queue'.leases \subseteq Lease, queue.leases \subseteq Lease,
           \A i \in Issue : queue'.issues[i].lease = queue.issues[i].lease
    PROVE  QueueInv'
<1>1. \A l \in Declared(queue'.leases) : l \in Declared(queue.leases) /\ l.issue \in Issue
  BY DEF Declared, Lease
<1>2. \A w \in Worker : Owner(w)' => OwnsItsLease(w)'
  BY DEF QueueInv, SameCalls, OwnsItsLease
<1>3. \A k, l \in Declared(queue'.leases) : k = l
  BY <1>1 DEF QueueInv
<1>4. \A l \in Declared(queue'.leases) : queue'.issues[l.issue].lease = l.id
  BY <1>1 DEF QueueInv
<1>5. QED
  BY <1>2, <1>3, <1>4 DEF QueueInv

LEMMA QueueQuiet ==
    ASSUME QueueInv, UNCHANGED queue, SameCalls
    PROVE  QueueInv'
  BY DEF QueueInv, SameCalls, OwnsItsLease

\* A worker whose call becomes one that owns nothing, or goes on with the same lease.
LEMMA CallsStay ==
    ASSUME TypeOK, NEW w \in Worker, NEW c, call' = [call EXCEPT ![w] = c],
           \/ c.at \in {"idle", "decided"}
           \/ c.at \in {"claimed", "adding"} /\ c.hand
           \/ Owner(w) /\ c.lease = call[w].lease
    PROVE  SameCalls
<1>1. call'[w] = c /\ \A v \in Worker : v # w => call'[v] = call[v]
  BY DEF TypeOK
<1>2. QED
  BY <1>1 DEF SameCalls, Owner

LEMMA QueueStep ==
    ASSUME TypeOK, QueueInv, [Next]_vars
    PROVE  QueueInv'
<1>1. ASSUME NEW w \in Worker, NEW i \in Issue, NEW ctx \in Context, Decide(w, i, ctx)
      PROVE  QueueInv'
  BY <1>1, CallsStay, QueueQuiet DEF Decide
<1>2. ASSUME NEW w \in Worker, NEW l \in queue.leases, CreateByHand(w, l) PROVE QueueInv'
  BY <1>2, CallsStay, QueueQuiet DEF CreateByHand
<1>3. ASSUME NEW w \in Worker, ClaimLocked(w) PROVE QueueInv'
  <2> DEFINE i == call[w].issue
             lease == NewLease(i, w)
             n == Cardinality(queue.leases)
  <2>1. i \in Issue
    BY <1>3, CallType DEF ClaimLocked
  <2>2. CASE ~Claimable(i)
    BY <1>3, <2>2, CallsStay, QueueQuiet DEF ClaimLocked, NoCall
  <2>3. CASE Claimable(i)
    <3>1. IsFiniteSet(queue.leases) /\ n \in Nat /\ queue.leases \subseteq Lease
      BY FS_CardinalityType DEF QueueInv, Numbered, TypeOK
    <3>2. /\ n < MaxLeases
          /\ queue'.leases = queue.leases \cup {lease}
          /\ queue'.issues = [queue.issues EXCEPT ![i] =
                                  [state |-> "IN_PROGRESS", lease |-> lease.id, workspace |-> i]]
          /\ call' = [call EXCEPT ![w] = [at |-> "claimed", lease |-> lease, hand |-> FALSE]]
      BY <1>3, <2>3 DEF ClaimLocked
    <3>3. lease \in Lease /\ lease.id = n + 1 /\ lease.worker = w /\ lease.issue = i
      BY <2>1, <3>1, <3>2, NewLeaseType
    <3> HIDE DEF lease
    <3>4. \A l \in queue.leases : l.id <= n /\ l.id \in Nat
      BY <3>1 DEF QueueInv, Numbered, Lease
    <3>5. IsFiniteSet(queue'.leases) /\ Cardinality(queue'.leases) = n + 1
      BY <3>1, <3>2, <3>3, <3>4, FS_AddElement
    <3>6. Numbered(queue'.leases)
      BY <3>1, <3>2, <3>3, <3>4, <3>5 DEF Numbered, QueueInv
    <3>7. Declared(queue.leases) = {}
      BY <2>3, <3>1 DEF Claimable, Declared, Held, Fresh
    <3>8. Declared(queue'.leases) \subseteq {lease}
      BY <3>2, <3>7 DEF Declared
    <3>9. queue'.issues[i].lease = lease.id
      BY <2>1, <3>2 DEF TypeOK
    <3>10. ASSUME NEW v \in Worker, Owner(v)' PROVE OwnsItsLease(v)'
      <4>1. CASE v = w
        <5>1. call'[v].lease = lease
          BY <3>2, <4>1 DEF TypeOK
        <5>2. lease.id <= Cardinality(queue'.leases)
          BY <3>1, <3>3, <3>5
        <5>3. \A l \in queue'.leases : l.id = lease.id => l.worker = v
          BY <3>1, <3>2, <3>3, <3>4, <4>1
        <5>4. QED
          BY <5>1, <5>2, <5>3 DEF OwnsItsLease
      <4>2. CASE v # w
        <5>1. call'[v] = call[v] /\ Owner(v)
          BY <3>2, <3>10, <4>2 DEF TypeOK, Owner
        <5>2. OwnsItsLease(v)
          BY <5>1 DEF QueueInv
        <5>3. call[v].lease.id \in Nat
          BY <5>1, CallType DEF Owner, Carrying, Lease
        <5>4. call[v].lease.id <= n /\ call[v].lease.id # lease.id
          BY <3>1, <3>3, <5>2, <5>3 DEF OwnsItsLease
        <5>5. \A l \in queue'.leases : l.id = call[v].lease.id => l.worker = v
          BY <3>2, <5>2, <5>4 DEF OwnsItsLease
        <5>6. call[v].lease.id <= Cardinality(queue'.leases)
          BY <3>1, <3>5, <5>3, <5>4
        <5>7. QED
          BY <5>1, <5>5, <5>6 DEF OwnsItsLease
      <4>3. QED
        BY <4>1, <4>2
    <3>11. QED
      BY <3>3, <3>6, <3>8, <3>9, <3>10 DEF QueueInv
  <2>4. QED
    BY <2>2, <2>3
<1>4. ASSUME NEW w \in Worker, Add(w) PROVE QueueInv'
  <2>1. call[w] \in Carrying
    BY <1>4, CallType DEF Add
  <2>2. call' = [call EXCEPT ![w] = [call[w] EXCEPT !.at = "adding"]]
    BY <1>4 DEF Add
  <2>3. [call[w] EXCEPT !.at = "adding"].hand \/ Owner(w)
    BY <1>4, <2>1, StageType DEF Add, Owner
  <2>4. SameCalls
    BY <2>1, <2>2, <2>3, StageType, CallsStay
  <2>5. QED
    BY <1>4, <2>4, QueueQuiet DEF Add
<1>5. ASSUME NEW w \in Worker, Save(w) \/ AlreadyActive(w) PROVE QueueInv'
  BY <1>5, CallsStay, QueueQuiet DEF Save, AlreadyActive, NoCall
<1>6. ASSUME NEW w \in Worker, Refused(w) PROVE QueueInv'
  <2>1. call[w] \in Carrying
    BY <1>6, CallType DEF Refused
  <2>2. CASE call[w].hand
    BY <1>6, <2>2, CallsStay, QueueQuiet DEF Refused, NoCall
  <2>3. CASE ~call[w].hand
    <3>1. call' = [call EXCEPT ![w] = [call[w] EXCEPT !.at = "failed"]]
      BY <1>6, <2>3 DEF Refused
    <3>2. Owner(w) /\ [call[w] EXCEPT !.at = "failed"].lease = call[w].lease
      BY <1>6, <2>1, <2>3, StageType DEF Refused, Owner
    <3>3. SameCalls
      BY <3>1, <3>2, CallsStay
    <3>4. QED
      BY <1>6, <3>3, QueueQuiet DEF Refused
  <2>4. QED
    BY <2>2, <2>3
<1>7. ASSUME NEW w \in Worker, TakeBack(w) PROVE QueueInv'
  <2> DEFINE lease == call[w].lease
  <2>1. queue.leases \in SUBSET Lease /\ Numbered(queue.leases)
    BY DEF TypeOK, QueueInv
  <2>2. queue'.leases = Released(queue.leases, lease)
    BY <1>7 DEF TakeBack
  <2>3. \A i \in Issue : queue'.issues[i].lease = queue.issues[i].lease
    BY <1>7 DEF TakeBack, TypeOK
  <2>4. SameCalls
    BY <1>7, CallsStay DEF TakeBack, NoCall
  <2>5. queue'.leases \subseteq Lease
    BY <2>1, <2>2, ReleasedType
  <2>6. QED
    BY <2>1, <2>2, <2>3, <2>4, <2>5, ReleasedNumbered, QueueRewritten
<1>8. ASSUME NEW w \in Worker, Die(w) PROVE QueueInv'
  BY <1>8, CallsStay, QueueQuiet DEF Die, NoCall
<1>9. ASSUME WsNext, UNCHANGED <<queue, call>> PROVE QueueInv'
  BY <1>9, QueueQuiet DEF SameCalls, Owner
<1>10. ASSUME ReconcileQueue PROVE QueueInv'
  <2>1. queue'.leases = Reconciling
    BY <1>10 DEF ReconcileQueue, Reconciling
  <2>2. \A i \in Issue : queue'.issues[i].lease = queue.issues[i].lease
    BY <1>10 DEF ReconcileQueue, TypeOK
  <2>3. SameCalls
    BY <1>10 DEF ReconcileQueue, SameCalls, Owner
  <2>4. Numbered(queue.leases) /\ queue.leases \subseteq Lease
    BY DEF QueueInv, TypeOK
  <2>5. QED
    BY <2>1, <2>2, <2>3, <2>4, ReconcilingType, ReconcilingNumbered, QueueRewritten
<1>11. ASSUME NEW i \in Issue, NEW s \in QueueStates, MoveIssue(i, s) PROVE QueueInv'
  <2>1. queue'.leases = queue.leases
    BY <1>11 DEF MoveIssue, TypeOK
  <2>2. \A j \in Issue : queue'.issues[j].lease = queue.issues[j].lease
    BY <1>11 DEF MoveIssue, TypeOK
  <2>3. SameCalls
    BY <1>11 DEF MoveIssue, SameCalls, Owner
  <2>4. Numbered(queue.leases) /\ queue.leases \subseteq Lease
    BY DEF QueueInv, TypeOK
  <2>5. QED
    BY <2>1, <2>2, <2>3, <2>4, QueueRewritten
<1>12. ASSUME Tick PROVE QueueInv'
  BY <1>12, QueueQuiet DEF Tick, SameCalls, Owner
<1>13. CASE UNCHANGED vars
  BY <1>13, QueueQuiet DEF vars, SameCalls, Owner
<1>14. QED
  BY <1>1, <1>2, <1>3, <1>4, <1>5, <1>6, <1>7, <1>8, <1>9, <1>10, <1>11, <1>12, <1>13 DEF Next

-----------------------------------------------------------------------------
(* Type correctness of the whole.                                          *)

LEMMA TypeStep ==
    ASSUME TypeOK, QueueInv, [Next]_vars
    PROVE  TypeOK'
<1> USE LocalWorkAssumption
<1>1. ASSUME NEW w \in Worker, NEW i \in Issue, NEW ctx \in Context, Decide(w, i, ctx)
      PROVE  TypeOK'
  <2>1. [at |-> "decided", issue |-> i] \in Call
    BY DEF Call
  <2>2. QED
    BY <1>1, <2>1 DEF Decide, TypeOK, stored
<1>2. ASSUME NEW w \in Worker, NEW l \in queue.leases, CreateByHand(w, l) PROVE TypeOK'
  <2>1. [l EXCEPT !.status = "ACTIVE"] \in Lease
    BY DEF TypeOK, Lease
  <2>2. [at |-> "claimed", lease |-> [l EXCEPT !.status = "ACTIVE"], hand |-> TRUE] \in Call
    BY <2>1 DEF Call
  <2>3. QED
    BY <1>2, <2>2 DEF CreateByHand, TypeOK, stored
<1>3. ASSUME NEW w \in Worker, ClaimLocked(w) PROVE TypeOK'
  <2> DEFINE i == call[w].issue
             lease == NewLease(i, w)
  <2>1. i \in Issue
    BY <1>3, CallType DEF ClaimLocked
  <2>2. CASE ~Claimable(i)
    BY <1>3, <2>2 DEF ClaimLocked, TypeOK, stored, NoCall, Call
  <2>3. CASE Claimable(i)
    <3>1. /\ Cardinality(queue.leases) < MaxLeases
          /\ queue' = [issues |-> [queue.issues EXCEPT ![i] =
                           [state |-> "IN_PROGRESS", lease |-> lease.id, workspace |-> i]],
                       leases |-> queue.leases \cup {lease}]
          /\ call' = [call EXCEPT ![w] = [at |-> "claimed", lease |-> lease, hand |-> FALSE]]
      BY <1>3, <2>3 DEF ClaimLocked
    <3>2. lease \in Lease
      BY <2>1, <3>1, NewLeaseType DEF QueueInv, Numbered
    <3> HIDE DEF lease
    <3>3. lease.id \in 0..MaxLeases
      BY <3>2 DEF Lease
    <3>4. [state |-> "IN_PROGRESS", lease |-> lease.id, workspace |-> i]
              \in [state : QueueStates, lease : 0..MaxLeases, workspace : Issue \cup {None}]
      BY <2>1, <3>3
    <3>5. [at |-> "claimed", lease |-> lease, hand |-> FALSE] \in Call
      BY <3>2 DEF Call
    <3>6. call' \in [Worker -> Call]
      BY <3>1, <3>5 DEF TypeOK
    <3>7. queue'.issues \in [Issue -> [state : QueueStates, lease : 0..MaxLeases,
                                       workspace : Issue \cup {None}]]
      BY <3>1, <3>4 DEF TypeOK
    <3>8. queue'.leases \in SUBSET Lease
      BY <3>1, <3>2 DEF TypeOK
    <3>9. queue' \in [issues : [Issue -> [state : QueueStates, lease : 0..MaxLeases,
                                          workspace : Issue \cup {None}]],
                      leases : SUBSET Lease]
      BY <3>1, <3>7, <3>8
    <3>10. QED
      BY <1>3, <3>6, <3>9 DEF ClaimLocked, TypeOK, stored
  <2>4. QED
    BY <2>2, <2>3
<1>4. ASSUME NEW w \in Worker, Add(w) PROVE TypeOK'
  <2>1. call[w] \in Carrying
    BY <1>4, CallType DEF Add
  <2>2. [call[w] EXCEPT !.at = "adding"] \in Carrying
    BY <2>1, StageType
  <2>3. call' = [call EXCEPT ![w] = [call[w] EXCEPT !.at = "adding"]]
    BY <1>4 DEF Add
  <2>4. call' \in [Worker -> Call]
    BY <2>2, <2>3 DEF TypeOK, Carrying, Call
  <2>5. call[w].lease \in Lease /\ call[w].lease.issue \in Issue
    BY <2>1 DEF Carrying, Lease
  <2>6. [at |-> "create", lease |-> call[w].lease] \in LockHolder
    BY <2>5 DEF LockHolder
  <2>7. QED
    BY <1>4, <2>4, <2>5, <2>6 DEF Add, AddTree, TypeOK
<1>5. ASSUME NEW w \in Worker, Save(w) PROVE TypeOK'
  <2> DEFINE lease == call[w].lease
             record == [lease |-> lease.id, worker |-> lease.worker, status |-> "ACTIVE",
                        beat |-> clock, expires |-> lease.expires, retries |-> 0]
  <2>1. call[w] \in Carrying
    BY <1>5, CallType DEF Save
  <2>2. lease \in Lease
    BY <2>1 DEF Carrying
  <2>3. record \in Record
    BY <2>2 DEF TypeOK, Lease, Record, Occupying
  <2>4. registry' = [registry EXCEPT ![lease.issue] = record]
    BY <1>5 DEF Save, SaveTree
  <2> HIDE DEF record
  <2>5. registry' \in [Issue -> Record \cup {None}]
    BY <2>3, <2>4 DEF TypeOK
  <2>6. QED
    BY <1>5, <2>5 DEF Save, SaveTree, TypeOK, NoCall, Call
<1>6. ASSUME NEW w \in Worker, AlreadyActive(w) PROVE TypeOK'
  BY <1>6 DEF AlreadyActive, TypeOK, stored, NoCall, Call
<1>7. ASSUME NEW w \in Worker, Refused(w) PROVE TypeOK'
  <2>1. call[w] \in Carrying
    BY <1>7, CallType DEF Refused
  <2>2. [call[w] EXCEPT !.at = "failed"] \in Call
    BY <2>1, StageType DEF Carrying, Call
  <2>3. call' = [call EXCEPT ![w] = NoCall] \/ call' = [call EXCEPT ![w] = [call[w] EXCEPT !.at = "failed"]]
    BY <1>7 DEF Refused
  <2>4. call' \in [Worker -> Call]
    <3>1. NoCall \in Call
      BY DEF NoCall, Call
    <3>2. QED
      BY <2>2, <2>3, <3>1 DEF TypeOK
  <2>5. QED
    BY <1>7, <2>4 DEF Refused, TypeOK, stored
<1>8. ASSUME NEW w \in Worker, TakeBack(w) PROVE TypeOK'
  <2> DEFINE i == call[w].lease.issue
             moved == [queue.issues[i] EXCEPT !.state = "RECOVERY"]
  <2>1. call[w] \in Carrying
    BY <1>8, CallType DEF TakeBack
  <2>2. i \in Issue
    BY <2>1 DEF Carrying, Lease
  <2>3. queue.issues[i] \in [state : QueueStates, lease : 0..MaxLeases, workspace : Issue \cup {None}]
    BY <2>2 DEF TypeOK
  <2>4. moved \in [state : QueueStates, lease : 0..MaxLeases, workspace : Issue \cup {None}]
    BY <2>3
  <2>5. queue' = [issues |-> [queue.issues EXCEPT ![i] = moved],
                  leases |-> Released(queue.leases, call[w].lease)]
    BY <1>8 DEF TakeBack
  <2> HIDE DEF moved
  <2>6. [queue.issues EXCEPT ![i] = moved]
            \in [Issue -> [state : QueueStates, lease : 0..MaxLeases, workspace : Issue \cup {None}]]
    BY <2>4 DEF TypeOK
  <2>7. Released(queue.leases, call[w].lease) \subseteq Lease
    BY ReleasedType DEF TypeOK
  <2>8. queue' \in [issues : [Issue -> [state : QueueStates, lease : 0..MaxLeases,
                                        workspace : Issue \cup {None}]],
                    leases : SUBSET Lease]
    BY <2>5, <2>6, <2>7
  <2>9. QED
    BY <1>8, <2>8 DEF TakeBack, TypeOK, stored, NoCall, Call
<1>9. ASSUME NEW w \in Worker, Die(w) PROVE TypeOK'
  BY <1>9 DEF Die, TypeOK, NoCall, Call
<1>10. ASSUME WsNext, UNCHANGED <<queue, call>> PROVE TypeOK'
  BY <1>10, WsTypeStep DEF WsTypes, TypeOK
<1>11. ASSUME ReconcileQueue PROVE TypeOK'
  <2> DEFINE Lost == {l.issue : l \in {k \in queue.leases : Stale(k)}}
             After(i) == IF i \in Lost /\ queue.issues[i].state \in {"IN_PROGRESS", "REVIEW", "VERIFICATION"}
                         THEN [queue.issues[i] EXCEPT !.state = "RECOVERY"] ELSE queue.issues[i]
  <2>1. queue' = [issues |-> [i \in Issue |-> After(i)], leases |-> Reconciling]
    BY <1>11 DEF ReconcileQueue, Reconciling
  <2>2. ASSUME NEW i \in Issue
        PROVE  After(i) \in [state : QueueStates, lease : 0..MaxLeases, workspace : Issue \cup {None}]
    <3>1. queue.issues[i] \in [state : QueueStates, lease : 0..MaxLeases, workspace : Issue \cup {None}]
      BY DEF TypeOK
    <3>2. [queue.issues[i] EXCEPT !.state = "RECOVERY"]
              \in [state : QueueStates, lease : 0..MaxLeases, workspace : Issue \cup {None}]
      BY <3>1
    <3>3. QED
      BY <3>1, <3>2
  <2> HIDE DEF After
  <2>3. queue' \in [issues : [Issue -> [state : QueueStates, lease : 0..MaxLeases,
                                        workspace : Issue \cup {None}]],
                    leases : SUBSET Lease]
    BY <2>1, <2>2, ReconcilingType
  <2>4. QED
    BY <1>11, <2>3 DEF ReconcileQueue, TypeOK, stored
<1>12. ASSUME NEW i \in Issue, NEW s \in QueueStates, MoveIssue(i, s) PROVE TypeOK'
  <2> DEFINE moved == [queue.issues[i] EXCEPT !.state = s]
  <2>1. queue.issues[i] \in [state : QueueStates, lease : 0..MaxLeases, workspace : Issue \cup {None}]
    BY DEF TypeOK
  <2>2. moved \in [state : QueueStates, lease : 0..MaxLeases, workspace : Issue \cup {None}]
    BY <2>1
  <2>3. queue' = [queue EXCEPT !.issues = [queue.issues EXCEPT ![i] = moved]]
    BY <1>12 DEF MoveIssue
  <2> HIDE DEF moved
  <2>4. QED
    BY <1>12, <2>2, <2>3 DEF MoveIssue, TypeOK, stored
<1>13. ASSUME Tick PROVE TypeOK'
  BY <1>13 DEF Tick, TypeOK
<1>14. CASE UNCHANGED vars
  BY <1>14 DEF vars, TypeOK
<1>15. QED
  BY <1>1, <1>2, <1>3, <1>4, <1>5, <1>6, <1>7, <1>8, <1>9, <1>10, <1>11, <1>12, <1>13, <1>14
     DEF Next

-----------------------------------------------------------------------------
(* The workspaces, and the one command between git and the registry.       *)

Adding(w) == call[w].at = "adding"

WsInv ==
    /\ IsFiniteSet(InUse) /\ Cardinality(InUse) <= MaxActive
    /\ \A v, w \in Worker : Adding(v) /\ Adding(w) => v = w
    /\ \A w \in Worker : Adding(w) =>
           /\ lock = [at |-> "create", lease |-> call[w].lease]
           /\ Cardinality(InUse \cup {call[w].lease.issue}) <= MaxActive

\* A command of the registry brings no workspace into use, and waits for a creation.
LEMMA WsUse ==
    ASSUME WsTypes, WsNext
    PROVE  /\ InUse' \subseteq InUse
           /\ \A lease : lock = [at |-> "create", lease |-> lease] /\ lease \in Lease
                             => UNCHANGED <<registry, lock>>
<1> USE LocalWorkAssumption
<1>0. ASSUME NEW lease \in Lease, lock = [at |-> "create", lease |-> lease]
      PROVE  lock # None /\ lock.at = "create"
  BY <1>0 DEF LockHolder
<1> DEFINE Waits == \A lease : lock = [at |-> "create", lease |-> lease] /\ lease \in Lease
                                   => UNCHANGED <<registry, lock>>
           Uses == InUse' \subseteq InUse
<1>1. ASSUME NEW i \in Issue, NEW w \in Worker, HeartbeatWorkspace(i, w) PROVE Waits /\ Uses
  <2>1. lock = None /\ i \in InUse
    BY <1>1 DEF HeartbeatWorkspace, InUse, Occupying
  <2>2. \A j \in Issue : j # i => registry'[j] = registry[j]
    BY <1>1 DEF HeartbeatWorkspace, WsTypes
  <2>3. QED
    BY <1>0, <2>1, <2>2 DEF InUse
<1>2. ASSUME NEW i \in Issue, ScheduleRetry(i) PROVE Waits /\ Uses
  <2>1. lock = None /\ i \in InUse
    BY <1>2 DEF ScheduleRetry, InUse, Occupying
  <2>2. \A j \in Issue : j # i => registry'[j] = registry[j]
    BY <1>2 DEF ScheduleRetry, SetStatus, WsTypes
  <2>3. QED
    BY <1>0, <2>1, <2>2 DEF InUse
<1>3. ASSUME NEW i \in Issue, CompleteWorkspace(i) PROVE Waits /\ Uses
  <2>1. lock = None /\ registry[i] \in Record
    BY <1>3 DEF CompleteWorkspace, WsTypes
  <2>2. \A j \in Issue : j # i => registry'[j] = registry[j]
    BY <1>3 DEF CompleteWorkspace, SetStatus, WsTypes
  <2>3. registry'[i].status = "COMPLETED"
    BY <1>3, <2>1 DEF CompleteWorkspace, SetStatus, WsTypes, Record
  <2>4. i \notin InUse'
    BY <2>3 DEF InUse, Occupying
  <2>5. QED
    BY <1>0, <2>1, <2>2, <2>4 DEF InUse
<1>4. ASSUME NEW i \in Issue, BeginCleanup(i) \/ EditTree(i) \/ CommitTree(i) PROVE Waits /\ Uses
  BY <1>0, <1>4 DEF BeginCleanup, EditTree, CommitTree, InUse
<1>5. ASSUME NEW i \in Issue, RemoveTree(i) PROVE Waits /\ Uses
  <2>1. lock = [at |-> "cleanup", issue |-> i] /\ UNCHANGED registry
    BY <1>5 DEF RemoveTree
  <2>2. QED
    BY <1>0, <2>1 DEF InUse
<1>6. ASSUME NEW i \in Issue, SaveCleanup(i) PROVE Waits /\ Uses
  <2>1. lock = [at |-> "removed", issue |-> i] /\ registry' = [registry EXCEPT ![i] = None]
    BY <1>6 DEF SaveCleanup
  <2>2. Uses
    BY <2>1 DEF InUse, WsTypes
  <2>3. QED
    BY <1>0, <2>1, <2>2
<1>7. ASSUME NEW due \in BOOLEAN, ReconcileWorkspaces(due) PROVE Waits /\ Uses
  <2>1. lock = None
    BY <1>7 DEF ReconcileWorkspaces
  <2>2. ASSUME NEW i \in Issue, i \notin InUse PROVE i \notin InUse'
    <3>1. registry[i] = None \/ registry[i].status \notin Occupying
      BY <2>2 DEF InUse
    <3>2. Reconciled(i, due) = registry[i]
      BY <3>1 DEF Reconciled, Occupying
    <3>3. registry'[i] = registry[i]
      BY <1>7, <3>2 DEF ReconcileWorkspaces
    <3>4. QED
      BY <3>1, <3>3 DEF InUse
  <2>3. Uses
    BY <2>2 DEF InUse
  <2>4. QED
    BY <1>0, <2>1, <2>3
<1>8. ASSUME CleanupDies PROVE Waits /\ Uses
  BY <1>0, <1>8 DEF CleanupDies, InUse
<1>9. QED
  BY <1>1, <1>2, <1>3, <1>4, <1>5, <1>6, <1>7, <1>8 DEF WsNext

LEMMA WsQuiet ==
    ASSUME WsInv, UNCHANGED registry,
           \A w \in Worker : Adding(w)' => /\ Adding(w) /\ call'[w].lease = call[w].lease
                                          /\ UNCHANGED lock
    PROVE  WsInv'
<1>1. InUse' = InUse
  BY DEF InUse
<1>2. QED
  BY <1>1 DEF WsInv, Adding

LEMMA WsStep ==
    ASSUME TypeOK, WsInv, [Next]_vars
    PROVE  WsInv'
<1> USE LocalWorkAssumption
<1>1. ASSUME NEW w \in Worker, NEW i \in Issue, NEW ctx \in Context, Decide(w, i, ctx)
      PROVE  WsInv'
  BY <1>1, WsQuiet DEF Decide, stored, Adding, TypeOK
<1>2. ASSUME NEW w \in Worker, NEW l \in queue.leases, CreateByHand(w, l) PROVE WsInv'
  BY <1>2, WsQuiet DEF CreateByHand, stored, Adding, TypeOK
<1>3. ASSUME NEW w \in Worker, ClaimLocked(w) PROVE WsInv'
  BY <1>3, WsQuiet DEF ClaimLocked, stored, Adding, TypeOK, NoCall
<1>4. ASSUME NEW w \in Worker, Add(w) PROVE WsInv'
  <2> DEFINE i == call[w].lease.issue
  <2>1. call[w] \in Carrying
    BY <1>4, CallType DEF Add
  <2>2. /\ lock = None /\ UNCHANGED registry /\ Cardinality(InUse) < MaxActive
        /\ lock' = [at |-> "create", lease |-> call[w].lease]
        /\ call' = [call EXCEPT ![w] = [call[w] EXCEPT !.at = "adding"]]
    BY <1>4 DEF Add, AddTree, CanCreate
  <2>3. \A v \in Worker : ~Adding(v)
    <3>1. SUFFICES ASSUME NEW v \in Worker, Adding(v) PROVE FALSE
      OBVIOUS
    <3>2. lock = [at |-> "create", lease |-> call[v].lease] /\ call[v].lease \in Lease
      BY <3>1, CallType DEF WsInv, Adding, Carrying
    <3>3. QED
      BY <2>2, <3>2 DEF LockHolder
  <2>4. call'[w].lease = call[w].lease /\ \A v \in Worker : Adding(v)' => v = w
    BY <2>1, <2>2, <2>3, StageType DEF TypeOK, Adding
  <2>5. InUse' = InUse
    BY <2>2 DEF InUse
  <2>6. Cardinality(InUse \cup {i}) <= MaxActive
    <3>1. Cardinality(InUse) \in Nat
      BY FS_CardinalityType DEF WsInv
    <3>2. /\ IsFiniteSet(InUse \cup {i})
          /\ Cardinality(InUse \cup {i}) =
                 IF i \in InUse THEN Cardinality(InUse) ELSE Cardinality(InUse) + 1
      <4>1. IsFiniteSet(InUse)
        BY DEF WsInv
      <4> HIDE DEF i
      <4>2. QED
        BY <4>1, FS_AddElement
    <3>3. QED
      BY <2>2, <3>1, <3>2
  <2>7. QED
    BY <2>2, <2>4, <2>5, <2>6 DEF WsInv
<1>5. ASSUME NEW w \in Worker, Save(w) PROVE WsInv'
  <2> DEFINE i == call[w].lease.issue
  <2>1. Adding(w) /\ \A v \in Worker : Adding(v) => v = w
    BY <1>5 DEF Save, Adding, WsInv
  <2>2. \A v \in Worker : ~Adding(v)'
    BY <1>5, <2>1 DEF Save, Adding, TypeOK, NoCall
  <2>3. \A j \in Issue : j # i => registry'[j] = registry[j]
    BY <1>5 DEF Save, SaveTree, TypeOK
  <2>4. InUse' \in SUBSET (InUse \cup {i})
    BY <2>3 DEF InUse
  <2>5. IsFiniteSet(InUse \cup {i}) /\ Cardinality(InUse \cup {i}) <= MaxActive
    BY <2>1, FS_AddElement DEF WsInv
  <2>6. /\ IsFiniteSet(InUse') /\ Cardinality(InUse') <= Cardinality(InUse \cup {i})
    BY <2>4, <2>5, FS_Subset
  <2>7. Cardinality(InUse') \in Nat /\ Cardinality(InUse \cup {i}) \in Nat
    BY <2>5, <2>6, FS_CardinalityType
  <2>8. QED
    BY <2>2, <2>5, <2>6, <2>7 DEF WsInv
<1>6. ASSUME NEW w \in Worker, AlreadyActive(w) PROVE WsInv'
  BY <1>6, WsQuiet DEF AlreadyActive, stored, Adding, TypeOK, NoCall
<1>7. ASSUME NEW w \in Worker, Refused(w) PROVE WsInv'
  <2>1. call[w] \in Carrying
    BY <1>7, CallType DEF Refused
  <2>2. [call[w] EXCEPT !.at = "failed"].at # "adding"
    BY <2>1, StageType
  <2>3. ~Adding(w)' /\ \A v \in Worker : v # w => call'[v] = call[v]
    BY <1>7, <2>2 DEF Refused, Adding, TypeOK, NoCall
  <2>4. QED
    BY <1>7, <2>3, WsQuiet DEF Refused, stored, Adding
<1>8. ASSUME NEW w \in Worker, TakeBack(w) PROVE WsInv'
  BY <1>8, WsQuiet DEF TakeBack, stored, Adding, TypeOK, NoCall
<1>9. ASSUME NEW w \in Worker, Die(w) PROVE WsInv'
  <2>1. ~Adding(w)' /\ \A v \in Worker : v # w => call'[v] = call[v]
    BY <1>9 DEF Die, Adding, TypeOK, NoCall
  <2>2. \A v \in Worker : Adding(v)' => Adding(v) /\ v # w
    BY <2>1 DEF Adding
  <2>3. \A v \in Worker : Adding(v) /\ v # w => UNCHANGED lock
    BY <1>9 DEF Die, Adding, WsInv
  <2>4. UNCHANGED registry
    BY <1>9 DEF Die
  <2>5. QED
    BY <2>1, <2>2, <2>3, <2>4, WsQuiet
<1>10. ASSUME WsNext, UNCHANGED <<queue, call>> PROVE WsInv'
  <2>1. /\ InUse' \in SUBSET InUse
        /\ \A lease : lock = [at |-> "create", lease |-> lease] /\ lease \in Lease
                          => UNCHANGED <<registry, lock>>
    BY <1>10, WsUse DEF WsTypes, TypeOK
  <2>2. IsFiniteSet(InUse') /\ Cardinality(InUse') <= MaxActive
    <3>1. IsFiniteSet(InUse') /\ Cardinality(InUse') <= Cardinality(InUse)
      BY <2>1, FS_Subset DEF WsInv
    <3>2. Cardinality(InUse') \in Nat /\ Cardinality(InUse) \in Nat
      BY <3>1, FS_CardinalityType DEF WsInv
    <3>3. QED
      BY <3>1, <3>2 DEF WsInv
  <2>3. \A w \in Worker : Adding(w)' => Adding(w)
    BY <1>10 DEF Adding
  <2>4. ASSUME NEW w \in Worker, Adding(w)
        PROVE  /\ lock' = [at |-> "create", lease |-> call'[w].lease]
               /\ Cardinality(InUse' \cup {call'[w].lease.issue}) <= MaxActive
    <3>1. lock = [at |-> "create", lease |-> call[w].lease] /\ call[w].lease \in Lease
      BY <2>4, CallType DEF WsInv, Adding, Carrying
    <3>2. UNCHANGED <<registry, lock>>
      BY <2>1, <3>1
    <3>3. InUse' = InUse
      BY <3>2 DEF InUse
    <3>4. QED
      BY <1>10, <2>4, <3>1, <3>2, <3>3 DEF WsInv
  <2>5. QED
    BY <2>2, <2>3, <2>4 DEF WsInv
<1>11. ASSUME ReconcileQueue PROVE WsInv'
  BY <1>11, WsQuiet DEF ReconcileQueue, stored, Adding
<1>12. ASSUME NEW i \in Issue, NEW s \in QueueStates, MoveIssue(i, s) PROVE WsInv'
  BY <1>12, WsQuiet DEF MoveIssue, stored, Adding
<1>13. ASSUME Tick PROVE WsInv'
  BY <1>13, WsQuiet DEF Tick, Adding
<1>14. CASE UNCHANGED vars
  BY <1>14, WsQuiet DEF vars, Adding
<1>15. QED
  BY <1>1, <1>2, <1>3, <1>4, <1>5, <1>6, <1>7, <1>8, <1>9, <1>10, <1>11, <1>12, <1>13, <1>14
     DEF Next

-----------------------------------------------------------------------------
(* The theorems.                                                           *)

Inv == TypeOK /\ QueueInv /\ WsInv

LEMMA InitInv ==
    ASSUME Init
    PROVE  Inv
<1> USE LocalWorkAssumption
<1>1. TypeOK
  BY DEF Init, WsInit, TypeOK, NoCall, Call, LockHolder
<1>2. QueueInv
  <2>1. IsFiniteSet(queue.leases) /\ queue.leases = {}
    BY FS_EmptySet DEF Init
  <2>2. \A w \in Worker : ~Owner(w)
    BY DEF Init, NoCall, Owner
  <2>3. QED
    BY <2>1, <2>2 DEF QueueInv, Numbered, Declared
<1>3. WsInv
  <2>1. InUse = {}
    BY DEF Init, WsInit, InUse
  <2>2. IsFiniteSet(InUse) /\ Cardinality(InUse) = 0
    BY <2>1, FS_EmptySet
  <2>3. \A w \in Worker : ~Adding(w)
    BY DEF Init, NoCall, Adding
  <2>4. QED
    BY <2>2, <2>3 DEF WsInv
<1>4. QED
  BY <1>1, <1>2, <1>3 DEF Inv

\* Queue, registry, worktrees and the commands between them agree after every
\* step of every command (the locks of leases.py and workspaces.py).
THEOREM Invariance == Spec => []Inv
<1>1. Init => Inv
  BY InitInv
<1>2. Inv /\ [Next]_vars => Inv'
  BY TypeStep, QueueStep, WsStep DEF Inv
<1>3. QED
  BY <1>1, <1>2, PTL DEF Spec

\* The three stores and the commands' variables always have their types.
THEOREM TypeCorrect == Spec => []TypeOK
  BY Invariance, PTL DEF Inv

LEMMA AtWork ==
    ASSUME Inv
    PROVE  OneAtWork
<1> USE LocalWorkAssumption
<1>1. Cardinality(Declared(queue.leases)) <= 1
  <2>1. CASE Declared(queue.leases) = {}
    BY <2>1, FS_EmptySet
  <2>2. CASE Declared(queue.leases) # {}
    <3>1. PICK l : l \in Declared(queue.leases)
      BY <2>2
    <3>2. Declared(queue.leases) = {l}
      BY <3>1 DEF Inv, QueueInv
    <3>3. QED
      BY <3>2, FS_Singleton
  <2>3. QED
    BY <2>1, <2>2
<1>2. OneWriter
  BY <1>1 DEF Inv, QueueInv, OneWriter
<1>3. OneWorkspace
  <2> DEFINE A == {call[w].lease.issue : w \in {v \in Worker : call[v].at = "adding"}}
  <2>1. CASE A = {}
    <3>1. InUse \cup A = InUse
      BY <2>1
    <3>2. QED
      BY <3>1 DEF Inv, WsInv, OneWorkspace
  <2>2. CASE A # {}
    <3>1. PICK w \in Worker : Adding(w)
      BY <2>2 DEF Adding
    <3>2. A = {call[w].lease.issue}
      BY <3>1 DEF Inv, WsInv, Adding
    <3>3. Cardinality(InUse \cup {call[w].lease.issue}) <= MaxActive
      BY <3>1 DEF Inv, WsInv
    <3>4. QED
      BY <3>2, <3>3 DEF OneWorkspace
  <2>3. QED
    BY <2>1, <2>2
<1>4. QED
  BY <1>2, <1>3 DEF OneAtWork

\* However many claims run on one machine there is at most one ACTIVE lease, and
\* never more worktrees in use than config allows (leases.claim, create_workspace).
THEOREM OneWriterAtWork == Spec => []OneAtWork
  BY Invariance, AtWork, PTL

\* A worktree with unsaved work is never taken away.
KeepsUnsaved == \A i \in Issue : tree[i] = "dirty" => tree'[i] # "none"

LEMMA UnsavedStep ==
    ASSUME TypeOK, [Next]_vars
    PROVE  KeepsUnsaved
<1>1. UNCHANGED tree => KeepsUnsaved
  BY DEF KeepsUnsaved
<1>2. ASSUME NEW w \in Worker, Add(w) PROVE KeepsUnsaved
  BY <1>2 DEF Add, AddTree, TypeOK, KeepsUnsaved
<1>3. ASSUME NEW i \in Issue, RemoveTree(i) PROVE KeepsUnsaved
  BY <1>3 DEF RemoveTree, GitRemoves, TypeOK, KeepsUnsaved
<1>4. ASSUME NEW i \in Issue, EditTree(i) \/ CommitTree(i) PROVE KeepsUnsaved
  BY <1>4 DEF EditTree, CommitTree, TypeOK, KeepsUnsaved
<1>5. ASSUME WsNext PROVE KeepsUnsaved
  BY <1>1, <1>3, <1>4, <1>5
     DEF WsNext, HeartbeatWorkspace, ScheduleRetry, CompleteWorkspace, BeginCleanup,
         SaveCleanup, ReconcileWorkspaces, CleanupDies
<1>6. ASSUME NEW w \in Worker, Save(w) \/ Die(w) PROVE UNCHANGED tree
  BY <1>6 DEF Save, SaveTree, Die
<1>7. QED
  BY <1>1, <1>2, <1>5, <1>6
     DEF Next, vars, stored, Decide, CreateByHand, ClaimLocked, AlreadyActive, Refused,
         TakeBack, ReconcileQueue, MoveIssue, Tick

\* cleanup_workspace never removes a worktree with uncommitted work.
THEOREM UnsavedWorkStays == Spec => UnsavedWorkKept
<1>1. TypeOK /\ [Next]_vars => [KeepsUnsaved]_vars
  BY UnsavedStep
<1>2. QED
  BY <1>1, TypeCorrect, PTL DEF Spec, UnsavedWorkKept, KeepsUnsaved

\* A live lease that is gone was stale, or its own claim gave it back.
LostByRight ==
    \A l \in Declared(queue.leases) :
       \/ \E k \in Declared(queue'.leases) : k.id = l.id
       \/ Stale(l)
       \/ call[l.worker].at = "failed" /\ call[l.worker].lease.id = l.id

LEMMA LeaseStep ==
    ASSUME Inv, Next
    PROVE  LostByRight
<1>1. queue.leases \subseteq queue'.leases => LostByRight
  BY DEF LostByRight, Declared
<1>2. ASSUME NEW w \in Worker, ClaimLocked(w) PROVE LostByRight
  BY <1>1, <1>2 DEF ClaimLocked
<1>3. ASSUME NEW w \in Worker, TakeBack(w) PROVE LostByRight
  <2>1. OwnsItsLease(w)
    BY <1>3 DEF TakeBack, Owner, Inv, QueueInv
  <2>2. ASSUME NEW l \in Declared(queue.leases), l.id # call[w].lease.id
        PROVE  l \in Declared(queue'.leases)
    BY <1>3, <2>2 DEF TakeBack, Released, Declared
  <2>3. ASSUME NEW l \in Declared(queue.leases), l.id = call[w].lease.id
        PROVE  call[l.worker].at = "failed" /\ call[l.worker].lease.id = l.id
    BY <1>3, <2>1, <2>3 DEF TakeBack, OwnsItsLease, Declared
  <2>4. QED
    BY <2>2, <2>3 DEF LostByRight
<1>4. ASSUME ReconcileQueue PROVE LostByRight
  <2>1. ASSUME NEW l \in Declared(queue.leases), ~Stale(l) PROVE l \in Declared(queue'.leases)
    BY <1>4, <2>1 DEF ReconcileQueue, Declared
  <2>2. QED
    BY <2>1 DEF LostByRight
<1>5. ASSUME NEW i \in Issue, NEW s \in QueueStates, MoveIssue(i, s) PROVE LostByRight
  BY <1>1, <1>5 DEF MoveIssue, Inv, TypeOK
<1>6. UNCHANGED queue => LostByRight
  BY <1>1
<1>7. QED
  BY <1>2, <1>3, <1>4, <1>5, <1>6
     DEF Next, Decide, CreateByHand, Add, Save, AlreadyActive, Refused, Die, Tick

\* A claim that fails late takes back its own lease and nobody else's
\* (cmd_claim.recover); otherwise a lease is only lost to time.
THEOREM LeasesLostByRight == Spec => LeaseLostByRight
<1>1. Inv /\ [Next]_vars => [LostByRight]_vars
  BY LeaseStep
<1>2. QED
  BY <1>1, Invariance, PTL DEF Spec, LeaseLostByRight, LostByRight

-----------------------------------------------------------------------------
(* The managed surface.                                                    *)

\* A call keeps the fields it has; only their values change.
IsCall(h) == h = [op |-> h.op, tx |-> h.tx, journal |-> h.journal, pc |-> h.pc, at |-> h.at,
                  hit |-> h.hit, blocked |-> h.blocked]
CallsShaped == /\ held = [w \in Process |-> held[w]]
               /\ \A w \in Process : Busy(w) => IsCall(held[w])

\* All calls are made by one process, one after another: an operation locks no more than
\* its own transaction.
OneOperator == \A v, w \in Process : v = w

\* What was seen of a file still holds when it is acted on, unless the consumer came in
\* late; what was seen of the quarantine holds.
Looked == {"remove", "return", "rename", "drop"}
CalmCall(h) ==
    /\ h.pc \in {"remove", "return"} =>
          \A p \in Path : p = Order[h.at] => target[p] \notin Foreign \/ p \in late
    /\ h.pc \in {"rename", "drop"} =>
          \A p \in Path : p = Order[h.at] => Quarantine(h.tx, p) \notin Foreign
Calm == /\ OneOperator
        /\ target = [p \in Path |-> target[p]]
        /\ CallsShaped
        /\ \A w \in Process : Busy(w) => CalmCall(held[w])

LEMMA NotForeign == "absent" \notin Foreign /\ "source" \notin Foreign
  BY SurfaceAssumption

\* The call is replaced by one that acts on nothing it has not looked at.
LEMMA CallStep ==
    ASSUME Calm, NEW w \in Process, NEW g, held' = [held EXCEPT ![w] = g],
           g = Idle \/ (IsCall(g) /\ CalmCall(g)'),
           target' = [p \in Path |-> target'[p]]
    PROVE  Calm'
<1>1. held' = [v \in Process |-> held'[v]] /\ held'[w] = g
  BY DEF Calm, CallsShaped
<1>2. ASSUME NEW v \in Process, Busy(v)' PROVE IsCall(held'[v]) /\ CalmCall(held[v])'
  <2>1. v = w
    BY DEF Calm, OneOperator
  <2>2. QED
    BY <1>1, <1>2, <2>1 DEF Busy
<1>3. CallsShaped'
  BY <1>1, <1>2 DEF CallsShaped
<1>4. QED
  BY <1>2, <1>3 DEF Calm

\* The shapes a step can leave its call in.
Moves(w, g) == held' = [held EXCEPT ![w] = g] /\ IsCall(g)
Turns(w, pcs) == \E g : Moves(w, g) /\ g.pc \in pcs

LEMMA GotoTurns ==
    ASSUME Calm, NEW w \in Process, Busy(w), NEW pc, Goto(w, pc) PROVE Turns(w, {pc})
<1>1. PICK h : h = held[w]
  OBVIOUS
<1>2. PICK g : g = [h EXCEPT !.pc = pc]
  OBVIOUS
<1>3. IsCall(h)
  BY <1>1 DEF Calm, CallsShaped
<1>4. IsCall(g) /\ g.pc = pc
  BY <1>2, <1>3 DEF IsCall
<1>5. held' = [held EXCEPT ![w] = g]
  BY <1>1, <1>2 DEF Goto
<1>6. QED
  BY <1>4, <1>5 DEF Turns, Moves

LEMMA SaveTurns ==
    ASSUME Calm, NEW w \in Process, Busy(w), NEW j, NEW pc,
           SaveAdoption(w, j, pc) \/ SaveDetach(w, j, pc)
    PROVE  Turns(w, {pc})
<1>1. PICK h : h = held[w]
  OBVIOUS
<1>2. PICK g : g = [h EXCEPT !.journal = j, !.pc = pc]
  OBVIOUS
<1>3. IsCall(h)
  BY <1>1 DEF Calm, CallsShaped
<1>4. IsCall(g) /\ g.pc = pc
  BY <1>2, <1>3 DEF IsCall
<1>5. held' = [held EXCEPT ![w] = g]
  BY <1>1, <1>2 DEF SaveAdoption, SaveDetach
<1>6. QED
  BY <1>4, <1>5 DEF Turns, Moves

LEMMA EntryTurns ==
    ASSUME Calm, NEW w \in Process, Busy(w), NEW j, SaveEntry(w, j) \/ SaveRemoved(w, j)
    PROVE  Turns(w, {"post", "entry"})
<1>1. PICK h : h = held[w]
  OBVIOUS
<1>2. PICK pc, at : /\ pc = IF h.at = Len(Order) THEN "post" ELSE "entry"
                    /\ at = IF h.at = Len(Order) THEN h.at ELSE h.at + 1
  OBVIOUS
<1>3. PICK g : g = [h EXCEPT !.journal = j, !.pc = pc, !.at = at]
  OBVIOUS
<1>4. IsCall(h)
  BY <1>1 DEF Calm, CallsShaped
<1>5. IsCall(g) /\ g.pc \in {"post", "entry"}
  BY <1>2, <1>3, <1>4 DEF IsCall
<1>6. held' = [held EXCEPT ![w] = g]
  BY <1>1, <1>2, <1>3 DEF SaveEntry, SaveRemoved
<1>7. QED
  BY <1>5, <1>6 DEF Turns, Moves

\* The undo of an entry goes on to the one below it, or to the directory.
LEMMA UndoFacts ==
    ASSUME NEW h, IsCall(h) PROVE IsCall(UndoNext(h)) /\ UndoNext(h).pc \in {"undo", "rmdir"}
  BY DEF UndoNext, IsCall

LEMMA SettledFacts ==
    ASSUME NEW h, IsCall(h), NEW p, NEW state
    PROVE  IsCall(Settled(h, p, state))
  BY DEF Settled, IsCall

LEMMA RestoredFacts ==
    ASSUME NEW h, IsCall(h), NEW state
    PROVE  IsCall(Restored(h, state)) /\ Restored(h, state).pc \in {"restore", "closed"}
<1>1. PICK p : p = Order[h.at]
  OBVIOUS
<1>2. PICK b : b = [h EXCEPT !.blocked = @ \/ state = "RECOVERY_BLOCKED",
                       !.journal.entry[p] = state,
                       !.journal.moved = IF state = "RESTORED" THEN @ \ {p} ELSE @]
  OBVIOUS
<1>3. IsCall(b)
  BY <1>2 DEF IsCall
<1>4. Restored(h, state) = IF h.at = 1 THEN [b EXCEPT !.pc = "closed"]
                           ELSE [b EXCEPT !.pc = "restore", !.at = @ - 1]
  BY <1>1, <1>2 DEF Restored
<1>5. QED
  BY <1>3, <1>4 DEF IsCall

\* Steps after which nothing that was looked at is acted on.
LEMMA PlainStep ==
    ASSUME Calm, NEW w \in Process, NEW pcs, Turns(w, pcs), pcs \cap Looked = {},
           target' = [p \in Path |-> target'[p]]
    PROVE  Calm'
<1>1. PICK g : Moves(w, g) /\ g.pc \in pcs
  BY DEF Turns
<1>2. CalmCall(g)'
  BY <1>1 DEF CalmCall, Looked
<1>3. QED
  BY <1>1, <1>2, CallStep DEF Moves

LEMMA QuietStep ==
    ASSUME Calm, NEW w \in Process, NEW pcs, Turns(w, pcs), pcs \cap Looked = {},
           UNCHANGED <<target, quarantine>>
    PROVE  Calm'
  BY PlainStep DEF Calm

-----------------------------------------------------------------------------
(* The steps of an adoption and of its undo.                                 *)

LEMMA ApplyStepCalm ==
    ASSUME Calm, NEW w \in Process,
           \/ Begin(w) \/ Preserve(w) \/ PassVerified(w) \/ MakeDirectory(w) \/ RecordDirectory(w)
           \/ Announce(w) \/ Prepare(w) \/ RecordCreated(w) \/ Verify(w) \/ CheckPost(w)
           \/ WriteSnapshot(w) \/ Commit(w) \/ RemoveDirectory(w)
    PROVE  Calm'
<1>1. Busy(w) /\ UNCHANGED <<target, quarantine>>
  BY DEF Begin, Preserve, PassVerified, MakeDirectory, RecordDirectory, Announce, Prepare,
         RecordCreated, Verify, CheckPost, WriteSnapshot, Commit, RemoveDirectory, At, Creating,
         OnlyAdoption, NoSave, files
<1>2. Begin(w) => Turns(w, {"entry"})
  BY <1>1, SaveTurns DEF Begin
<1>3. Preserve(w) \/ PassVerified(w) \/ Verify(w) => Turns(w, {"post", "entry"})
  BY <1>1, EntryTurns DEF Preserve, PassVerified, Verify
<1>4. MakeDirectory(w) => Turns(w, {"record"})
  BY <1>1, GotoTurns DEF MakeDirectory
<1>5. RecordDirectory(w) => Turns(w, {"entry"})
  BY <1>1, SaveTurns DEF RecordDirectory
<1>6. Announce(w) => Turns(w, {"prepare"})
  BY <1>1, SaveTurns DEF Announce
<1>7. Prepare(w) => Turns(w, {"link"})
  BY <1>1, GotoTurns DEF Prepare
<1>8. RecordCreated(w) => Turns(w, {"unstage"})
  BY <1>1, SaveTurns DEF RecordCreated
<1>9. CheckPost(w) => Turns(w, {"snapshot"})
  BY <1>1, GotoTurns DEF CheckPost
<1>10. WriteSnapshot(w) => Turns(w, {"commit"})
  BY <1>1, GotoTurns DEF WriteSnapshot
<1>11. Commit(w) => Turns(w, {"readback"})
  BY <1>1, SaveTurns DEF Commit
<1>12. RemoveDirectory(w) => Turns(w, {"close"})
  BY <1>1, GotoTurns DEF RemoveDirectory
<1>13. \E pcs : Turns(w, pcs) /\ pcs \cap Looked = {}
  BY <1>2, <1>3, <1>4, <1>5, <1>6, <1>7, <1>8, <1>9, <1>10, <1>11, <1>12 DEF Looked
<1>14. QED
  BY <1>1, <1>13, QuietStep

LEMMA LinkStageCalm == ASSUME Calm, NEW w \in Process, LinkStage(w) PROVE Calm'
<1>1. Busy(w) /\ Goto(w, "created") /\ quarantine' = quarantine
  BY DEF LinkStage, At
<1>2. Turns(w, {"created"})
  BY <1>1, GotoTurns
<1>3. target' = [target EXCEPT ![Here(w)] = "source"]
  BY DEF LinkStage
<1>4. target' = [p \in Path |-> target'[p]]
  BY <1>3 DEF Calm
<1>5. QED
  BY <1>1, <1>2, <1>4, PlainStep DEF Looked

LEMMA UnstageCalm == ASSUME Calm, NEW w \in Process, Unstage(w) PROVE Calm'
<1>1. PICK h : h = held[w]
  OBVIOUS
<1>2. PICK g : g = [h EXCEPT !.pc = "verify", !.journal.staged = @ \ {Here(w)}]
  OBVIOUS
<1>3. IsCall(h) /\ UNCHANGED <<target, quarantine>>
  BY <1>1 DEF Calm, CallsShaped, Unstage, At
<1>4. IsCall(g) /\ g.pc = "verify"
  BY <1>2, <1>3 DEF IsCall
<1>5. held' = [held EXCEPT ![w] = g]
  BY <1>1, <1>2 DEF Unstage
<1>6. Turns(w, {"verify"})
  BY <1>4, <1>5 DEF Turns, Moves
<1>7. QED
  BY <1>3, <1>6, QuietStep DEF Looked

LEMMA FailAdoptionCalm == ASSUME Calm, NEW w \in Process, FailAdoption(w) PROVE Calm'
<1>1. PICK h : h = held[w]
  OBVIOUS
<1>2. IsCall(h) /\ UNCHANGED <<target, quarantine>>
  BY <1>1 DEF Calm, CallsShaped, FailAdoption, files
<1>3. PICK j : j = [h.journal EXCEPT !.status = "RECOVERY_REQUIRED"]
  OBVIOUS
<1>4. PICK g : g = Undoing([h EXCEPT !.journal = j])
  OBVIOUS
<1>5. IsCall(g) /\ g.pc = "undo"
  BY <1>2, <1>4 DEF IsCall, Undoing
<1>6. held' = [held EXCEPT ![w] = g]
  BY <1>1, <1>3, <1>4 DEF FailAdoption
<1>7. Turns(w, {"undo"})
  BY <1>5, <1>6 DEF Turns, Moves
<1>8. QED
  BY <1>2, <1>7, QuietStep DEF Looked

\* The steps after which a call is over.
LEMMA OverCalm ==
    ASSUME Calm, NEW w \in Process, held' = [held EXCEPT ![w] = Idle],
           UNCHANGED <<target, quarantine>>
    PROVE  Calm'
  BY CallStep DEF Calm

LEMMA UndoPreservedCalm == ASSUME Calm, NEW w \in Process, UndoPreserved(w) PROVE Calm'
<1>1. PICK h, p : h = held[w] /\ p = Here(w)
  OBVIOUS
<1>2. IsCall(h) /\ UNCHANGED <<target, quarantine>>
  BY <1>1 DEF Calm, CallsShaped, UndoPreserved, Undo, At, files
<1>3. PICK seen : seen = [h EXCEPT !.hit = h.tx[p] \in Foreign /\ target[p] # h.tx[p]]
  OBVIOUS
<1>4. PICK k, g : k = Settled(seen, p, "PRESERVED") /\ g = UndoNext(k)
  OBVIOUS
<1>5. IsCall(seen)
  BY <1>2, <1>3 DEF IsCall
<1>6. IsCall(g) /\ g.pc \in {"undo", "rmdir"}
  BY <1>4, <1>5, SettledFacts, UndoFacts
<1>7. held' = [held EXCEPT ![w] = g]
  BY <1>1, <1>3, <1>4 DEF UndoPreserved
<1>8. Turns(w, {"undo", "rmdir"})
  BY <1>6, <1>7 DEF Turns, Moves
<1>9. QED
  BY <1>2, <1>8, QuietStep DEF Looked

LEMMA UndoTargetCalm == ASSUME Calm, NEW w \in Process, UndoTarget(w) PROVE Calm'
<1>1. PICK h, p : h = held[w] /\ p = Here(w)
  OBVIOUS
<1>2. IsCall(h) /\ UNCHANGED <<target, quarantine>>
  BY <1>1 DEF Calm, CallsShaped, UndoTarget, Undo, At, files
<1>3. PICK pc, hit :
         /\ pc = IF Proven(h, p) /\ target[p] = "source" THEN "remove" ELSE "cleanup"
         /\ hit = IF Proven(h, p) THEN target[p] \in Foreign
                  ELSE h.journal.entry[p] = "STAGING" /\ target[p] = "source" /\ StageGone(h, p)
  OBVIOUS
<1>4. PICK g : g = [h EXCEPT !.pc = pc, !.hit = hit]
  OBVIOUS
<1>5. IsCall(g) /\ g.pc = pc /\ g.at = h.at
  BY <1>2, <1>4 DEF IsCall
<1>6. held' = [held EXCEPT ![w] = g]
  BY <1>1, <1>3, <1>4 DEF UndoTarget
<1>7. CalmCall(g)'
  BY <1>1, <1>2, <1>3, <1>5, NotForeign DEF CalmCall, Here, Looked
<1>8. QED
  BY <1>2, <1>5, <1>6, <1>7, CallStep DEF Calm

LEMMA RemoveTargetCalm == ASSUME Calm, NEW w \in Process, RemoveTarget(w) PROVE Calm'
<1>1. PICK h, p : h = held[w] /\ p = Here(w)
  OBVIOUS
<1>2. /\ IsCall(h) /\ quarantine' = quarantine
      /\ target' = [target EXCEPT ![p] = "absent"]
  BY <1>1 DEF Calm, CallsShaped, RemoveTarget, At
<1>3. PICK hit : hit = (target[p] = "absent")
  OBVIOUS
<1>4. PICK g : g = [h EXCEPT !.pc = "cleanup", !.hit = hit]
  OBVIOUS
<1>5. IsCall(g) /\ g.pc = "cleanup"
  BY <1>2, <1>4 DEF IsCall
<1>6. held' = [held EXCEPT ![w] = g]
  BY <1>1, <1>3, <1>4 DEF RemoveTarget
<1>7. Turns(w, {"cleanup"})
  BY <1>5, <1>6 DEF Turns, Moves
<1>8. target' = [q \in Path |-> target'[q]]
  BY <1>2 DEF Calm
<1>9. QED
  BY <1>7, <1>8, PlainStep DEF Looked

LEMMA UndoStageCalm == ASSUME Calm, NEW w \in Process, UndoStage(w) PROVE Calm'
<1>1. PICK h, p : h = held[w] /\ p = Here(w)
  OBVIOUS
<1>2. IsCall(h) /\ UNCHANGED <<target, quarantine>>
  BY <1>1 DEF Calm, CallsShaped, UndoStage, At
<1>3. PICK seen : seen = [h EXCEPT !.hit = @ \/ (~StageGone(h, p) /\ Stage(h.tx, p) = "partial")]
  OBVIOUS
<1>4. PICK k, g : k = Settled(seen, p, "ROLLED_BACK") /\ g = UndoNext(k)
  OBVIOUS
<1>5. IsCall(seen)
  BY <1>2, <1>3 DEF IsCall
<1>6. IsCall(g) /\ g.pc \in {"undo", "rmdir"}
  BY <1>4, <1>5, SettledFacts, UndoFacts
<1>7. held' = [held EXCEPT ![w] = g]
  BY <1>1, <1>3, <1>4 DEF UndoStage
<1>8. Turns(w, {"undo", "rmdir"})
  BY <1>6, <1>7 DEF Turns, Moves
<1>9. QED
  BY <1>2, <1>8, QuietStep DEF Looked

LEMMA UndoCallFailsCalm == ASSUME Calm, NEW w \in Process, UndoCallFails(w) PROVE Calm'
<1>1. PICK h : h = held[w]
  OBVIOUS
<1>2. IsCall(h) /\ UNCHANGED <<target, quarantine>>
  BY <1>1 DEF Calm, CallsShaped, UndoCallFails, files
<1>3. PICK a, b : a = [h EXCEPT !.pc = "cleanup", !.hit = TRUE] /\ b = [h EXCEPT !.hit = TRUE]
  OBVIOUS
<1>4. PICK g : g = IF h.pc = "remove" THEN a ELSE UndoNext(b)
  OBVIOUS
<1>5. IsCall(a) /\ a.pc = "cleanup" /\ IsCall(b)
  BY <1>2, <1>3 DEF IsCall
<1>6. IsCall(g) /\ g.pc \in {"cleanup", "undo", "rmdir"}
  BY <1>4, <1>5, UndoFacts
<1>7. held' = [held EXCEPT ![w] = g]
  BY <1>1, <1>3, <1>4 DEF UndoCallFails
<1>8. Turns(w, {"cleanup", "undo", "rmdir"})
  BY <1>6, <1>7 DEF Turns, Moves
<1>9. QED
  BY <1>2, <1>8, QuietStep DEF Looked

LEMMA AdoptionStepCalm == ASSUME Calm, NEW w \in Process, AdoptionStep(w) PROVE Calm'
<1>1. ReadBack(w) \/ CloseAdoption(w) =>
         held' = [held EXCEPT ![w] = Idle] /\ UNCHANGED <<target, quarantine>>
  BY DEF ReadBack, CloseAdoption, OnlyAdoption, files
<1>2. QED
  BY <1>1, ApplyStepCalm, LinkStageCalm, UnstageCalm, FailAdoptionCalm, OverCalm,
     UndoPreservedCalm, UndoTargetCalm, RemoveTargetCalm, UndoStageCalm, UndoCallFailsCalm
  DEF AdoptionStep

-----------------------------------------------------------------------------
(* The steps of a detach and of its undo.                                    *)

\* What a write to a quarantine changes.
LEMMA Kept ==
    ASSUME NEW d, NEW p, NEW bytes, Keep(d, p, bytes)
    PROVE  /\ p \in Path => d \in DOMAIN quarantine' /\ quarantine'[d][p] = bytes
           /\ \A e \in DOMAIN quarantine, q \in Path :
                 quarantine'[e][q] = IF e = d /\ q = p THEN bytes ELSE quarantine[e][q]
<1>1. PICK f : f = [q \in Path |-> IF q = p THEN bytes ELSE Quarantine(d, q)]
  OBVIOUS
<1>2. quarantine' = [e \in DOMAIN quarantine \cup {d} |-> IF e = d THEN f ELSE quarantine[e]]
  BY <1>1 DEF Keep, Put
<1>3. QED
  BY <1>1, <1>2 DEF Quarantine

LEMMA DetachStepCalm1 ==
    ASSUME Calm, NEW w \in Process,
           \/ BeginDetach(w) \/ KeepEntry(w) \/ PlanMove(w) \/ RecordMoved(w) \/ VerifyAbsent(w)
           \/ RecordPurged(w) \/ CommitDetach(w) \/ ReadBackDetach(w)
    PROVE  Calm'
<1>1. Busy(w) /\ UNCHANGED <<target, quarantine>>
  BY DEF BeginDetach, KeepEntry, PlanMove, RecordMoved, VerifyAbsent, RecordPurged, CommitDetach,
         ReadBackDetach, Entering, At, OnlyDetach, files
<1>2. BeginDetach(w) \/ PlanMove(w) \/ RecordMoved(w) \/ VerifyAbsent(w) => Turns(w, {"entry"})
  BY <1>1, SaveTurns DEF BeginDetach, PlanMove, RecordMoved, VerifyAbsent
<1>3. KeepEntry(w) \/ RecordPurged(w) => Turns(w, {"post", "entry"})
  BY <1>1, EntryTurns DEF KeepEntry, RecordPurged
<1>4. CommitDetach(w) => Turns(w, {"readback"})
  BY <1>1, SaveTurns DEF CommitDetach
<1>5. ReadBackDetach(w) => Turns(w, {"rmdir"})
  BY <1>1, GotoTurns DEF ReadBackDetach
<1>6. \E pcs : Turns(w, pcs) /\ pcs \cap Looked = {}
  BY <1>2, <1>3, <1>4, <1>5 DEF Looked
<1>7. QED
  BY <1>1, <1>6, QuietStep

LEMMA LookAtFileCalm == ASSUME Calm, NEW w \in Process, LookAtFile(w) PROVE Calm'
<1>1. PICK h, p : h = held[w] /\ p = Here(w)
  OBVIOUS
<1>2. IsCall(h) /\ Busy(w) /\ UNCHANGED <<target, quarantine>>
  BY <1>1 DEF Calm, CallsShaped, LookAtFile, Entering, At, OnlyDetach, files
<1>3. CASE Quarantine(h.tx, p) # "absent"
  <2>1. Turns(w, {"entry"})
    BY <1>1, <1>2, <1>3, SaveTurns DEF LookAtFile
  <2>2. QED
    BY <1>2, <2>1, QuietStep DEF Looked
<1>4. CASE Quarantine(h.tx, p) = "absent"
  <2>1. target[p] = "source" /\ Goto(w, "rename")
    BY <1>1, <1>4 DEF LookAtFile
  <2>2. PICK g : g = [h EXCEPT !.pc = "rename"]
    OBVIOUS
  <2>3. IsCall(g) /\ g.at = h.at /\ g.tx = h.tx /\ g.pc = "rename"
    BY <1>2, <2>2 DEF IsCall
  <2>4. held' = [held EXCEPT ![w] = g]
    BY <1>1, <2>1, <2>2 DEF Goto
  <2>5. CalmCall(g)'
    BY <1>1, <1>2, <1>4, <2>2, <2>3, NotForeign DEF CalmCall, Here, Quarantine
  <2>6. QED
    BY <1>2, <2>3, <2>4, <2>5, CallStep DEF Calm
<1>5. QED
  BY <1>3, <1>4

LEMMA MoveFileCalm == ASSUME Calm, NEW w \in Process, MoveFile(w) PROVE Calm'
<1>1. Busy(w) /\ Goto(w, "moved") /\ target' = [target EXCEPT ![Here(w)] = "absent"]
  BY DEF MoveFile, At
<1>2. Turns(w, {"moved"})
  BY <1>1, GotoTurns
<1>3. target' = [q \in Path |-> target'[q]]
  BY <1>1 DEF Calm
<1>4. QED
  BY <1>2, <1>3, PlainStep DEF Looked

LEMMA PurgeCalm == ASSUME Calm, NEW w \in Process, Purge(w) PROVE Calm'
<1>1. Busy(w) /\ Goto(w, "purged") /\ target' = target
  BY DEF Purge, Entering, At
<1>2. Turns(w, {"purged"})
  BY <1>1, GotoTurns
<1>3. QED
  BY <1>1, <1>2, PlainStep DEF Looked, Calm

LEMMA CheckDetachedCalm == ASSUME Calm, NEW w \in Process, CheckDetached(w) PROVE Calm'
<1>1. PICK h : h = held[w]
  OBVIOUS
<1>2. IsCall(h) /\ UNCHANGED <<target, quarantine>>
  BY <1>1 DEF Calm, CallsShaped, CheckDetached, At, files
<1>3. PICK g : g = [h EXCEPT !.pc = "commit", !.journal.moved = {}]
  OBVIOUS
<1>4. IsCall(g) /\ g.pc = "commit"
  BY <1>2, <1>3 DEF IsCall
<1>5. held' = [held EXCEPT ![w] = g]
  BY <1>1, <1>3 DEF CheckDetached
<1>6. Turns(w, {"commit"})
  BY <1>4, <1>5 DEF Turns, Moves
<1>7. QED
  BY <1>2, <1>6, QuietStep DEF Looked

LEMMA CleanDirectoryCalm == ASSUME Calm, NEW w \in Process, CleanDirectory(w) PROVE Calm'
<1>1. PICK h : h = held[w]
  OBVIOUS
<1>2. IsCall(h) /\ UNCHANGED <<target, quarantine>>
  BY <1>1 DEF Calm, CallsShaped, CleanDirectory, At
<1>3. PICK goes : goes = (Provenance(h.tx) /\ ~h.journal.removed /\ directory /\ Empty)
  OBVIOUS
<1>4. PICK g : g = [h EXCEPT !.pc = "close", !.journal.removed = @ \/ goes]
  OBVIOUS
<1>5. IsCall(g) /\ g.pc = "close"
  BY <1>2, <1>4 DEF IsCall
<1>6. held' = [held EXCEPT ![w] = g]
  BY <1>1, <1>3, <1>4 DEF CleanDirectory
<1>7. Turns(w, {"close"})
  BY <1>5, <1>6 DEF Turns, Moves
<1>8. QED
  BY <1>2, <1>7, QuietStep DEF Looked

LEMMA FailDetachCalm == ASSUME Calm, NEW w \in Process, FailDetach(w) PROVE Calm'
<1>1. PICK h : h = held[w]
  OBVIOUS
<1>2. IsCall(h) /\ UNCHANGED <<target, quarantine>>
  BY <1>1 DEF Calm, CallsShaped, FailDetach, files
<1>3. PICK j : j = [h.journal EXCEPT !.status = "RECOVERY_REQUIRED"]
  OBVIOUS
<1>4. PICK g : g = [h EXCEPT !.journal = j, !.pc = "restore", !.at = Len(Order)]
  OBVIOUS
<1>5. IsCall(g) /\ g.pc = "restore"
  BY <1>2, <1>4 DEF IsCall
<1>6. held' = [held EXCEPT ![w] = g]
  BY <1>1, <1>3, <1>4 DEF FailDetach
<1>7. Turns(w, {"restore"})
  BY <1>5, <1>6 DEF Turns, Moves
<1>8. QED
  BY <1>2, <1>7, QuietStep DEF Looked

LEMMA SettleTurns ==
    ASSUME Calm, NEW w \in Process, Busy(w), NEW state, Settle(w, state)
    PROVE  Turns(w, {"restore", "closed"})
<1>1. PICK h, g : h = held[w] /\ g = Restored(h, state)
  OBVIOUS
<1>2. IsCall(h)
  BY <1>1 DEF Calm, CallsShaped
<1>3. IsCall(g) /\ g.pc \in {"restore", "closed"}
  BY <1>1, <1>2, RestoredFacts
<1>4. held' = [held EXCEPT ![w] = g]
  BY <1>1 DEF Settle
<1>5. QED
  BY <1>3, <1>4 DEF Turns, Moves

LEMMA LookBackCalm == ASSUME Calm, NEW w \in Process, LookBack(w) PROVE Calm'
<1>1. PICK h, p : h = held[w] /\ p = Here(w)
  OBVIOUS
<1>2. IsCall(h) /\ Busy(w) /\ UNCHANGED <<target, quarantine>>
  BY <1>1 DEF Calm, CallsShaped, LookBack, Restore, At, files
<1>3. CASE \E state : Settle(w, state)
  BY <1>2, <1>3, SettleTurns, QuietStep DEF Looked
<1>4. ASSUME NEW next \in {"return", "drop", "restage"}, Goto(w, next),
             next = "return" => target[p] = "absent",
             next = "drop" => Quarantine(h.tx, p) = "source"
      PROVE  Calm'
  <2>1. PICK g : g = [h EXCEPT !.pc = next]
    OBVIOUS
  <2>2. IsCall(g) /\ g.at = h.at /\ g.tx = h.tx /\ g.pc = next
    BY <1>2, <2>1 DEF IsCall
  <2>3. held' = [held EXCEPT ![w] = g]
    BY <1>1, <1>4, <2>1 DEF Goto
  <2>4. CalmCall(g)'
    BY <1>1, <1>2, <1>4, <2>2, NotForeign DEF CalmCall, Here, Quarantine
  <2>5. QED
    BY <1>2, <2>2, <2>3, <2>4, CallStep DEF Calm
<1>5. PICK next :
         /\ next = CASE InQuarantine(w, p) /\ target[p] = "absent" /\ (p \in Nested => directory)
                             -> "return"
                     [] InQuarantine(w, p) /\ target[p] = "source"
                           /\ Quarantine(h.tx, p) = "source" -> "drop"
                     [] ~InQuarantine(w, p) /\ target[p] = "absent" /\ (p \in Nested => directory)
                           /\ h.journal.entry[p] \in MovedOnce -> "restage"
                     [] OTHER -> "none"
  OBVIOUS
<1>6. /\ next \in {"return", "drop", "restage", "none"}
      /\ next = "return" => target[p] = "absent"
      /\ next = "drop" => Quarantine(h.tx, p) = "source"
  BY <1>5
<1>7. IF next # "none" THEN Goto(w, next) ELSE \E state : Settle(w, state)
  BY <1>1, <1>5 DEF LookBack
<1>8. QED
  BY <1>3, <1>4, <1>6, <1>7

LEMMA RestoreNothingCalm == ASSUME Calm, NEW w \in Process, RestoreNothing(w) PROVE Calm'
<1>1. PICK state : state = held[w].journal.entry[Here(w)]
  OBVIOUS
<1>2. Busy(w) /\ Settle(w, state) /\ UNCHANGED <<target, quarantine>>
  BY <1>1 DEF RestoreNothing, At, files
<1>3. Turns(w, {"restore", "closed"})
  BY <1>2, SettleTurns
<1>4. QED
  BY <1>2, <1>3, QuietStep DEF Looked

LEMMA ReturnFileCalm == ASSUME Calm, NEW w \in Process, ReturnFile(w) PROVE Calm'
<1>1. PICK h, p, q : h = held[w] /\ p = Here(w) /\ q = Quarantine(h.tx, p)
  OBVIOUS
<1>2. IsCall(h) /\ target' = [target EXCEPT ![p] = q]
  BY <1>1 DEF Calm, CallsShaped, ReturnFile, At
<1>4. PICK state : state = IF q = "source" THEN "RESTORED" ELSE "RECOVERY_BLOCKED"
  OBVIOUS
<1>5. PICK k : k = Restored(h, state)
  OBVIOUS
<1>6. IsCall(k) /\ k.pc \in {"restore", "closed"}
  BY <1>2, <1>5, RestoredFacts
<1>7. PICK g : g = [k EXCEPT !.journal.moved = @ \ {p}]
  OBVIOUS
<1>8. IsCall(g) /\ g.pc \in {"restore", "closed"}
  BY <1>6, <1>7 DEF IsCall
<1>9. held' = [held EXCEPT ![w] = g]
  BY <1>1, <1>4, <1>5, <1>7 DEF ReturnFile
<1>10. Turns(w, {"restore", "closed"})
  BY <1>8, <1>9 DEF Turns, Moves
<1>11. target' = [x \in Path |-> target'[x]]
  BY <1>2 DEF Calm
<1>12. QED
  BY <1>10, <1>11, PlainStep DEF Looked

LEMMA DropCopyCalm == ASSUME Calm, NEW w \in Process, DropCopy(w) PROVE Calm'
<1>1. Busy(w) /\ Settle(w, "RESTORED") /\ target' = target
  BY DEF DropCopy, At
<1>2. Turns(w, {"restore", "closed"})
  BY <1>1, SettleTurns
<1>3. QED
  BY <1>1, <1>2, PlainStep DEF Looked, Calm

LEMMA RestageCalm == ASSUME Calm, NEW w \in Process, Restage(w) PROVE Calm'
<1>1. Busy(w) /\ UNCHANGED <<target, quarantine>>
  BY DEF Restage, At
<1>2. (\E state : Settle(w, state)) \/ Goto(w, "relink")
  BY DEF Restage
<1>3. Turns(w, {"restore", "closed"}) \/ Turns(w, {"relink"})
  BY <1>1, <1>2, SettleTurns, GotoTurns
<1>4. QED
  BY <1>1, <1>3, QuietStep DEF Looked

LEMMA RelinkSourceCalm == ASSUME Calm, NEW w \in Process, RelinkSource(w) PROVE Calm'
<1>1. PICK h, free : h = held[w] /\ free = (target[Here(w)] = "absent")
  OBVIOUS
<1>2. IsCall(h) /\ (target' = target \/ target' = [target EXCEPT ![Here(w)] = "source"])
  BY <1>1 DEF Calm, CallsShaped, RelinkSource, At
<1>3. PICK g : g = [h EXCEPT !.pc = "clear", !.hit = ~free]
  OBVIOUS
<1>4. IsCall(g) /\ g.pc = "clear"
  BY <1>2, <1>3 DEF IsCall
<1>5. held' = [held EXCEPT ![w] = g]
  BY <1>1, <1>3 DEF RelinkSource
<1>6. Turns(w, {"clear"})
  BY <1>4, <1>5 DEF Turns, Moves
<1>7. target' = [q \in Path |-> target'[q]]
  BY <1>2 DEF Calm
<1>8. QED
  BY <1>6, <1>7, PlainStep DEF Looked

\* A restoral that is settled after its staging file is gone.
LEMMA ClearedTurns ==
    ASSUME Calm, NEW w \in Process, Busy(w), NEW state,
           held' = [held EXCEPT ![w] = Restored([held[w] EXCEPT !.hit = FALSE], state)]
    PROVE  Turns(w, {"restore", "closed"})
<1>1. PICK h : h = held[w]
  OBVIOUS
<1>2. PICK k, g : k = [h EXCEPT !.hit = FALSE] /\ g = Restored(k, state)
  OBVIOUS
<1>3. IsCall(h)
  BY <1>1 DEF Calm, CallsShaped
<1>4. IsCall(k)
  BY <1>2, <1>3 DEF IsCall
<1>5. IsCall(g) /\ g.pc \in {"restore", "closed"}
  BY <1>2, <1>4, RestoredFacts
<1>6. held' = [held EXCEPT ![w] = g]
  BY <1>1, <1>2
<1>7. QED
  BY <1>5, <1>6 DEF Turns, Moves

LEMMA ClearRestageCalm == ASSUME Calm, NEW w \in Process, ClearRestage(w) PROVE Calm'
<1>1. Busy(w) /\ UNCHANGED <<target, quarantine>>
  BY DEF ClearRestage, At
<1>2. \E state : held' = [held EXCEPT ![w] = Restored([held[w] EXCEPT !.hit = FALSE], state)]
  BY DEF ClearRestage
<1>3. QED
  BY <1>1, <1>2, ClearedTurns, QuietStep DEF Looked

LEMMA RestoreCallFailsCalm == ASSUME Calm, NEW w \in Process, RestoreCallFails(w) PROVE Calm'
<1>1. Busy(w) /\ UNCHANGED <<target, quarantine>>
  BY DEF RestoreCallFails, files
<1>2. PICK h : h = held[w]
  OBVIOUS
<1>3. CASE h.pc = "relink"
  <2>1. PICK g : g = [h EXCEPT !.pc = "clear", !.hit = TRUE]
    OBVIOUS
  <2>0. IsCall(h)
    BY <1>1, <1>2 DEF Calm, CallsShaped
  <2>2. IsCall(g) /\ g.pc = "clear"
    BY <2>0, <2>1 DEF IsCall
  <2>3. held' = [held EXCEPT ![w] = g]
    BY <1>2, <1>3, <2>1 DEF RestoreCallFails
  <2>4. Turns(w, {"clear"})
    BY <2>2, <2>3 DEF Turns, Moves
  <2>5. QED
    BY <1>1, <2>4, QuietStep DEF Looked
<1>4. CASE h.pc # "relink"
  <2>1. \E state : held' = [held EXCEPT ![w] = Restored([held[w] EXCEPT !.hit = FALSE], state)]
    BY <1>2, <1>4 DEF RestoreCallFails
  <2>2. QED
    BY <1>1, <2>1, ClearedTurns, QuietStep DEF Looked
<1>5. QED
  BY <1>3, <1>4

LEMMA CloseCalm ==
    ASSUME Calm, NEW w \in Process, CloseDetach(w) \/ CloseRestore(w) PROVE Calm'
<1>1. PICK h : h = held[w]
  OBVIOUS
<1>2. IsCall(h) /\ UNCHANGED <<target, quarantine>>
  BY <1>1 DEF Calm, CallsShaped, CloseDetach, CloseRestore, At, OnlyDetach, files
<1>3. \E j : held' = [held EXCEPT ![w] = [h EXCEPT !.journal = j, !.pc = "plan"]]
             \/ held' = [held EXCEPT ![w] = Idle]
  BY <1>1 DEF CloseDetach, CloseRestore
<1>4. CASE held' = [held EXCEPT ![w] = Idle]
  BY <1>2, <1>4, OverCalm
<1>5. ASSUME NEW j, held' = [held EXCEPT ![w] = [h EXCEPT !.journal = j, !.pc = "plan"]]
      PROVE  Calm'
  <2>1. PICK g : g = [h EXCEPT !.journal = j, !.pc = "plan"]
    OBVIOUS
  <2>2. IsCall(g) /\ g.pc = "plan"
    BY <1>2, <2>1 DEF IsCall
  <2>3. Turns(w, {"plan"})
    BY <1>5, <2>1, <2>2 DEF Turns, Moves
  <2>4. QED
    BY <1>2, <2>3, QuietStep DEF Looked
<1>6. QED
  BY <1>3, <1>4, <1>5

\* A call that starts has seen nothing yet.
LEMMA FreshDetach ==
    ASSUME Calm, NEW w \in Process, UNCHANGED <<target, quarantine>>,
           NEW op, NEW d, NEW j, NEW pc, pc \in {"begin", "restore", "rmdir"}, NEW at,
           held' = [held EXCEPT ![w] = DetachCall(op, d, j, pc, at)]
    PROVE  Calm'
<1>1. PICK g : g = DetachCall(op, d, j, pc, at)
  OBVIOUS
<1>2. IsCall(g) /\ g.pc = pc
  BY <1>1 DEF IsCall, DetachCall
<1>3. Turns(w, {pc})
  BY <1>1, <1>2 DEF Turns, Moves
<1>4. QED
  BY <1>3, QuietStep DEF Looked

LEMMA FreshCall ==
    ASSUME Calm, NEW w \in Process, UNCHANGED <<target, quarantine>>,
           \/ \E op, t, j : held' = [held EXCEPT ![w] = AdoptionCall(op, t, j, "begin", 1)]
           \/ \E op, t, j : held' = [held EXCEPT ![w] =
                                        Undoing(AdoptionCall(op, t, j, "undo", 1))]
           \/ \E op, d, j, pc, at : /\ pc \in {"begin", "restore", "rmdir"}
                                    /\ held' = [held EXCEPT ![w] = DetachCall(op, d, j, pc, at)]
    PROVE  Calm'
<1>1. CASE \E op, t, j : held' = [held EXCEPT ![w] = AdoptionCall(op, t, j, "begin", 1)]
  <2>1. PICK op, t, j : held' = [held EXCEPT ![w] = AdoptionCall(op, t, j, "begin", 1)]
    BY <1>1
  <2>2. PICK g : g = AdoptionCall(op, t, j, "begin", 1)
    OBVIOUS
  <2>3. IsCall(g) /\ g.pc = "begin"
    BY <2>2 DEF IsCall, AdoptionCall
  <2>4. Turns(w, {"begin"})
    BY <2>1, <2>2, <2>3 DEF Turns, Moves
  <2>5. QED
    BY <2>4, QuietStep DEF Looked
<1>2. CASE \E op, t, j : held' = [held EXCEPT ![w] = Undoing(AdoptionCall(op, t, j, "undo", 1))]
  <2>1. PICK op, t, j : held' = [held EXCEPT ![w] = Undoing(AdoptionCall(op, t, j, "undo", 1))]
    BY <1>2
  <2>2. PICK g : g = Undoing(AdoptionCall(op, t, j, "undo", 1))
    OBVIOUS
  <2>3. IsCall(g) /\ g.pc = "undo"
    BY <2>2 DEF IsCall, AdoptionCall, Undoing
  <2>4. Turns(w, {"undo"})
    BY <2>1, <2>2, <2>3 DEF Turns, Moves
  <2>5. QED
    BY <2>4, QuietStep DEF Looked
<1>3. ASSUME NEW op, NEW d, NEW j, NEW pc, pc \in {"begin", "restore", "rmdir"}, NEW at,
             held' = [held EXCEPT ![w] = DetachCall(op, d, j, pc, at)]
      PROVE  Calm'
  BY <1>3, FreshDetach
<1>4. QED
  BY <1>1, <1>2, <1>3

LEMMA StartOverCalm == ASSUME Calm, NEW w \in Process, StartOver(w) PROVE Calm'
<1>1. PICK d, j : d = held[w].tx /\ j = NewDetach(d)
  OBVIOUS
<1>2. /\ UNCHANGED <<target, quarantine>>
      /\ \/ held' = [held EXCEPT ![w] = DetachCall("detach", d, j, "begin", 1)]
         \/ held' = [held EXCEPT ![w] = Idle]
  BY <1>1 DEF StartOver, OnlyDetach, files
<1>3. CASE held' = [held EXCEPT ![w] = Idle]
  BY <1>2, <1>3, OverCalm
<1>4. CASE held' = [held EXCEPT ![w] = DetachCall("detach", d, j, "begin", 1)]
  <2>1. PICK op, pc, at : /\ op = "detach" /\ pc = "begin" /\ at = 1
                          /\ held' = [held EXCEPT ![w] = DetachCall(op, d, j, pc, at)]
    BY <1>4
  <2>2. pc \in {"begin", "restore", "rmdir"}
    BY <2>1
  <2>3. QED
    BY <1>2, <2>1, <2>2, FreshDetach
<1>5. QED
  BY <1>2, <1>3, <1>4

LEMMA DetachStepCalm == ASSUME Calm, NEW w \in Process, DetachStep(w) PROVE Calm'
  BY DetachStepCalm1, LookAtFileCalm, MoveFileCalm, PurgeCalm, CheckDetachedCalm,
     CleanDirectoryCalm, FailDetachCalm, LookBackCalm, RestoreNothingCalm, ReturnFileCalm,
     DropCopyCalm, RestageCalm, RelinkSourceCalm, ClearRestageCalm, RestoreCallFailsCalm, CloseCalm, StartOverCalm
  DEF DetachStep

LEMMA CallsCalm == ASSUME Calm, NEW w \in Process, Calls(w) PROVE Calm'
<1>1. ASSUME NEW t, ApplyAdoption(w, t) PROVE Calm'
  <2>1. /\ \E op, u, j : held' = [held EXCEPT ![w] = AdoptionCall(op, u, j, "begin", 1)]
        /\ UNCHANGED <<target, quarantine>>
    BY <1>1 DEF ApplyAdoption, files
  <2>2. QED
    BY <2>1, FreshCall
<1>2. ASSUME NEW t, RecoverAdoption(w, t) PROVE Calm'
  <2>1. /\ \E op, u, j : held' = [held EXCEPT ![w] = Undoing(AdoptionCall(op, u, j, "undo", 1))]
        /\ UNCHANGED <<target, quarantine>>
    BY <1>2 DEF RecoverAdoption, files
  <2>2. QED
    BY <2>1, FreshCall
<1>3. ASSUME NEW d, ApplyDetach(w, d) \/ RecoverDetach(w, d) PROVE Calm'
  <2>1. /\ \E op, e, k, pc, at : /\ pc \in {"begin", "restore", "rmdir"}
                                 /\ held' = [held EXCEPT ![w] = DetachCall(op, e, k, pc, at)]
        /\ UNCHANGED <<target, quarantine>>
    BY <1>3 DEF ApplyDetach, RecoverDetach, OnlyDetach, files
  <2>2. QED
    BY <2>1, FreshCall
<1>4. QED
  BY <1>1, <1>2, <1>3 DEF Calls

-----------------------------------------------------------------------------
(* The consumer may change any file at any moment.                           *)

LEMMA EditCalm ==
    ASSUME Calm, NEW p \in Path, NEW bytes, Edit(p, bytes) PROVE Calm'
<1>1. /\ target' = [target EXCEPT ![p] = bytes] /\ UNCHANGED <<held, quarantine>>
      /\ late' = IF \E w \in Process : ActsOn(w, p) THEN late \cup {p} ELSE late
  BY DEF Edit
<1>2. \A w \in Process : Busy(w)' => Busy(w) /\ held'[w] = held[w]
  BY <1>1 DEF Busy
<1>3. ASSUME NEW w \in Process, Busy(w)' PROVE CalmCall(held[w])'
  <2>1. PICK h : h = held[w]
    OBVIOUS
  <2>2. h = held'[w] /\ CalmCall(h) /\ Busy(w)
    BY <1>2, <1>3, <2>1 DEF Calm
  <2>3. ASSUME h.pc \in {"remove", "return"}, NEW q \in Path, q = Order[h.at]
        PROVE  target'[q] \notin Foreign \/ q \in late'
    <3>1. CASE q = p
      <4>1. ActsOn(w, p)
        BY <2>1, <2>2, <2>3, <3>1 DEF ActsOn, Here
      <4>2. QED
        BY <1>1, <3>1, <4>1
    <3>2. CASE q # p
      <4>1. target'[q] = target[q] /\ (q \in late => q \in late')
        BY <1>1, <3>2 DEF Calm
      <4>2. QED
        BY <2>2, <2>3, <4>1 DEF CalmCall
    <3>3. QED
      BY <3>1, <3>2
  <2>4. ASSUME h.pc \in {"rename", "drop"}, NEW q \in Path, q = Order[h.at]
        PROVE  Quarantine(h.tx, q)' \notin Foreign
    BY <1>1, <2>2, <2>4 DEF CalmCall, Quarantine
  <2>5. CalmCall(h)'
    BY <2>3, <2>4 DEF CalmCall
  <2>6. QED
    BY <2>2, <2>5
<1>4. CallsShaped'
  BY <1>1, <1>2 DEF Calm, CallsShaped
<1>5. QED
  BY <1>1, <1>3, <1>4 DEF Calm

LEMMA CalmInvariant == ASSUME OneOperator PROVE SurfaceSpec => []Calm
<1>1. SurfaceInit => Calm
  BY DEF SurfaceInit, Calm, CallsShaped, Busy
<1>2. Calm /\ [SurfaceNext]_surface => Calm'
  <2>1. SUFFICES ASSUME Calm, [SurfaceNext]_surface PROVE Calm'
    OBVIOUS
  <2>2. ASSUME NEW w \in Process, Crash(w) PROVE Calm'
    BY <2>1, <2>2, OverCalm DEF Crash
  <2>3. CASE UNCHANGED surface
    BY <2>1, <2>3
    DEF surface, files, environment, history, Calm, CallsShaped, Busy, CalmCall, Quarantine
  <2>4. QED
    BY <2>1, <2>2, <2>3, CallsCalm, AdoptionStepCalm, DetachStepCalm, EditCalm DEF SurfaceNext
<1>3. QED
  BY <1>1, <1>2, PTL DEF SurfaceSpec

\* Six steps replace a file or what a quarantine holds; all others leave both alone.
Replaces(w) == \/ LinkStage(w) \/ RemoveTarget(w) \/ MoveFile(w) \/ ReturnFile(w)
               \/ RelinkSource(w) \/ Purge(w) \/ DropCopy(w)

LEMMA OthersReplaceNothing ==
    ASSUME NEW w \in Process, ~Replaces(w),
           AdoptionStep(w) \/ DetachStep(w) \/ Calls(w) \/ Crash(w)
    PROVE  UNCHANGED <<target, quarantine>>
<1>1. CASE AdoptionStep(w)
  BY <1>1 DEF Replaces, AdoptionStep, Begin, Preserve, PassVerified, MakeDirectory,
     RecordDirectory, Announce, Prepare, RecordCreated, Unstage, Verify, CheckPost,
     WriteSnapshot, Commit, ReadBack, FailAdoption, UndoPreserved, UndoTarget, UndoStage,
     UndoCallFails, RemoveDirectory, CloseAdoption, OnlyAdoption, files
<1>2. CASE DetachStep(w)
  BY <1>2 DEF Replaces, DetachStep, BeginDetach, KeepEntry, PlanMove, LookAtFile, RecordMoved,
     VerifyAbsent, RecordPurged, CheckDetached, CommitDetach, ReadBackDetach, CleanDirectory,
     CloseDetach, FailDetach, RestoreNothing, LookBack, Restage, ClearRestage,
     RestoreCallFails, CloseRestore, StartOver, OnlyDetach, files
<1>3. CASE Calls(w) \/ Crash(w)
  BY <1>3 DEF Calls, Crash, ApplyAdoption, RecoverAdoption, ApplyDetach, RecoverDetach,
              OnlyDetach, files
<1>4. QED
  BY <1>1, <1>2, <1>3

\* What a step does to a file of the consumer, and to its bytes in a quarantine.
FileKept(p) == target[p] \in Foreign /\ target'[p] # target[p] =>
    (\E d \in DOMAIN quarantine' : quarantine'[d][p] = target[p]) \/ Overtaken(p)
CopyKept(p) == \A d \in DOMAIN quarantine : quarantine[d][p] \in Foreign =>
    quarantine'[d][p] = quarantine[d][p] \/ target'[p] = quarantine[d][p]

LEMMA ReplacesKeepsForeign ==
    ASSUME Calm, NEW w \in Process, Replaces(w), NEW p \in Path
    PROVE  FileKept(p) /\ CopyKept(p)
<1>1. \A q, b : target' = [target EXCEPT ![q] = b] =>
         target'[p] = IF q = p THEN b ELSE target[p]
  BY DEF Calm
<1>2. CASE LinkStage(w)
  <2>1. target' = [target EXCEPT ![Here(w)] = "source"] /\ quarantine' = quarantine
        /\ target[Here(w)] \in {"absent", "source"}
    BY <1>2 DEF LinkStage
  <2>2. QED
    BY <1>1, <2>1, NotForeign DEF FileKept, CopyKept
<1>3. CASE RemoveTarget(w)
  <2>1. /\ target' = [target EXCEPT ![Here(w)] = "absent"] /\ quarantine' = quarantine
        /\ Busy(w) /\ held[w].pc = "remove"
    BY <1>3 DEF RemoveTarget, At
  <2>2. p = Here(w) => (target[p] \notin Foreign \/ p \in late) /\ ActsOn(w, p)
    BY <2>1 DEF Calm, CalmCall, Here, ActsOn
  <2>3. QED
    BY <1>1, <2>1, <2>2 DEF FileKept, CopyKept, Overtaken
<1>4. CASE MoveFile(w)
  <2>1. PICK d, q : d = held[w].tx /\ q = Here(w)
    OBVIOUS
  <2>2. /\ target' = [target EXCEPT ![q] = "absent"] /\ Keep(d, q, target[q])
        /\ Busy(w) /\ held[w].pc = "rename"
    BY <1>4, <2>1 DEF MoveFile, At
  <2>3. p = q => Quarantine(d, p) \notin Foreign
    BY <2>1, <2>2 DEF Calm, CalmCall, Here
  <2>4. p = q => d \in DOMAIN quarantine' /\ quarantine'[d][p] = target[p]
    BY <2>2, Kept
  <2>5. FileKept(p)
    BY <1>1, <2>2, <2>4 DEF FileKept
  <2>6. CopyKept(p)
    BY <2>2, <2>3, Kept DEF CopyKept, Quarantine
  <2>7. QED
    BY <2>5, <2>6
<1>5. CASE ReturnFile(w)
  <2>1. PICK d, q, b : d = held[w].tx /\ q = Here(w) /\ b = Quarantine(d, q)
    OBVIOUS
  <2>2. /\ target' = [target EXCEPT ![q] = b] /\ Keep(d, q, "absent")
        /\ Busy(w) /\ held[w].pc = "return"
    BY <1>5, <2>1 DEF ReturnFile, At
  <2>3. p = q => (target[p] \notin Foreign \/ p \in late) /\ ActsOn(w, p)
    BY <2>1, <2>2 DEF Calm, CalmCall, Here, ActsOn
  <2>4. FileKept(p)
    BY <1>1, <2>2, <2>3 DEF FileKept, Overtaken
  <2>5. ASSUME NEW e \in DOMAIN quarantine, quarantine[e][p] \in Foreign
        PROVE  quarantine'[e][p] = quarantine[e][p] \/ target'[p] = quarantine[e][p]
    <3>1. CASE e = d /\ p = q
      BY <1>1, <2>1, <2>2, <2>5, <3>1 DEF Quarantine
    <3>2. CASE ~(e = d /\ p = q)
      BY <2>2, <2>5, <3>2, Kept
    <3>3. QED
      BY <3>1, <3>2
  <2>6. QED
    BY <2>4, <2>5 DEF CopyKept
<1>6. CASE RelinkSource(w)
  <2>1. /\ quarantine' = quarantine
        /\ \/ target' = target
           \/ target' = [target EXCEPT ![Here(w)] = "source"] /\ target[Here(w)] = "absent"
    BY <1>6 DEF RelinkSource
  <2>2. QED
    BY <1>1, <2>1, NotForeign DEF FileKept, CopyKept
<1>7. CASE Purge(w) \/ DropCopy(w)
  <2>1. PICK d, q : d = held[w].tx /\ q = Here(w)
    OBVIOUS
  <2>2. target' = target /\ Keep(d, q, "absent")
    BY <1>7, <2>1 DEF Purge, DropCopy
  <2>3. Purge(w) => Quarantine(d, q) = "source"
    BY <2>1 DEF Purge
  <2>4. DropCopy(w) => (p = q => Quarantine(d, p) \notin Foreign)
    BY <2>1 DEF DropCopy, At, Calm, CalmCall, Here
  <2>5. p = q => Quarantine(d, p) \notin Foreign
    BY <1>7, <2>3, <2>4, NotForeign
  <2>6. QED
    BY <2>2, <2>5, Kept DEF FileKept, CopyKept, Quarantine
<1>8. QED
  BY <1>2, <1>3, <1>4, <1>5, <1>6, <1>7 DEF Replaces

Counted == edits \in Nat

\* No operation ever destroys bytes of the consumer, for any manifest and any plans of one
\* operator, wherever a call dies or fails and whenever the consumer acts.  Only a change
\* behind the check of the very next unlink or rename can be lost (Overtaken).
THEOREM SurfaceBytesSurvive == ASSUME OneOperator PROVE SurfaceSpec => ConsumerBytesSurvive
<1>1. SurfaceInit => Counted
  BY DEF SurfaceInit, Counted
<1>2. Counted /\ [SurfaceNext]_surface => Counted'
  <2>1. ASSUME NEW w \in Process, Calls(w) \/ Crash(w) PROVE edits' = edits
    BY <2>1 DEF Calls, Crash, ApplyAdoption, RecoverAdoption, ApplyDetach, RecoverDetach,
                OnlyDetach, NoSave, environment, history
  <2>2. ASSUME NEW w \in Process, AdoptionStep(w) PROVE edits' = edits
    BY <2>2 DEF AdoptionStep, Begin, Preserve, PassVerified, MakeDirectory, RecordDirectory,
       Announce, Prepare, LinkStage, RecordCreated, Unstage, Verify, CheckPost, WriteSnapshot,
       Commit, ReadBack, FailAdoption, UndoPreserved, UndoTarget, RemoveTarget, UndoStage,
       UndoCallFails, RemoveDirectory, CloseAdoption, OnlyAdoption, NoSave, environment, history
  <2>3. ASSUME NEW w \in Process, DetachStep(w) PROVE edits' = edits
    BY <2>3 DEF DetachStep, BeginDetach, KeepEntry, PlanMove, LookAtFile, MoveFile, RecordMoved,
       VerifyAbsent, Purge, RecordPurged, CheckDetached, CommitDetach, ReadBackDetach,
       CleanDirectory, CloseDetach, FailDetach, RestoreNothing, LookBack, ReturnFile, DropCopy,
       Restage, RelinkSource, ClearRestage, RestoreCallFails, CloseRestore, StartOver,
       OnlyDetach, NoSave, environment, history
  <2>4. ASSUME NEW p \in Path, NEW bytes \in Bytes, Edit(p, bytes) PROVE edits' = edits + 1
    BY <2>4 DEF Edit
  <2>5. [SurfaceNext]_surface => edits' = edits \/ edits' = edits + 1
    BY <2>1, <2>2, <2>3, <2>4 DEF SurfaceNext, surface, environment, history
  <2>6. QED
    BY <2>5 DEF Counted
<1>3. Calm /\ Counted /\ [SurfaceNext]_surface => [KeepsForeign]_surface
  <2>1. SUFFICES ASSUME Calm, edits \in Nat, SurfaceNext, NEW p \in Path
                 PROVE  /\ edits' = edits => FileKept(p)
                        /\ CopyKept(p)
    BY DEF KeepsForeign, FileKept, CopyKept, Counted
  <2>2. ASSUME NEW q \in Path, NEW bytes, Edit(q, bytes)
        PROVE  edits' # edits /\ CopyKept(p)
    BY <2>1, <2>2 DEF Edit, CopyKept
  <2>3. ASSUME NEW w \in Process, Replaces(w) PROVE FileKept(p) /\ CopyKept(p)
    BY <2>1, <2>3, ReplacesKeepsForeign
  <2>4. ASSUME NEW w \in Process, ~Replaces(w),
               AdoptionStep(w) \/ DetachStep(w) \/ Calls(w) \/ Crash(w)
        PROVE  FileKept(p) /\ CopyKept(p)
    BY <2>4, OthersReplaceNothing DEF FileKept, CopyKept
  <2>5. QED
    BY <2>1, <2>2, <2>3, <2>4 DEF SurfaceNext
<1>4. SurfaceSpec => []Calm
  BY CalmInvariant
<1>5. QED
  BY <1>1, <1>2, <1>3, <1>4, PTL DEF SurfaceSpec, ConsumerBytesSurvive

-----------------------------------------------------------------------------
(* The statuses of the managed surface.  StatusInv relates the files, the    *)
(* staging files and the quarantine to the journals, and says of every call  *)
(* what it knows at each of its writes.                                      *)

\* A journal of an adoption that proves nothing to be its own.
Spent(j) == \A p \in Path : j.entry[p] \notin {"CREATED", "VERIFIED"} /\ p \notin j.staged

\* A journal that lets a rollback find a file of its adoption, or stumble over it.
Owns(j, t, p) == \/ j.entry[p] \in {"CREATED", "VERIFIED"}
                 \/ /\ j.entry[p] = "STAGING" /\ p \in j.staged
                    /\ Linked(t, p) \/ Stage(t, p) = "absent"
Tracks(j, t) == /\ \A p \in Path : Stage(t, p) # "absent" => p \in j.staged
                /\ t \notin resumed => \A p \in Path : maker[p] = t => Owns(j, t, p)

MakersOK == \A p \in Path :
    /\ maker[p] \in DOMAIN adoption \cup {Consumer}
    /\ maker[p] \in DOMAIN adoption => target[p] = "source" /\ maker[p][p] = "CREATE_PLANNED"

AdoptionOK(t) ==
    /\ \A p \in Path : Stage(t, p) # "absent" => t[p] = "CREATE_PLANNED"
    /\ adoption[t].status # "COMMITTED" => Tracks(adoption[t], t)
    /\ adoption[t].status = "COMMITTED" => t \in snapshot
    /\ adoption[t].status = "ROLLED_BACK" =>
          Spent(adoption[t]) /\ (t \notin resumed => \A p \in Path : maker[p] # t)

\* Beside a committed adoption every other is over.
Over(u) == adoption[u].status \in {"ROLLED_BACK", "RECOVERY_BLOCKED"} /\ Spent(adoption[u])
OneCommitted == \A t, u \in DOMAIN adoption :
    t # u /\ adoption[t].status = "COMMITTED" => Over(u)

\* The evidence that a detach took a file away.
TakenEntry == {"VERIFIED_ABSENT", "PURGED", "RECOVERY_BLOCKED"}
MovedBy(e, p) == p \in Leaves(e) /\ (Quarantine(e, p) = "source" \/ detach[e].entry[p] \in TakenEntry)
InPlace(t, p) == \/ target[p] = Expected(t, p)
                 \/ t[p] = "CREATE_PLANNED" /\ \E e \in DOMAIN detach : MovedBy(e, p)
AllInPlace == \A t \in DOMAIN adoption, p \in Path \ touched :
    adoption[t].status = "COMMITTED" => InPlace(t, p)

DetachShape(j, d) ==
    /\ \A p \in Path : /\ j.entry[p] \notin {"ALREADY_ABSENT", "PRESERVED"} => p \in Leaves(d)
                       /\ j.entry[p] = "RESTORED" => Quarantine(d, p) = "absent"
                       /\ Quarantine(d, p) # "absent" => p \in j.moved
    /\ j.status = "PLANNED" => j.moved = {}
    /\ j.status = "ROLLED_BACK" => \A p \in Leaves(d) : j.entry[p] = "RESTORED"
MovesPlanned(j) == j.status \in {"PLANNED", "DETACHING"} =>
    \A p \in Path : j.entry[p] = "QUARANTINE_PLANNED" => p \in j.moved
DetachOK(d) ==
    /\ d.adoption \in DOMAIN adoption /\ adoption[d.adoption].status = "COMMITTED"
    /\ \A p \in Path : Quarantine(d, p) # "absent" =>
          /\ p \in Leaves(d) /\ Quarantine(d, p) \in Bytes
          /\ (p \in touched \/ Quarantine(d, p) = "source")
    /\ DetachShape(detach[d], d) /\ MovesPlanned(detach[d])

\* What an adoption knows at each of its writes.
InEntry == {"record", "prepare", "link", "created", "unstage", "verify"}
ApplyKnows(h) == LET t == h.tx  j == h.journal  p == Order[h.at] IN
    /\ h.pc # "verify" => j = adoption[t]
    /\ j.status = adoption[t].status /\ j.status # "ROLLED_BACK"
    /\ t \notin resumed /\ h.pc \in InEntry \cup {"begin", "entry"} =>
          \A q \in Path : maker[q] = t => \/ j.entry[q] = "VERIFIED"
                                          \/ q = p /\ h.pc \in {"created", "unstage", "verify"}
    /\ h.pc \in InEntry => t[p] = "CREATE_PLANNED"
    /\ h.pc \in {"prepare", "link", "created"} => j.entry[p] = "STAGING" /\ p \in j.staged
    /\ h.pc \in {"unstage", "verify"} => j.entry[p] = "CREATED"
    /\ h.pc \in {"snapshot", "commit", "readback"} =>
          \A q \in Path \ touched : target[q] = Expected(t, q)
    /\ h.pc \in {"commit", "readback"} => t \in snapshot

UndoKnows(h) == LET t == h.tx  j == h.journal  p == Order[h.at] IN
    /\ Spent(adoption[t]) => Spent(j)
    /\ h.pc = "remove" => j.entry[p] \in {"CREATED", "VERIFIED"} \/ p \in j.staged
    /\ h.pc = "cleanup" /\ ~h.hit /\ t \notin resumed => maker[p] # t
    /\ ~h.blocked => \A i \in DOMAIN Order : i > h.at \/ h.pc \in {"rmdir", "close"} =>
          /\ j.entry[Order[i]] \notin {"CREATED", "VERIFIED"} /\ Order[i] \notin j.staged
          /\ t \notin resumed => maker[Order[i]] # t

AdoptionKnows(h) ==
    /\ Tracks(h.journal, h.tx)
    /\ adoption[h.tx].status = "COMMITTED" => h.pc = "readback"
    /\ \A d \in DOMAIN detach : d.adoption # h.tx
    /\ h.op = "apply" => \A u \in DOMAIN adoption \ {h.tx} : Over(u)
    /\ h.pc \in ApplySteps \cup UndoSteps
    /\ h.pc \in ApplySteps => h.op = "apply" /\ ApplyKnows(h)
    /\ h.pc \in UndoSteps => UndoKnows(h)

\* What a detach knows at each of its writes.
MoveKnows(h) == LET d == h.tx  j == h.journal  p == Order[h.at] IN
    /\ j.entry = detach[d].entry /\ j.status # "ROLLED_BACK"
    /\ h.pc \in {"begin", "entry", "rename", "moved", "purged", "post"} => j = detach[d]
    /\ h.pc = "begin" => j.status \in {"PLANNED", "DETACHING"}
    /\ h.pc \in {"entry", "rename", "moved", "purged", "post"} => j.status = "DETACHING"
    /\ h.pc \in {"readback", "rmdir", "close"} => j.status = "COMMITTED"
    /\ h.pc \in {"rename", "moved"} => j.entry[p] = "QUARANTINE_PLANNED"
    /\ h.pc = "rename" => p \in touched \/ target[p] = "source"
    /\ h.pc = "purged" => j.entry[p] = "VERIFIED_ABSENT" /\ Quarantine(d, p) = "absent"

Restoral == {"return", "drop", "restage", "relink", "clear"}
RestoreKnows(h) == LET d == h.tx  j == h.journal  p == Order[h.at] IN
    /\ j.status # "ROLLED_BACK"
    /\ \A q \in Path : j.entry[q] = "PENDING" => detach[d].entry[q] = "PENDING"
    /\ \A q \in Leaves(d) \ touched : j.entry[q] = "RESTORED" =>
          target[q] = "source" \/ \E e \in DOMAIN detach \ {d} : MovedBy(e, q)
    /\ \A i \in DOMAIN Order : (i > h.at \/ h.pc = "closed") /\ Order[i] \in Leaves(d) =>
          /\ j.entry[Order[i]] \in {"RESTORED", "RECOVERY_BLOCKED"}
          /\ ~h.blocked => j.entry[Order[i]] = "RESTORED"
    /\ h.pc \in Restoral => p \in Leaves(d)
    /\ h.pc = "return" => p \in touched \/ Quarantine(d, p) = "source"
    /\ h.pc = "drop" => p \in touched \/ target[p] = "source"
    /\ h.pc \in {"restage", "relink", "clear"} => Quarantine(d, p) = "absent"

Restoring == {"restore", "closed"} \cup Restoral
DetachKnows(h) ==
    /\ DetachShape(h.journal, h.tx)
    /\ h.pc \in MoveSteps \cup Restoring \cup {"begin", "plan"}
    /\ h.pc \in MoveSteps \cup {"begin"} => MoveKnows(h)
    /\ h.pc \in Restoring => RestoreKnows(h)
    /\ h.pc = "plan" => detach[h.tx].status = "ROLLED_BACK"

CallTypes(h) ==
    /\ h.at \in DOMAIN Order /\ h.hit \in BOOLEAN /\ h.blocked \in BOOLEAN
    /\ \/ h.op \in {"apply", "recover"} /\ h.tx \in DOMAIN adoption /\ h.journal \in AdoptionJournal
       \/ h.op \in DetachOps /\ h.tx \in DOMAIN detach /\ h.journal \in DetachJournal

CallOK(h) == /\ CallTypes(h)
             /\ h.op \in {"apply", "recover"} => AdoptionKnows(h)
             /\ h.op \in DetachOps => DetachKnows(h)
KnowsOK == \A w \in Process : Busy(w) => CallOK(held[w])

FilesTyped ==
    /\ target \in [Path -> Bytes] /\ maker = [p \in Path |-> maker[p]]
    /\ adoption = [t \in DOMAIN adoption |-> adoption[t]]
    /\ \A t \in DOMAIN adoption : t \in Adoption /\ adoption[t] \in AdoptionJournal
    /\ \A t \in DOMAIN stage : /\ t \in DOMAIN adoption
                              /\ stage[t] \in [Path -> {"absent", "source", "partial"}]
    /\ detach = [d \in DOMAIN detach |-> detach[d]]
    /\ \A d \in DOMAIN detach : detach[d] \in DetachJournal
    /\ DOMAIN quarantine \subseteq DOMAIN detach

StatusInv == /\ FilesTyped /\ MakersOK /\ OneCommitted /\ AllInPlace
             /\ \A t \in DOMAIN adoption : AdoptionOK(t)
             /\ \A d \in DOMAIN detach : DetachOK(d)
             /\ KnowsOK

-----------------------------------------------------------------------------
LEMMA PutStage ==
    ASSUME NEW t, NEW f, stage' = Put(stage, t, f), NEW u, NEW p
    PROVE  Stage(u, p)' = IF u = t THEN f[p] ELSE Stage(u, p)
  BY DEF Put, Stage

LEMMA PutLinked ==
    ASSUME NEW t, NEW S, linked' = Put(linked, t, S), NEW u, NEW p
    PROVE  Linked(u, p)' <=> IF u = t THEN p \in S ELSE Linked(u, p)
  BY DEF Put, Linked

LEMMA KeepFacts ==
    ASSUME NEW d, NEW p, NEW bytes, Keep(d, p, bytes), NEW e, NEW q \in Path
    PROVE  Quarantine(e, q)' = IF e = d /\ q = p THEN bytes ELSE Quarantine(e, q)
<1>1. PICK f : f = [x \in Path |-> IF x = p THEN bytes ELSE Quarantine(d, x)]
  OBVIOUS
<1>2. quarantine' = [x \in DOMAIN quarantine \cup {d} |-> IF x = d THEN f ELSE quarantine[x]]
  BY <1>1 DEF Keep, Put
<1>3. Quarantine(e, q)' = IF e = d THEN f[q] ELSE Quarantine(e, q)
  BY <1>2 DEF Quarantine
<1>4. QED
  BY <1>1, <1>3

\* Under one operator the call that took the step is the only one.
LEMMA OnlyCall ==
    ASSUME OneOperator, Calm, NEW w \in Process, NEW g, held' = [held EXCEPT ![w] = g],
           g = Idle \/ CallOK(g)'
    PROVE  KnowsOK'
<1>1. held'[w] = g
  BY DEF Calm, CallsShaped
<1>2. ASSUME NEW v \in Process, Busy(v)' PROVE CallOK(held[v])'
  <2>1. v = w
    BY DEF OneOperator
  <2>2. g # Idle
    BY <1>1, <1>2, <2>1 DEF Busy
  <2>3. CallOK(g)'
    BY <2>2
  <2>4. QED
    BY <1>1, <2>1, <2>3
<1>3. QED
  BY <1>2 DEF KnowsOK

\* What a step of an adoption knows of its call.
LEMMA AdoptionFacts ==
    ASSUME Calm, StatusInv, NEW w \in Process, Busy(w), held[w].op \in {"apply", "recover"}
    PROVE  /\ IsCall(held[w]) /\ CallTypes(held[w]) /\ AdoptionKnows(held[w])
           /\ held[w].tx \in DOMAIN adoption /\ held[w].journal \in AdoptionJournal
           /\ held[w].tx \in Adoption /\ adoption[held[w].tx] \in AdoptionJournal
           /\ AdoptionOK(held[w].tx) /\ Here(w) \in Path /\ Here(w) = Order[held[w].at]
<1>1. CallOK(held[w]) /\ IsCall(held[w])
  BY DEF StatusInv, KnowsOK, Calm, CallsShaped
<1>2. held[w].tx \in DOMAIN adoption /\ held[w].journal \in AdoptionJournal
  BY <1>1 DEF CallOK, CallTypes, DetachOps
<1>3. QED
  BY <1>1, <1>2 DEF CallOK, CallTypes, StatusInv, FilesTyped, Here, Path

LEMMA DetachFacts ==
    ASSUME Calm, StatusInv, NEW w \in Process, Busy(w), held[w].op \in DetachOps
    PROVE  /\ IsCall(held[w]) /\ CallTypes(held[w]) /\ DetachKnows(held[w])
           /\ held[w].tx \in DOMAIN detach /\ held[w].journal \in DetachJournal
           /\ detach[held[w].tx] \in DetachJournal
           /\ DetachOK(held[w].tx) /\ Here(w) \in Path /\ Here(w) = Order[held[w].at]
<1>1. CallOK(held[w]) /\ IsCall(held[w])
  BY DEF StatusInv, KnowsOK, Calm, CallsShaped
<1>2. held[w].tx \in DOMAIN detach /\ held[w].journal \in DetachJournal
  BY <1>1 DEF CallOK, CallTypes, DetachOps
<1>3. QED
  BY <1>1, <1>2 DEF CallOK, CallTypes, StatusInv, FilesTyped, Here, Path

-----------------------------------------------------------------------------
(* What steps leave alone.                                                   *)

\* A step that changes no file the invariant speaks about and no journal.
LEMMA TurnKeeps ==
    ASSUME Calm, StatusInv, OneOperator, NEW w \in Process, NEW g, held' = [held EXCEPT ![w] = g],
           UNCHANGED <<target, maker, stage, linked, quarantine, adoption, detach, snapshot,
                       touched, resumed>>,
           g = Idle \/ CallOK(g)
    PROVE  StatusInv'
<1>1. CallOK(g) => CallOK(g)'
  <2>1. ApplyKnows(g) => ApplyKnows(g)'
    BY DEF ApplyKnows
  <2>2. UndoKnows(g) => UndoKnows(g)'
    BY DEF UndoKnows, Spent
  <2>3. MoveKnows(g) => MoveKnows(g)'
    BY DEF MoveKnows, Quarantine
  <2>4. RestoreKnows(g) => RestoreKnows(g)'
    BY DEF RestoreKnows, Restoral, MovedBy, Quarantine
  <2>5. AdoptionKnows(g) => AdoptionKnows(g)'
    BY <2>1, <2>2 DEF AdoptionKnows, Tracks, Owns, Spent, Over, Stage, Linked
  <2>6. DetachKnows(g) => DetachKnows(g)'
    BY <2>3, <2>4 DEF DetachKnows, DetachShape, Quarantine
  <2>7. QED
    BY <2>5, <2>6 DEF CallOK, CallTypes
<1>2. KnowsOK'
  BY <1>1, OnlyCall
<1>3. FilesTyped' /\ MakersOK' /\ OneCommitted' /\ AllInPlace'
  BY DEF StatusInv, FilesTyped, MakersOK, OneCommitted, AllInPlace, Over, Spent, InPlace, MovedBy,
         Quarantine
<1>4. \A t \in DOMAIN adoption' : AdoptionOK(t)'
  BY DEF StatusInv, AdoptionOK, Tracks, Owns, Spent, Stage, Linked
<1>5. \A d \in DOMAIN detach' : DetachOK(d)'
  BY DEF StatusInv, DetachOK, DetachShape, MovesPlanned, Quarantine
<1>6. QED
  BY <1>2, <1>3, <1>4, <1>5 DEF StatusInv

\* An adoption saves its journal.
LEMMA AdoptionSaves ==
    ASSUME Calm, StatusInv, OneOperator, NEW w \in Process, Busy(w),
           held[w].op \in {"apply", "recover"}, NEW t, t = held[w].tx,
           NEW k \in AdoptionJournal, adoption' = [adoption EXCEPT ![t] = k],
           UNCHANGED <<target, maker, stage, linked, quarantine, detach, snapshot, touched, resumed>>,
           k.status # "COMMITTED" => Tracks(k, t),
           k.status = "COMMITTED" =>
              /\ t \in snapshot /\ held[w].op = "apply"
              /\ \A q \in Path \ touched : target[q] = Expected(t, q),
           k.status = "ROLLED_BACK" => Spent(k) /\ (t \notin resumed => \A p \in Path : maker[p] # t),
           held[w].op = "recover" => /\ k.status \in {"ROLLED_BACK", "RECOVERY_BLOCKED"}
                                     /\ Spent(adoption[t]) => Spent(k),
           NEW g, held' = [held EXCEPT ![w] = g], g = Idle \/ CallOK(g)'
    PROVE  StatusInv'
<1>1. /\ AdoptionKnows(held[w]) /\ t \in DOMAIN adoption
  BY AdoptionFacts
<1>2. /\ DOMAIN adoption' = DOMAIN adoption /\ adoption'[t] = k
      /\ \A u \in DOMAIN adoption : u # t => adoption'[u] = adoption[u]
      /\ adoption' = [u \in DOMAIN adoption' |-> adoption'[u]]
  BY <1>1
<1>3. KnowsOK'
  BY OnlyCall
<1>4. FilesTyped' /\ MakersOK'
  BY <1>2 DEF StatusInv, FilesTyped, MakersOK
<1>5. OneCommitted'
  <2>1. SUFFICES ASSUME NEW u \in DOMAIN adoption, NEW v \in DOMAIN adoption, u # v,
                        adoption'[u].status = "COMMITTED"
                 PROVE  adoption'[v].status \in {"ROLLED_BACK", "RECOVERY_BLOCKED"}
                        /\ Spent(adoption'[v])
    BY <1>2 DEF OneCommitted, Over, Spent
  <2>2. CASE u = t
    BY <1>1, <1>2, <2>1, <2>2 DEF AdoptionKnows, Over
  <2>3. CASE u # t /\ v # t
    BY <1>2, <2>1, <2>3 DEF StatusInv, OneCommitted, Over
  <2>4. CASE u # t /\ v = t
    <3>1. Over(t) /\ ~Over(u)
      BY <1>1, <1>2, <2>1, <2>4 DEF StatusInv, OneCommitted, Over
    <3>2. held[w].op = "recover"
      BY <1>1, <2>1, <2>4, <3>1 DEF AdoptionKnows
    <3>3. QED
      BY <1>2, <2>4, <3>1, <3>2 DEF Over
  <2>5. QED
    BY <2>2, <2>3, <2>4
<1>6. AllInPlace'
  BY <1>2 DEF StatusInv, AllInPlace, InPlace, MovedBy, Quarantine
<1>7. \A u \in DOMAIN adoption' : AdoptionOK(u)'
  <2>1. SUFFICES ASSUME NEW u \in DOMAIN adoption PROVE AdoptionOK(u)'
    BY <1>2
  <2>2. AdoptionOK(u)
    BY DEF StatusInv
  <2>3. CASE u # t
    BY <1>2, <2>2, <2>3 DEF AdoptionOK, Tracks, Owns, Spent, Stage, Linked
  <2>4. CASE u = t
    BY <1>2, <2>2, <2>4 DEF AdoptionOK, Tracks, Owns, Spent, Stage, Linked
  <2>5. QED
    BY <2>3, <2>4
<1>8. \A d \in DOMAIN detach' : DetachOK(d)'
  <2>1. SUFFICES ASSUME NEW d \in DOMAIN detach PROVE DetachOK(d)'
    OBVIOUS
  <2>2. DetachOK(d) /\ d.adoption # t
    BY <1>1 DEF StatusInv, AdoptionKnows
  <2>3. QED
    BY <1>2, <2>2 DEF DetachOK, DetachShape, MovesPlanned, Quarantine
<1>9. QED
  BY <1>3, <1>4, <1>5, <1>6, <1>7, <1>8 DEF StatusInv

\* An adoption changes its staging files or, while nothing is committed, a file.
LEMMA AdoptionWrites ==
    ASSUME Calm, StatusInv, OneOperator, NEW w \in Process, NEW t \in DOMAIN adoption,
           UNCHANGED <<quarantine, adoption, detach, touched, resumed>>,
           snapshot \subseteq snapshot',
           target' \in [Path -> Bytes], maker' = [p \in Path |-> maker'[p]], MakersOK',
           \A u \in DOMAIN stage' : /\ u \in DOMAIN adoption
                                    /\ stage'[u] \in [Path -> {"absent", "source", "partial"}],
           \A u \in DOMAIN adoption, p \in Path : u # t =>
              /\ Stage(u, p)' = Stage(u, p) /\ (Linked(u, p)' <=> Linked(u, p))
              /\ maker'[p] = u => maker[p] = u,
           \A p \in Path : Stage(t, p)' # "absent" => t[p] = "CREATE_PLANNED",
           adoption[t].status # "COMMITTED" => Tracks(adoption[t], t)',
           adoption[t].status = "ROLLED_BACK" /\ t \notin resumed => \A p \in Path : maker'[p] # t,
           target' = target \/ \A u \in DOMAIN adoption : adoption[u].status # "COMMITTED",
           NEW g, held' = [held EXCEPT ![w] = g], g = Idle \/ CallOK(g)'
    PROVE  StatusInv'
<1>1. KnowsOK'
  BY OnlyCall
<1>2. FilesTyped' /\ OneCommitted'
  BY DEF StatusInv, FilesTyped, OneCommitted, Over, Spent
<1>3. AllInPlace'
  BY DEF StatusInv, AllInPlace, InPlace, MovedBy, Quarantine
<1>4. ASSUME NEW u \in DOMAIN adoption PROVE AdoptionOK(u)'
  <2>1. AdoptionOK(u)
    BY DEF StatusInv
  <2>2. CASE u # t
    <3>1. Tracks(adoption[u], u) => Tracks(adoption[u], u)'
      BY <2>2 DEF Tracks, Owns
    <3>2. QED
      BY <2>1, <2>2, <3>1 DEF AdoptionOK, Spent
  <2>3. CASE u = t
    BY <2>1, <2>3 DEF AdoptionOK, Spent
  <2>4. QED
    BY <2>2, <2>3
<1>5. \A d \in DOMAIN detach' : DetachOK(d)'
  BY DEF StatusInv, DetachOK, DetachShape, MovesPlanned, Quarantine
<1>6. QED
  BY <1>1, <1>2, <1>3, <1>4, <1>5 DEF StatusInv

\* A detach saves its journal or moves a file.
LEMMA DetachWrites ==
    ASSUME Calm, StatusInv, OneOperator, NEW w \in Process, NEW d,
           d.adoption \in DOMAIN adoption, adoption[d.adoption].status = "COMMITTED",
           UNCHANGED <<stage, adoption, snapshot, touched, resumed>>,
           NEW k \in DetachJournal, detach' = Put(detach, d, k),
           target' \in [Path -> Bytes], maker' = [p \in Path |-> maker'[p]], MakersOK',
           \A p \in Path : maker'[p] \in {maker[p], Consumer, d.adoption},
           \A u \in DOMAIN adoption, p \in Path :
              (Linked(u, p)' <=> Linked(u, p)) \/ maker'[p] = Consumer,
           DOMAIN quarantine' \subseteq DOMAIN quarantine \cup {d},
           \A e, p : e # d /\ p \in Path => Quarantine(e, p)' = Quarantine(e, p),
           \A p \in Path : Quarantine(d, p)' # "absent" =>
              /\ p \in Leaves(d) /\ Quarantine(d, p)' \in Bytes
              /\ (p \in touched \/ Quarantine(d, p)' = "source"),
           DetachShape(k, d)', MovesPlanned(k),
           \A p \in Path \ touched : target'[p] # target[p] => p \in Leaves(d),
           \A p \in Leaves(d) \ touched :
              \/ target'[p] = "source"
              \/ Quarantine(d, p)' = "source" \/ k.entry[p] \in TakenEntry
              \/ \E e \in DOMAIN detach \ {d} : MovedBy(e, p),
           NEW g, held' = [held EXCEPT ![w] = g], g = Idle \/ CallOK(g)'
    PROVE  StatusInv'
<1>1. KnowsOK'
  BY OnlyCall
<1>2. /\ DOMAIN detach' = DOMAIN detach \cup {d} /\ detach'[d] = k
      /\ \A e \in DOMAIN detach : e # d => detach'[e] = detach[e]
      /\ detach' = [e \in DOMAIN detach' |-> detach'[e]]
  BY DEF Put
<1>3. FilesTyped' /\ OneCommitted'
  BY <1>2 DEF StatusInv, FilesTyped, OneCommitted, Over, Spent
<1>4. ASSUME NEW t \in DOMAIN adoption, NEW p \in Path \ touched, adoption[t].status = "COMMITTED"
      PROVE  InPlace(t, p)'
  <2>1. t = d.adoption
    BY <1>4 DEF StatusInv, OneCommitted, Over
  <2>2. InPlace(t, p)
    BY <1>4 DEF StatusInv, AllInPlace
  <2>3. CASE p \notin Leaves(d)
    <3>1. target'[p] = target[p]
      BY <1>4, <2>3
    <3>2. \A e \in DOMAIN detach : MovedBy(e, p) => MovedBy(e, p)'
      BY <1>2, <1>4, <2>3 DEF MovedBy
    <3>3. QED
      BY <1>2, <2>2, <3>1, <3>2 DEF InPlace
  <2>4. CASE p \in Leaves(d)
    <3>1. t[p] = "CREATE_PLANNED" /\ Expected(t, p) = "source"
      BY <2>1, <2>4, SurfaceAssumption DEF Leaves, Removable, Expected
    <3>2. CASE target'[p] = "source"
      BY <3>1, <3>2 DEF InPlace
    <3>3. CASE Quarantine(d, p)' = "source" \/ k.entry[p] \in TakenEntry
      <4>1. MovedBy(d, p)'
        BY <1>2, <2>4, <3>3 DEF MovedBy
      <4>2. QED
        BY <1>2, <3>1, <4>1 DEF InPlace
    <3>4. CASE \E e \in DOMAIN detach \ {d} : MovedBy(e, p)
      <4>1. PICK e \in DOMAIN detach \ {d} : MovedBy(e, p)
        BY <3>4
      <4>2. MovedBy(e, p)'
        BY <1>2, <1>4, <4>1 DEF MovedBy
      <4>3. QED
        BY <1>2, <3>1, <4>1, <4>2 DEF InPlace
    <3>5. QED
      BY <1>4, <2>4, <3>2, <3>3, <3>4
  <2>5. QED
    BY <2>3, <2>4
<1>5. AllInPlace'
  BY <1>4 DEF AllInPlace
<1>6. ASSUME NEW u \in DOMAIN adoption PROVE AdoptionOK(u)'
  <2>1. AdoptionOK(u) /\ u \in Adoption
    BY DEF StatusInv, FilesTyped
  <2>2. CASE u = d.adoption
    BY <2>1, <2>2 DEF AdoptionOK, Stage
  <2>3. CASE u # d.adoption
    <3>1. \A p \in Path : maker'[p] = u => maker[p] = u /\ (Linked(u, p)' <=> Linked(u, p))
      BY <2>1, <2>3, ConsumerAssumption
    <3>2. Tracks(adoption[u], u) => Tracks(adoption[u], u)'
      BY <3>1 DEF Tracks, Owns, Stage
    <3>3. QED
      BY <2>1, <3>1, <3>2 DEF AdoptionOK, Spent, Stage
  <2>4. QED
    BY <2>2, <2>3
<1>7. ASSUME NEW e \in DOMAIN detach' PROVE DetachOK(e)'
  <2>1. CASE e = d
    BY <1>2, <2>1 DEF DetachOK, MovesPlanned
  <2>2. CASE e # d
    <3>1. DetachOK(e) /\ detach'[e] = detach[e]
      BY <1>2, <1>7, <2>2 DEF StatusInv
    <3>2. QED
      BY <2>2, <3>1 DEF DetachOK, DetachShape, MovesPlanned
  <2>3. QED
    BY <2>1, <2>2
<1>8. QED
  BY <1>1, <1>3, <1>5, <1>6, <1>7 DEF StatusInv

-----------------------------------------------------------------------------
(* The steps of an adoption.                                                 *)

\* What an apply_adoption knows of its call.
LEMMA ApplyFacts ==
    ASSUME Calm, StatusInv, NEW w \in Process, NEW pc \in ApplySteps, At(w, {"apply"}, pc)
    PROVE  /\ Busy(w) /\ held[w].op = "apply" /\ held[w].pc = pc
           /\ IsCall(held[w]) /\ CallTypes(held[w]) /\ ApplyKnows(held[w])
           /\ held[w].tx \in DOMAIN adoption /\ held[w].journal \in AdoptionJournal
           /\ adoption[held[w].tx] \in AdoptionJournal
           /\ AdoptionOK(held[w].tx) /\ Here(w) \in Path /\ Here(w) = Order[held[w].at]
           /\ Tracks(held[w].journal, held[w].tx)
           /\ held[w].journal.status = "COMMITTED" => pc = "readback"
           /\ \A d \in DOMAIN detach : d.adoption # held[w].tx
           /\ \A u \in DOMAIN adoption \ {held[w].tx} : Over(u)
<1>1. Busy(w) /\ held[w].op \in {"apply", "recover"} /\ held[w].op = "apply" /\ held[w].pc = pc
  BY DEF At
<1>2. AdoptionKnows(held[w]) /\ ApplyKnows(held[w])
  BY <1>1, AdoptionFacts DEF AdoptionKnows
<1>3. QED
  BY <1>1, <1>2, AdoptionFacts DEF AdoptionKnows, ApplyKnows

LEMMA ApplySaves ==
    ASSUME Calm, StatusInv, OneOperator, NEW w \in Process, Busy(w), held[w].op = "apply",
           NEW t, t = held[w].tx, NEW k \in AdoptionJournal,
           adoption' = [adoption EXCEPT ![t] = k],
           UNCHANGED <<target, maker, stage, linked, quarantine, detach, snapshot, touched, resumed>>,
           Tracks(k, t), k.status # "ROLLED_BACK",
           NEW g, held' = [held EXCEPT ![w] = g], g.op = "apply", g.tx = t, g.journal = k,
           g.at \in DOMAIN Order, g.hit \in BOOLEAN, g.blocked \in BOOLEAN, g.pc \in ApplySteps,
           k.status = "COMMITTED" =>
              /\ t \in snapshot /\ g.pc = "readback"
              /\ \A q \in Path \ touched : target[q] = Expected(t, q),
           ApplyKnows(g)'
    PROVE  StatusInv'
<1>1. AdoptionKnows(held[w]) /\ t \in DOMAIN adoption
  BY AdoptionFacts
<1>2. DOMAIN adoption' = DOMAIN adoption /\ adoption'[t] = k
      /\ \A u \in DOMAIN adoption : u # t => adoption'[u] = adoption[u]
  BY <1>1, AdoptionFacts DEF StatusInv, FilesTyped
<1>3. CallTypes(g)'
  BY <1>1, <1>2 DEF CallTypes
<1>4. AdoptionKnows(g)'
  <2>1. Tracks(k, t)'
    BY DEF Tracks, Owns, Stage, Linked
  <2>2. \A u \in DOMAIN adoption \ {t} : Over(u)'
    BY <1>1, <1>2 DEF AdoptionKnows, Over, Spent
  <2>3. \A d \in DOMAIN detach : d.adoption # t
    BY <1>1 DEF AdoptionKnows
  <2>4. QED
    BY <1>2, <2>1, <2>2, <2>3 DEF AdoptionKnows, ApplySteps, UndoSteps
<1>5. CallOK(g)'
  BY <1>3, <1>4 DEF CallOK, DetachOps
<1>6. QED
  BY <1>5, AdoptionSaves

\* An entry of the manifest is done.
LEMMA ApplySavesEntry ==
    ASSUME Calm, StatusInv, OneOperator, NEW w \in Process, NEW pc \in {"entry", "verify"},
           At(w, {"apply"}, pc), NEW t, t = held[w].tx, NEW k \in AdoptionJournal,
           SaveEntry(w, k), OnlyAdoption, Tracks(k, t), k.status = held[w].journal.status,
           t \notin resumed => \A q \in Path : maker[q] = t => k.entry[q] = "VERIFIED"
    PROVE  StatusInv'
<1>1. PICK h : h = held[w]
  OBVIOUS
<1>2. /\ Busy(w) /\ h.op = "apply" /\ IsCall(h) /\ CallTypes(h) /\ t \in DOMAIN adoption
      /\ k.status \notin {"ROLLED_BACK", "COMMITTED"}
  BY <1>1, ApplyFacts DEF ApplyKnows, ApplySteps
<1>3. PICK c, at : /\ c = IF h.at = Len(Order) THEN "post" ELSE "entry"
                   /\ at = IF h.at = Len(Order) THEN h.at ELSE h.at + 1
  OBVIOUS
<1>4. PICK g : g = [h EXCEPT !.journal = k, !.pc = c, !.at = at]
  OBVIOUS
<1>5. g = [op |-> h.op, tx |-> h.tx, journal |-> k, pc |-> c, at |-> at, hit |-> h.hit,
           blocked |-> h.blocked]
  BY <1>2, <1>4 DEF IsCall
<1>6. at \in DOMAIN Order /\ c \in {"post", "entry"}
  BY <1>2, <1>3, SurfaceAssumption DEF CallTypes
<1>7. held' = [held EXCEPT ![w] = g] /\ adoption' = [adoption EXCEPT ![t] = k]
  BY <1>1, <1>3, <1>4 DEF SaveEntry
<1>8. UNCHANGED <<target, maker, stage, linked, quarantine, detach, snapshot, touched, resumed>>
  BY DEF OnlyAdoption, files, environment, history
<1>9. ApplyKnows(g)'
  BY <1>1, <1>2, <1>5, <1>6, <1>7, <1>8 DEF ApplyKnows, InEntry, StatusInv, FilesTyped
<1>10. /\ g.op = "apply" /\ g.tx = t /\ g.journal = k /\ g.at \in DOMAIN Order
       /\ g.hit \in BOOLEAN /\ g.blocked \in BOOLEAN /\ g.pc \in ApplySteps
  BY <1>1, <1>2, <1>5, <1>6 DEF ApplySteps, CallTypes
<1>11. held[w].op = "apply" /\ Busy(w) /\ k.status # "COMMITTED" /\ k.status # "ROLLED_BACK"
  BY <1>1, <1>2
<1>12. QED
  BY <1>7, <1>8, <1>9, <1>10, <1>11, ApplySaves

\* The call goes on at c with the journal it saved.
Saved(h, k, c) == [op |-> h.op, tx |-> h.tx, journal |-> k, pc |-> c, at |-> h.at,
                   hit |-> h.hit, blocked |-> h.blocked]

LEMMA ApplySavesAt ==
    ASSUME Calm, StatusInv, OneOperator, NEW w \in Process, NEW pc \in ApplySteps,
           At(w, {"apply"}, pc), NEW t, t = held[w].tx,
           NEW k \in AdoptionJournal, NEW c \in ApplySteps, SaveAdoption(w, k, c), OnlyAdoption,
           Tracks(k, t), k.status # "ROLLED_BACK",
           k.status = "COMMITTED" =>
              /\ t \in snapshot /\ c = "readback"
              /\ \A q \in Path \ touched : target[q] = Expected(t, q),
           NEW g, g = Saved(held[w], k, c), ApplyKnows(g)'
    PROVE  StatusInv'
<1>0. PICK h : h = held[w]
  OBVIOUS
<1>1. Busy(w) /\ h.op = "apply" /\ IsCall(h) /\ CallTypes(h)
  BY <1>0, ApplyFacts
<1>2. PICK f : f = [h EXCEPT !.journal = k, !.pc = c]
  OBVIOUS
<1>3. held' = [held EXCEPT ![w] = f] /\ adoption' = [adoption EXCEPT ![t] = k]
  BY <1>0, <1>2 DEF SaveAdoption
<1>9. f = Saved(h, k, c)
  BY <1>1, <1>2 DEF IsCall, Saved
<1>4. UNCHANGED <<target, maker, stage, linked, quarantine, detach, snapshot, touched, resumed>>
  BY DEF OnlyAdoption, files, environment, history
<1>5. /\ g.op = "apply" /\ g.tx = t /\ g.journal = k /\ g.at \in DOMAIN Order
      /\ g.hit \in BOOLEAN /\ g.blocked \in BOOLEAN /\ g.pc \in ApplySteps /\ g.pc = c
  BY <1>0, <1>1 DEF CallTypes, Saved
<1>6. Busy(w) /\ held[w].op = "apply" /\ t = held[w].tx /\ k.status # "ROLLED_BACK" /\ Tracks(k, t)
  BY <1>0, <1>1
<1>7. k.status = "COMMITTED" =>
         /\ t \in snapshot /\ g.pc = "readback"
         /\ \A q \in Path \ touched : target[q] = Expected(t, q)
  BY <1>5
<1>8. held' = [held EXCEPT ![w] = g] /\ adoption' = [adoption EXCEPT ![t] = k]
  <2>1. f = g
    BY <1>0, <1>9
  <2>2. QED
    BY <1>3, <2>1
<1>10. QED
  BY <1>4, <1>5, <1>6, <1>7, <1>8, ApplySaves

\* What the saves of a journal make of it.
WithStatus(j, s) == [j EXCEPT !.status = s]
WithEntry(j, p, e) == [j EXCEPT !.entry[p] = e]
WithStaged(j, p, e, S) == [j EXCEPT !.entry[p] = e, !.staged = S]

LEMMA StatusSet ==
    ASSUME NEW j \in AdoptionJournal, NEW s \in AdoptionStatus, NEW k, k = WithStatus(j, s)
    PROVE  k \in AdoptionJournal /\ k.status = s /\ k.entry = j.entry /\ k.staged = j.staged
  BY DEF AdoptionJournal, WithStatus

LEMMA SetEntry ==
    ASSUME NEW j \in AdoptionJournal, NEW p \in Path, NEW e \in AdoptionEntry,
           NEW k, k = WithEntry(j, p, e)
    PROVE  /\ k \in AdoptionJournal /\ k.status = j.status /\ k.staged = j.staged
           /\ k.entry[p] = e /\ \A q \in Path : q # p => k.entry[q] = j.entry[q]
  BY DEF AdoptionJournal, WithEntry

LEMMA SetStaged ==
    ASSUME NEW j \in AdoptionJournal, NEW p \in Path, NEW e \in AdoptionEntry, NEW S \in SUBSET Path,
           NEW k, k = WithStaged(j, p, e, S)
    PROVE  /\ k \in AdoptionJournal /\ k.status = j.status /\ k.staged = S
           /\ k.entry[p] = e /\ \A q \in Path : q # p => k.entry[q] = j.entry[q]
  BY DEF AdoptionJournal, WithStaged

LEMMA SetCreated ==
    ASSUME NEW j \in AdoptionJournal, NEW b \in BOOLEAN, NEW k, k = [j EXCEPT !.created = b]
    PROVE  /\ k \in AdoptionJournal /\ k.status = j.status /\ k.entry = j.entry
           /\ k.staged = j.staged
  BY DEF AdoptionJournal

LEMMA BeginStatus ==
    ASSUME Calm, StatusInv, OneOperator, NEW w \in Process, Begin(w) PROVE StatusInv'
<1>1. PICK h, t, j, p : h = held[w] /\ t = h.tx /\ j = h.journal /\ p = Order[h.at]
  OBVIOUS
<1>2. At(w, {"apply"}, "begin") /\ OnlyAdoption
  BY DEF Begin
<1>3. /\ Busy(w) /\ IsCall(h) /\ CallTypes(h) /\ ApplyKnows(h) /\ h.pc = "begin" /\ p \in Path
      /\ t \in DOMAIN adoption /\ j \in AdoptionJournal /\ Tracks(j, t)
  BY <1>1, <1>2, ApplyFacts DEF ApplySteps
<1>4. PICK k : k = WithStatus(j, "APPLYING")
  OBVIOUS
<1>5. /\ k \in AdoptionJournal /\ k.status = "APPLYING" /\ k.entry = j.entry /\ k.staged = j.staged
  BY <1>3, <1>4, StatusSet DEF AdoptionStatus
<1>6. Tracks(k, t)
  BY <1>3, <1>5 DEF Tracks, Owns
<1>7. PICK g : g = Saved(held[w], k, "entry")
  OBVIOUS
<1>8. SaveAdoption(w, k, "entry")
  BY <1>1, <1>4 DEF Begin, WithStatus
<1>9. adoption'[t] = k /\ UNCHANGED <<target, maker, snapshot, touched, resumed>>
  BY <1>1, <1>2, <1>3, <1>8 DEF OnlyAdoption, files, environment, history, SaveAdoption, StatusInv, FilesTyped
<1>10. ApplyKnows(g)'
  BY <1>1, <1>3, <1>5, <1>7, <1>9 DEF ApplyKnows, InEntry, Saved
<1>11. "entry" \in ApplySteps /\ "begin" \in ApplySteps
  BY DEF ApplySteps
<1>12. QED
  BY <1>1, <1>2, <1>5, <1>6, <1>7, <1>8, <1>10, <1>11, ApplySavesAt

LEMMA RecordDirectoryStatus ==
    ASSUME Calm, StatusInv, OneOperator, NEW w \in Process, RecordDirectory(w) PROVE StatusInv'
<1>1. PICK h, t, j, p : h = held[w] /\ t = h.tx /\ j = h.journal /\ p = Order[h.at]
  OBVIOUS
<1>2. At(w, {"apply"}, "record") /\ OnlyAdoption
  BY DEF RecordDirectory
<1>3. /\ Busy(w) /\ IsCall(h) /\ CallTypes(h) /\ ApplyKnows(h) /\ h.pc = "record" /\ p \in Path
      /\ t \in DOMAIN adoption /\ j \in AdoptionJournal /\ Tracks(j, t) /\ Here(w) = p
  BY <1>1, <1>2, ApplyFacts DEF ApplySteps
<1>4. PICK k : k = [j EXCEPT !.created = TRUE]
  OBVIOUS
<1>5. /\ k \in AdoptionJournal
      /\ k.status = j.status /\ k.entry = j.entry /\ k.staged = j.staged
  BY <1>3, <1>4, SetCreated DEF AdoptionStatus, AdoptionEntry
<1>6. Tracks(k, t)
  BY <1>1, <1>2, <1>3, <1>5 DEF Tracks, Owns, ApplyKnows, InEntry
<1>7. PICK g : g = Saved(held[w], k, "entry")
  OBVIOUS
<1>8. SaveAdoption(w, k, "entry")
  BY <1>1, <1>3, <1>4 DEF RecordDirectory
<1>9. adoption'[t] = k /\ UNCHANGED <<target, maker, snapshot, touched, resumed>>
  BY <1>1, <1>2, <1>3, <1>8 DEF OnlyAdoption, files, environment, history, SaveAdoption, StatusInv, FilesTyped
<1>10. ApplyKnows(g)'
  BY <1>1, <1>2, <1>3, <1>5, <1>7, <1>9 DEF ApplyKnows, InEntry, Saved
<1>11. "record" \in ApplySteps /\ "entry" \in ApplySteps /\ k.status # "ROLLED_BACK"
  BY <1>1, <1>3, <1>5 DEF ApplySteps, ApplyKnows
<1>12. k.status # "COMMITTED"
  BY <1>1, <1>2, <1>5, ApplyFacts DEF ApplySteps
<1>20. QED
  BY <1>1, <1>2, <1>5, <1>6, <1>7, <1>8, <1>10, <1>11, <1>12, ApplySavesAt

LEMMA RecordCreatedStatus ==
    ASSUME Calm, StatusInv, OneOperator, NEW w \in Process, RecordCreated(w) PROVE StatusInv'
<1>1. PICK h, t, j, p : h = held[w] /\ t = h.tx /\ j = h.journal /\ p = Order[h.at]
  OBVIOUS
<1>2. At(w, {"apply"}, "created") /\ OnlyAdoption
  BY DEF RecordCreated
<1>3. /\ Busy(w) /\ IsCall(h) /\ CallTypes(h) /\ ApplyKnows(h) /\ h.pc = "created" /\ p \in Path
      /\ t \in DOMAIN adoption /\ j \in AdoptionJournal /\ Tracks(j, t) /\ Here(w) = p
  BY <1>1, <1>2, ApplyFacts DEF ApplySteps
<1>4. PICK k : k = WithEntry(j, p, "CREATED")
  OBVIOUS
<1>5. /\ k \in AdoptionJournal
      /\ k.status = j.status /\ k.staged = j.staged /\ k.entry[p] = "CREATED"
      /\ \A q \in Path : q # p => k.entry[q] = j.entry[q]
  <2>1. j \in AdoptionJournal /\ p \in Path /\ "CREATED" \in AdoptionEntry
    BY <1>3 DEF AdoptionEntry
  <2>2. QED
    BY <1>4, <2>1, SetEntry
<1>6. Tracks(k, t)
  BY <1>1, <1>2, <1>3, <1>5 DEF Tracks, Owns, ApplyKnows, InEntry
<1>7. PICK g : g = Saved(held[w], k, "unstage")
  OBVIOUS
<1>8. SaveAdoption(w, k, "unstage")
  BY <1>1, <1>3, <1>4 DEF RecordCreated, WithEntry
<1>9. adoption'[t] = k /\ UNCHANGED <<target, maker, snapshot, touched, resumed>>
  BY <1>1, <1>2, <1>3, <1>8 DEF OnlyAdoption, files, environment, history, SaveAdoption, StatusInv, FilesTyped
<1>10. ApplyKnows(g)'
  BY <1>1, <1>2, <1>3, <1>5, <1>7, <1>9 DEF ApplyKnows, InEntry, Saved
<1>11. "created" \in ApplySteps /\ "unstage" \in ApplySteps /\ k.status # "ROLLED_BACK"
  BY <1>1, <1>3, <1>5 DEF ApplySteps, ApplyKnows
<1>12. k.status # "COMMITTED"
  BY <1>1, <1>2, <1>5, ApplyFacts DEF ApplySteps
<1>20. QED
  BY <1>1, <1>2, <1>5, <1>6, <1>7, <1>8, <1>10, <1>11, <1>12, ApplySavesAt

LEMMA AnnounceStatus ==
    ASSUME Calm, StatusInv, OneOperator, NEW w \in Process, Announce(w) PROVE StatusInv'
<1>1. PICK h, t, j, p : h = held[w] /\ t = h.tx /\ j = h.journal /\ p = Order[h.at]
  OBVIOUS
<1>2. At(w, {"apply"}, "entry") /\ OnlyAdoption
  BY DEF Announce, Creating
<1>3. /\ Busy(w) /\ IsCall(h) /\ CallTypes(h) /\ ApplyKnows(h) /\ h.pc = "entry" /\ p \in Path
      /\ t \in DOMAIN adoption /\ j \in AdoptionJournal /\ Tracks(j, t) /\ Here(w) = p
  BY <1>1, <1>2, ApplyFacts DEF ApplySteps
<1>14. PICK S : S = j.staged \cup {p}
  OBVIOUS
<1>15. S \in SUBSET Path
  BY <1>3, <1>14 DEF AdoptionJournal
<1>4. PICK k : k = WithStaged(j, p, "STAGING", S)
  OBVIOUS
<1>5. /\ k \in AdoptionJournal
      /\ k.status = j.status /\ k.staged = j.staged \cup {p} /\ k.entry[p] = "STAGING"
      /\ \A q \in Path : q # p => k.entry[q] = j.entry[q]
  BY <1>3, <1>4, <1>14, <1>15, SetStaged DEF AdoptionEntry
<1>6. Tracks(k, t)
  BY <1>1, <1>2, <1>3, <1>5 DEF Tracks, Owns, ApplyKnows, InEntry, Announce, Creating
<1>7. PICK g : g = Saved(held[w], k, "prepare")
  OBVIOUS
<1>8. SaveAdoption(w, k, "prepare")
  BY <1>1, <1>3, <1>4, <1>14 DEF Announce, WithStaged
<1>9. adoption'[t] = k /\ UNCHANGED <<target, maker, snapshot, touched, resumed>>
  BY <1>1, <1>2, <1>3, <1>8 DEF OnlyAdoption, files, environment, history, SaveAdoption, StatusInv, FilesTyped
<1>10. ApplyKnows(g)'
  BY <1>1, <1>2, <1>3, <1>5, <1>7, <1>9 DEF ApplyKnows, InEntry, Saved, Announce, Creating
<1>11. "entry" \in ApplySteps /\ "prepare" \in ApplySteps /\ k.status # "ROLLED_BACK"
  BY <1>1, <1>3, <1>5 DEF ApplySteps, ApplyKnows
<1>12. k.status # "COMMITTED"
  BY <1>1, <1>2, <1>5, ApplyFacts DEF ApplySteps
<1>20. QED
  BY <1>1, <1>2, <1>5, <1>6, <1>7, <1>8, <1>10, <1>11, <1>12, ApplySavesAt

LEMMA CommitStatus ==
    ASSUME Calm, StatusInv, OneOperator, NEW w \in Process, Commit(w) PROVE StatusInv'
<1>1. PICK h, t, j, p : h = held[w] /\ t = h.tx /\ j = h.journal /\ p = Order[h.at]
  OBVIOUS
<1>2. At(w, {"apply"}, "commit") /\ OnlyAdoption
  BY DEF Commit
<1>3. /\ Busy(w) /\ IsCall(h) /\ CallTypes(h) /\ ApplyKnows(h) /\ h.pc = "commit" /\ p \in Path
      /\ t \in DOMAIN adoption /\ j \in AdoptionJournal /\ Tracks(j, t) /\ Here(w) = p
  BY <1>1, <1>2, ApplyFacts DEF ApplySteps
<1>4. PICK k : k = WithStatus(j, "COMMITTED")
  OBVIOUS
<1>5. /\ k \in AdoptionJournal
      /\ k.status = "COMMITTED" /\ k.entry = j.entry /\ k.staged = j.staged
  BY <1>3, <1>4, StatusSet DEF AdoptionStatus, AdoptionEntry
<1>6. Tracks(k, t)
  BY <1>1, <1>2, <1>3, <1>5 DEF Tracks, Owns, ApplyKnows, InEntry
<1>7. PICK g : g = Saved(held[w], k, "readback")
  OBVIOUS
<1>8. SaveAdoption(w, k, "readback")
  BY <1>1, <1>3, <1>4 DEF Commit, WithStatus
<1>9. adoption'[t] = k /\ UNCHANGED <<target, maker, snapshot, touched, resumed>>
  BY <1>1, <1>2, <1>3, <1>8 DEF OnlyAdoption, files, environment, history, SaveAdoption, StatusInv, FilesTyped
<1>10. ApplyKnows(g)'
  BY <1>1, <1>2, <1>3, <1>5, <1>7, <1>9 DEF ApplyKnows, InEntry, Saved
<1>11. "commit" \in ApplySteps /\ "readback" \in ApplySteps /\ k.status # "ROLLED_BACK"
  BY <1>1, <1>3, <1>5 DEF ApplySteps, ApplyKnows
<1>12. k.status = "COMMITTED" =>
          /\ t \in snapshot /\ "readback" = "readback"
          /\ \A q \in Path \ touched : target[q] = Expected(t, q)
  BY <1>1, <1>3 DEF ApplyKnows
<1>20. QED
  BY <1>1, <1>2, <1>5, <1>6, <1>7, <1>8, <1>10, <1>11, <1>12, ApplySavesAt

LEMMA PreserveStatus ==
    ASSUME Calm, StatusInv, OneOperator, NEW w \in Process, Preserve(w) PROVE StatusInv'
<1>1. PICK h, t, j, p : h = held[w] /\ t = h.tx /\ j = h.journal /\ p = Order[h.at]
  OBVIOUS
<1>2. At(w, {"apply"}, "entry") /\ OnlyAdoption
  BY DEF Preserve
<1>3. /\ ApplyKnows(h) /\ h.pc = "entry" /\ p \in Path /\ t \in DOMAIN adoption
      /\ j \in AdoptionJournal /\ Tracks(j, t) /\ Here(w) = p /\ AdoptionOK(t)
  BY <1>1, <1>2, ApplyFacts DEF ApplySteps
<1>4. PICK S : S = j.staged \ {p}
  OBVIOUS
<1>5. S \in SUBSET Path
  BY <1>3, <1>4 DEF AdoptionJournal
<1>6. PICK k : k = WithStaged(j, p, "PRESERVED", S)
  OBVIOUS
<1>7. /\ k \in AdoptionJournal /\ k.status = j.status /\ k.staged = S /\ k.entry[p] = "PRESERVED"
      /\ \A q \in Path : q # p => k.entry[q] = j.entry[q]
  BY <1>3, <1>5, <1>6, SetStaged DEF AdoptionEntry
<1>8. t[p] # "CREATE_PLANNED" /\ SaveEntry(w, k)
  BY <1>1, <1>3, <1>4, <1>6 DEF Preserve, WithStaged
<1>9. Stage(t, p) = "absent" /\ maker[p] # t
  BY <1>3, <1>8 DEF AdoptionOK, StatusInv, MakersOK
<1>10. Tracks(k, t)
  BY <1>3, <1>4, <1>7, <1>9 DEF Tracks, Owns
<1>11. t \notin resumed => \A q \in Path : maker[q] = t => k.entry[q] = "VERIFIED"
  BY <1>1, <1>3, <1>7, <1>9 DEF ApplyKnows
<1>12. "entry" \in {"entry", "verify"} /\ t = held[w].tx /\ k.status = held[w].journal.status
  BY <1>1, <1>7
<1>13. QED
  BY <1>2, <1>7, <1>8, <1>10, <1>11, <1>12, ApplySavesEntry

LEMMA PassVerifiedStatus ==
    ASSUME Calm, StatusInv, OneOperator, NEW w \in Process, PassVerified(w) PROVE StatusInv'
<1>1. PICK h, t, k : h = held[w] /\ t = h.tx /\ k = h.journal
  OBVIOUS
<1>2. At(w, {"apply"}, "entry") /\ OnlyAdoption /\ SaveEntry(w, k)
  BY <1>1 DEF PassVerified
<1>3. ApplyKnows(h) /\ h.pc = "entry" /\ k \in AdoptionJournal /\ Tracks(k, t)
  BY <1>1, <1>2, ApplyFacts DEF ApplySteps
<1>4. t \notin resumed => \A q \in Path : maker[q] = t => k.entry[q] = "VERIFIED"
  BY <1>1, <1>3 DEF ApplyKnows
<1>5. "entry" \in {"entry", "verify"} /\ t = held[w].tx /\ k.status = held[w].journal.status
  BY <1>1
<1>6. QED
  BY <1>2, <1>3, <1>4, <1>5, ApplySavesEntry

LEMMA VerifyStatus ==
    ASSUME Calm, StatusInv, OneOperator, NEW w \in Process, Verify(w) PROVE StatusInv'
<1>1. PICK h, t, j, p : h = held[w] /\ t = h.tx /\ j = h.journal /\ p = Order[h.at]
  OBVIOUS
<1>2. At(w, {"apply"}, "verify") /\ OnlyAdoption
  BY DEF Verify
<1>3. /\ ApplyKnows(h) /\ h.pc = "verify" /\ p \in Path /\ t \in DOMAIN adoption
      /\ j \in AdoptionJournal /\ Tracks(j, t) /\ Here(w) = p /\ AdoptionOK(t)
  BY <1>1, <1>2, ApplyFacts DEF ApplySteps
<1>6. PICK k : k = WithEntry(j, p, "VERIFIED")
  OBVIOUS
<1>7. /\ k \in AdoptionJournal /\ k.status = j.status /\ k.staged = j.staged
      /\ k.entry[p] = "VERIFIED" /\ \A q \in Path : q # p => k.entry[q] = j.entry[q]
  <2>1. j \in AdoptionJournal /\ p \in Path /\ "VERIFIED" \in AdoptionEntry
    BY <1>3 DEF AdoptionEntry
  <2>2. QED
    BY <1>6, <2>1, SetEntry
<1>8. SaveEntry(w, k)
  BY <1>1, <1>3, <1>6 DEF Verify, WithEntry
<1>10. Tracks(k, t)
  BY <1>3, <1>7 DEF Tracks, Owns
<1>11. t \notin resumed => \A q \in Path : maker[q] = t => k.entry[q] = "VERIFIED"
  BY <1>1, <1>3, <1>7 DEF ApplyKnows, InEntry
<1>12. "verify" \in {"entry", "verify"} /\ t = held[w].tx /\ k.status = held[w].journal.status
  BY <1>1, <1>7
<1>13. QED
  BY <1>2, <1>7, <1>8, <1>10, <1>11, <1>12, ApplySavesEntry

\* The call goes on without a save.
Turned(h, c) == Saved(h, h.journal, c)

LEMMA GotoTurned ==
    ASSUME Calm, NEW w \in Process, Busy(w), NEW c, Goto(w, c)
    PROVE  held' = [held EXCEPT ![w] = Turned(held[w], c)]
<1>1. PICK h : h = held[w]
  OBVIOUS
<1>2. PICK g : g = [h EXCEPT !.pc = c]
  OBVIOUS
<1>3. IsCall(h)
  BY <1>1 DEF Calm, CallsShaped
<1>4. g = Turned(h, c)
  BY <1>2, <1>3 DEF IsCall, Turned, Saved
<1>5. held' = [held EXCEPT ![w] = g]
  BY <1>1, <1>2 DEF Goto
<1>6. QED
  BY <1>1, <1>4, <1>5

\* An apply_adoption goes on with its own journal.
LEMMA ApplyTurnOK ==
    ASSUME Calm, StatusInv, NEW w \in Process, NEW pc \in ApplySteps \ {"readback"},
           At(w, {"apply"}, pc), NEW c \in ApplySteps, NEW g, g = Turned(held[w], c),
           ApplyKnows(g)
    PROVE  CallOK(g)
<1>1. PICK h, t, j : h = held[w] /\ t = h.tx /\ j = h.journal
  OBVIOUS
<1>2. /\ h.op = "apply" /\ CallTypes(h) /\ Tracks(j, t) /\ j.status # "COMMITTED"
      /\ ApplyKnows(h) /\ \A d \in DOMAIN detach : d.adoption # t
      /\ \A u \in DOMAIN adoption \ {t} : Over(u)
  BY <1>1, ApplyFacts
<1>3. /\ g.op = "apply" /\ g.tx = t /\ g.journal = j /\ g.pc = c /\ g.at = h.at
      /\ g.hit = h.hit /\ g.blocked = h.blocked
  BY <1>1, <1>2 DEF Turned, Saved
<1>4. adoption[t].status # "COMMITTED"
  BY <1>1, <1>2 DEF ApplyKnows
<1>5. CallTypes(g)
  BY <1>1, <1>2, <1>3 DEF CallTypes, DetachOps
<1>6. AdoptionKnows(g)
  BY <1>2, <1>3, <1>4 DEF AdoptionKnows, ApplySteps, UndoSteps
<1>7. QED
  BY <1>3, <1>5, <1>6 DEF CallOK, DetachOps

LEMMA MakeDirectoryStatus ==
    ASSUME Calm, StatusInv, OneOperator, NEW w \in Process, MakeDirectory(w) PROVE StatusInv'
<1>1. PICK h, g : h = held[w] /\ g = Turned(held[w], "record")
  OBVIOUS
<1>2. At(w, {"apply"}, "entry") /\ Busy(w) /\ "entry" \in ApplySteps \ {"readback"}
      /\ "record" \in ApplySteps
  BY DEF MakeDirectory, Creating, At, ApplySteps
<1>3. ApplyKnows(h) /\ h.pc = "entry" /\ h.tx[Order[h.at]] = "CREATE_PLANNED"
  BY <1>1, <1>2, ApplyFacts DEF MakeDirectory, Creating
<1>4. ApplyKnows(g)
  BY <1>1, <1>3 DEF ApplyKnows, Turned, Saved, InEntry
<1>5. CallOK(g)
  BY <1>1, <1>2, <1>4, ApplyTurnOK
<1>6. held' = [held EXCEPT ![w] = g]
  BY <1>1, <1>2, GotoTurned DEF MakeDirectory
<1>7. UNCHANGED <<target, maker, stage, linked, quarantine, adoption, detach, snapshot,
                  touched, resumed>>
  BY DEF MakeDirectory, NoSave, disk, environment, history
<1>8. QED
  BY <1>5, <1>6, <1>7, TurnKeeps

LEMMA CheckPostStatus ==
    ASSUME Calm, StatusInv, OneOperator, NEW w \in Process, CheckPost(w) PROVE StatusInv'
<1>1. PICK h, g : h = held[w] /\ g = Turned(held[w], "snapshot")
  OBVIOUS
<1>2. At(w, {"apply"}, "post") /\ Busy(w) /\ "post" \in ApplySteps \ {"readback"}
      /\ "snapshot" \in ApplySteps
  BY DEF CheckPost, At, ApplySteps
<1>3. ApplyKnows(h) /\ h.pc = "post" /\ Installed(h.tx)
  BY <1>1, <1>2, ApplyFacts DEF CheckPost
<1>4. ApplyKnows(g)
  BY <1>1, <1>3 DEF ApplyKnows, Turned, Saved, InEntry, Installed
<1>5. CallOK(g)
  BY <1>1, <1>2, <1>4, ApplyTurnOK
<1>6. held' = [held EXCEPT ![w] = g]
  BY <1>1, <1>2, GotoTurned DEF CheckPost
<1>7. UNCHANGED <<target, maker, stage, linked, quarantine, adoption, detach, snapshot,
                  touched, resumed>>
  BY DEF CheckPost, NoSave, disk, environment, history, files
<1>8. QED
  BY <1>5, <1>6, <1>7, TurnKeeps

LEMMA ReadBackStatus ==
    ASSUME Calm, StatusInv, OneOperator, NEW w \in Process, ReadBack(w) PROVE StatusInv'
<1>1. held' = [held EXCEPT ![w] = Idle]
  BY DEF ReadBack
<1>2. UNCHANGED <<target, maker, stage, linked, quarantine, adoption, detach, snapshot,
                  touched, resumed>>
  BY DEF ReadBack, NoSave, disk, environment, history, files
<1>3. QED
  BY <1>1, <1>2, TurnKeeps

\* One staging file changes.
SetsStage(t, p, b) == stage' = Put(stage, t, [Stages(t) EXCEPT ![p] = b])

LEMMA StageFacts ==
    ASSUME StatusInv, NEW t \in DOMAIN adoption, NEW p \in Path,
           NEW b \in {"absent", "source", "partial"}, SetsStage(t, p, b)
    PROVE  /\ \A u \in DOMAIN stage' : /\ u \in DOMAIN adoption
                                       /\ stage'[u] \in [Path -> {"absent", "source", "partial"}]
           /\ \A u, q : q \in Path => Stage(u, q)' = IF u = t /\ q = p THEN b ELSE Stage(u, q)
<1>1. PICK f : f = [Stages(t) EXCEPT ![p] = b]
  OBVIOUS
<1>2. Stages(t) \in [Path -> {"absent", "source", "partial"}]
  BY DEF Stages, StatusInv, FilesTyped
<1>3. f \in [Path -> {"absent", "source", "partial"}]
  BY <1>1, <1>2
<1>4. \A q \in Path : f[q] = IF q = p THEN b ELSE Stage(t, q)
  BY <1>1, <1>2 DEF Stage, Stages
<1>5. stage' = [x \in DOMAIN stage \cup {t} |-> IF x = t THEN f ELSE stage[x]]
  BY <1>1 DEF Put, SetsStage
<1>6. \A u \in DOMAIN stage' : /\ u \in DOMAIN adoption
                               /\ stage'[u] \in [Path -> {"absent", "source", "partial"}]
  BY <1>3, <1>5 DEF StatusInv, FilesTyped
<1>7. \A u, q : q \in Path => Stage(u, q)' = IF u = t THEN f[q] ELSE Stage(u, q)
  BY <1>5 DEF Stage
<1>8. QED
  BY <1>4, <1>6, <1>7

LEMMA LinkFacts ==
    ASSUME NEW t, NEW p,
           linked' = Put(linked, t, Links(t) \cup {p}) \/ linked' = Put(linked, t, Links(t) \ {p})
    PROVE  \A u, q : u # t \/ q # p => (Linked(u, q)' <=> Linked(u, q))
<1>1. PICK S : (S = Links(t) \cup {p} \/ S = Links(t) \ {p}) /\ linked' = Put(linked, t, S)
  OBVIOUS
<1>2. \A u, q : Linked(u, q)' <=> IF u = t THEN q \in S ELSE Linked(u, q)
  BY <1>1 DEF Put, Linked
<1>3. \A q : q # p => (q \in S <=> Linked(t, q))
  BY <1>1 DEF Links, Linked
<1>4. QED
  BY <1>2, <1>3

\* An apply_adoption that changed a file, a staging file or its snapshot.
LEMMA ApplyWriteOK ==
    ASSUME Calm, StatusInv, NEW w \in Process, NEW pc \in ApplySteps \ {"readback"},
           At(w, {"apply"}, pc), NEW c \in ApplySteps, NEW k \in AdoptionJournal,
           NEW g, g = Saved(held[w], k, c), UNCHANGED <<adoption, detach>>,
           NEW t, t = held[w].tx, Tracks(k, t)', ApplyKnows(g)'
    PROVE  CallOK(g)'
<1>1. PICK h, j : h = held[w] /\ t = h.tx /\ j = h.journal
  OBVIOUS
<1>2. /\ h.op = "apply" /\ CallTypes(h) /\ j.status # "COMMITTED"
      /\ ApplyKnows(h) /\ \A d \in DOMAIN detach : d.adoption # t
      /\ \A u \in DOMAIN adoption \ {t} : Over(u)
  BY <1>1, ApplyFacts
<1>3. /\ g.op = "apply" /\ g.tx = t /\ g.journal = k /\ g.pc = c /\ g.at = h.at
      /\ g.hit = h.hit /\ g.blocked = h.blocked
  BY <1>1, <1>2 DEF Saved
<1>4. adoption[t].status # "COMMITTED"
  BY <1>1, <1>2 DEF ApplyKnows
<1>5. CallTypes(g)'
  BY <1>1, <1>2, <1>3 DEF CallTypes, DetachOps
<1>6. \A u \in DOMAIN adoption \ {t} : Over(u)'
  BY <1>2 DEF Over, Spent
<1>7. Tracks(g.journal, g.tx)'
  BY <1>1, <1>3
<1>8. AdoptionKnows(g)'
  BY <1>2, <1>3, <1>4, <1>6, <1>7 DEF AdoptionKnows, ApplySteps, UndoSteps
<1>9. QED
  BY <1>3, <1>5, <1>8 DEF CallOK, DetachOps

\* What the frame of AdoptionWrites asks of a step that leaves the files alone.
LEMMA FilesKept ==
    ASSUME StatusInv, UNCHANGED <<target, maker, adoption>>
    PROVE  /\ target' \in [Path -> Bytes] /\ maker' = [p \in Path |-> maker'[p]] /\ MakersOK'
           /\ target' = target
<1>1. target' = target /\ maker' = maker /\ adoption' = adoption
  OBVIOUS
<1>2. target \in [Path -> Bytes] /\ maker = [p \in Path |-> maker[p]] /\ MakersOK
  BY DEF StatusInv, FilesTyped
<1>3. MakersOK'
  BY <1>1, <1>2 DEF MakersOK
<1>4. QED
  BY <1>1, <1>2, <1>3

LEMMA PrepareStatus ==
    ASSUME Calm, StatusInv, OneOperator, NEW w \in Process, Prepare(w) PROVE StatusInv'
<1>1. PICK h, t, j, p, g : /\ h = held[w] /\ t = h.tx /\ j = h.journal /\ p = Order[h.at]
                           /\ g = Turned(held[w], "link")
  OBVIOUS
<1>2. At(w, {"apply"}, "prepare") /\ Busy(w) /\ "prepare" \in ApplySteps \ {"readback"}
      /\ "link" \in ApplySteps
  BY DEF Prepare, At, ApplySteps
<1>3. /\ ApplyKnows(h) /\ h.pc = "prepare" /\ p \in Path /\ t \in DOMAIN adoption
      /\ j \in AdoptionJournal /\ Tracks(j, t) /\ Here(w) = p /\ AdoptionOK(t)
  BY <1>1, <1>2, ApplyFacts
<1>4. /\ SetsStage(t, p, "source")
      /\ UNCHANGED <<target, maker, linked, quarantine, adoption, detach, snapshot, touched, resumed>>
      /\ Goto(w, "link")
  BY <1>1, <1>3 DEF Prepare, NoSave, disk, environment, history, SetsStage
<1>5. /\ \A u \in DOMAIN stage' : /\ u \in DOMAIN adoption
                                  /\ stage'[u] \in [Path -> {"absent", "source", "partial"}]
      /\ \A u, q : q \in Path => Stage(u, q)' = IF u = t /\ q = p THEN "source" ELSE Stage(u, q)
  <2>1. t \in DOMAIN adoption /\ p \in Path /\ "source" \in {"absent", "source", "partial"}
    BY <1>3
  <2>2. SetsStage(t, p, "source")
    BY <1>4
  <2>3. QED
    BY <2>1, <2>2, StageFacts
<1>6. /\ adoption[t] = j /\ t[p] = "CREATE_PLANNED" /\ p \in j.staged /\ j.status # "ROLLED_BACK"
      /\ t \notin resumed => \A q \in Path : maker[q] = t => j.entry[q] = "VERIFIED"
  BY <1>1, <1>3 DEF ApplyKnows, InEntry
<1>7. Tracks(j, t)'
  BY <1>3, <1>4, <1>5, <1>6 DEF Tracks, Owns
<1>8. ApplyKnows(g)'
  BY <1>1, <1>3, <1>4 DEF ApplyKnows, Turned, Saved, InEntry
<1>9. CallOK(g)'
  <2>1. g = Saved(held[w], j, "link") /\ t = held[w].tx
    BY <1>1 DEF Turned
  <2>2. UNCHANGED <<adoption, detach>> /\ j \in AdoptionJournal
    BY <1>3, <1>4
  <2>3. QED
    BY <1>2, <1>7, <1>8, <2>1, <2>2, ApplyWriteOK
<1>10. held' = [held EXCEPT ![w] = g]
  BY <1>1, <1>2, <1>4, GotoTurned
<1>11. /\ target' \in [Path -> Bytes] /\ maker' = [q \in Path |-> maker'[q]] /\ MakersOK'
       /\ target' = target
  BY <1>4, FilesKept
<1>12. \A u \in DOMAIN adoption, q \in Path : u # t =>
          /\ Stage(u, q)' = Stage(u, q) /\ (Linked(u, q)' <=> Linked(u, q))
          /\ maker'[q] = u => maker[q] = u
  BY <1>4, <1>5 DEF Linked
<1>13. \A q \in Path : Stage(t, q)' # "absent" => t[q] = "CREATE_PLANNED"
  BY <1>3, <1>5, <1>6 DEF AdoptionOK
<1>14. (adoption[t].status # "COMMITTED" => Tracks(adoption[t], t)')
       /\ adoption[t].status # "ROLLED_BACK"
  BY <1>4, <1>6, <1>7
<1>15. UNCHANGED <<quarantine, adoption, detach, touched, resumed>> /\ snapshot \subseteq snapshot'
  BY <1>4
<1>16. /\ \A u \in DOMAIN stage' : /\ u \in DOMAIN adoption
                                  /\ stage'[u] \in [Path -> {"absent", "source", "partial"}]
  BY <1>5
<1>17. t \in DOMAIN adoption
  BY <1>3
<1>18. QED
  BY <1>9, <1>10, <1>11, <1>12, <1>13, <1>14, <1>15, <1>16, <1>17, AdoptionWrites

LEMMA WriteSnapshotStatus ==
    ASSUME Calm, StatusInv, OneOperator, NEW w \in Process, WriteSnapshot(w) PROVE StatusInv'
<1>1. PICK h, t, j, p, g : /\ h = held[w] /\ t = h.tx /\ j = h.journal /\ p = Order[h.at]
                           /\ g = Turned(held[w], "commit")
  OBVIOUS
<1>2. At(w, {"apply"}, "snapshot") /\ Busy(w) /\ "snapshot" \in ApplySteps \ {"readback"}
      /\ "commit" \in ApplySteps
  BY DEF WriteSnapshot, At, ApplySteps
<1>3. /\ ApplyKnows(h) /\ h.pc = "snapshot" /\ t \in DOMAIN adoption
      /\ j \in AdoptionJournal /\ Tracks(j, t) /\ AdoptionOK(t)
  BY <1>1, <1>2, ApplyFacts
<1>4. /\ UNCHANGED <<target, maker, stage, linked, quarantine, adoption, detach, touched, resumed>>
      /\ snapshot' = snapshot \cup {t} /\ Goto(w, "commit")
  BY <1>1 DEF WriteSnapshot, files, environment, history
<1>5. adoption[t] = j /\ j.status # "ROLLED_BACK"
  BY <1>1, <1>3 DEF ApplyKnows
<1>6. \A u, q : Stage(u, q)' = Stage(u, q) /\ (Linked(u, q)' <=> Linked(u, q))
  BY <1>4 DEF Stage, Linked
<1>7. Tracks(j, t)'
  BY <1>3, <1>4, <1>6 DEF Tracks, Owns
<1>8. ApplyKnows(g)'
  BY <1>1, <1>3, <1>4 DEF ApplyKnows, Turned, Saved, InEntry
<1>9. CallOK(g)'
  <2>1. g = Saved(held[w], j, "commit") /\ t = held[w].tx
    BY <1>1 DEF Turned
  <2>2. UNCHANGED <<adoption, detach>> /\ j \in AdoptionJournal
    BY <1>3, <1>4
  <2>3. QED
    BY <1>2, <1>7, <1>8, <2>1, <2>2, ApplyWriteOK
<1>10. held' = [held EXCEPT ![w] = g]
  BY <1>1, <1>2, <1>4, GotoTurned
<1>11. /\ target' \in [Path -> Bytes] /\ maker' = [q \in Path |-> maker'[q]] /\ MakersOK'
       /\ target' = target
  BY <1>4, FilesKept
<1>12. \A u \in DOMAIN adoption, q \in Path : u # t =>
          /\ Stage(u, q)' = Stage(u, q) /\ (Linked(u, q)' <=> Linked(u, q))
          /\ maker'[q] = u => maker[q] = u
  BY <1>4, <1>6
<1>13. \A q \in Path : Stage(t, q)' # "absent" => t[q] = "CREATE_PLANNED"
  BY <1>3, <1>6 DEF AdoptionOK
<1>14. (adoption[t].status # "COMMITTED" => Tracks(adoption[t], t)')
       /\ adoption[t].status # "ROLLED_BACK"
  BY <1>4, <1>5, <1>7
<1>15. UNCHANGED <<quarantine, adoption, detach, touched, resumed>> /\ snapshot \subseteq snapshot'
  BY <1>4
<1>16. \A u \in DOMAIN stage' : /\ u \in DOMAIN adoption
                                /\ stage'[u] \in [Path -> {"absent", "source", "partial"}]
  BY <1>4 DEF StatusInv, FilesTyped
<1>17. t \in DOMAIN adoption
  BY <1>3
<1>18. QED
  BY <1>9, <1>10, <1>11, <1>12, <1>13, <1>14, <1>15, <1>16, <1>17, AdoptionWrites

LEMMA UnstageStatus ==
    ASSUME Calm, StatusInv, OneOperator, NEW w \in Process, Unstage(w) PROVE StatusInv'
<1>1. PICK h, t, j, p, S : /\ h = held[w] /\ t = h.tx /\ j = h.journal /\ p = Order[h.at]
                           /\ S = j.staged \ {p}
  OBVIOUS
<1>2. At(w, {"apply"}, "unstage") /\ Busy(w) /\ "unstage" \in ApplySteps \ {"readback"}
      /\ "verify" \in ApplySteps
  BY DEF Unstage, At, ApplySteps
<1>3. /\ ApplyKnows(h) /\ h.pc = "unstage" /\ p \in Path /\ t \in DOMAIN adoption /\ IsCall(h)
      /\ j \in AdoptionJournal /\ Tracks(j, t) /\ Here(w) = p /\ AdoptionOK(t)
  BY <1>1, <1>2, ApplyFacts
<1>4. /\ SetsStage(t, p, "absent") /\ linked' = Put(linked, t, Links(t) \ {p})
      /\ UNCHANGED <<target, maker, quarantine, adoption, detach, snapshot, touched, resumed>>
  BY <1>1, <1>3 DEF Unstage, NoSave, disk, environment, history, SetsStage, DropStage
<1>5. /\ \A u \in DOMAIN stage' : /\ u \in DOMAIN adoption
                                  /\ stage'[u] \in [Path -> {"absent", "source", "partial"}]
      /\ \A u, q : q \in Path => Stage(u, q)' = IF u = t /\ q = p THEN "absent" ELSE Stage(u, q)
  <2>1. t \in DOMAIN adoption /\ p \in Path /\ "absent" \in {"absent", "source", "partial"}
    BY <1>3
  <2>2. SetsStage(t, p, "absent")
    BY <1>4
  <2>3. QED
    BY <2>1, <2>2, StageFacts
<1>6. /\ adoption[t] = j /\ t[p] = "CREATE_PLANNED" /\ j.status # "ROLLED_BACK"
      /\ j.entry[p] = "CREATED"
      /\ t \notin resumed => \A q \in Path : maker[q] = t => j.entry[q] = "VERIFIED" \/ q = p
  BY <1>1, <1>3 DEF ApplyKnows, InEntry
<1>7. PICK k : k = [j EXCEPT !.staged = S]
  OBVIOUS
<1>8. k \in AdoptionJournal /\ k.status = j.status /\ k.entry = j.entry /\ k.staged = j.staged \ {p}
  BY <1>1, <1>3, <1>7 DEF AdoptionJournal
<1>20. Tracks(j, t)' /\ Tracks(k, t)'
  BY <1>3, <1>4, <1>5, <1>6, <1>8 DEF Tracks, Owns
<1>21. PICK g : g = Saved(held[w], k, "verify")
  OBVIOUS
<1>22. ApplyKnows(g)'
  BY <1>1, <1>3, <1>4, <1>6, <1>8, <1>21 DEF ApplyKnows, Saved, InEntry
<1>9. CallOK(g)'
  <2>1. g = Saved(held[w], k, "verify") /\ t = held[w].tx
    BY <1>1, <1>21
  <2>2. UNCHANGED <<adoption, detach>> /\ k \in AdoptionJournal
    BY <1>8, <1>4
  <2>3. Tracks(k, t)'
    BY <1>20
  <2>4. QED
    BY <1>2, <1>22, <2>1, <2>2, <2>3, ApplyWriteOK
<1>10. held' = [held EXCEPT ![w] = g]
  <2>1. PICK f : f = [h EXCEPT !.pc = "verify", !.journal.staged = S]
    OBVIOUS
  <2>2. held' = [held EXCEPT ![w] = f]
    BY <1>1, <1>3, <2>1 DEF Unstage
  <2>3. f = [op |-> h.op, tx |-> h.tx, journal |-> [h.journal EXCEPT !.staged = S],
             pc |-> "verify", at |-> h.at, hit |-> h.hit, blocked |-> h.blocked]
    BY <1>3, <2>1 DEF IsCall
  <2>5. f = g
    BY <1>1, <1>7, <1>21, <2>3 DEF Saved
  <2>4. QED
    BY <2>2, <2>5
<1>11. /\ target' \in [Path -> Bytes] /\ maker' = [q \in Path |-> maker'[q]] /\ MakersOK'
       /\ target' = target
  BY <1>4, FilesKept
<1>12. \A u \in DOMAIN adoption, q \in Path : u # t =>
          /\ Stage(u, q)' = Stage(u, q) /\ (Linked(u, q)' <=> Linked(u, q))
          /\ maker'[q] = u => maker[q] = u
  BY <1>4, <1>5, LinkFacts
<1>13. \A q \in Path : Stage(t, q)' # "absent" => t[q] = "CREATE_PLANNED"
  BY <1>3, <1>5, <1>6 DEF AdoptionOK
<1>14. (adoption[t].status # "COMMITTED" => Tracks(adoption[t], t)')
       /\ adoption[t].status # "ROLLED_BACK"
  BY <1>4, <1>6, <1>20
<1>15. UNCHANGED <<quarantine, adoption, detach, touched, resumed>> /\ snapshot \subseteq snapshot'
  BY <1>4
<1>16. \A u \in DOMAIN stage' : /\ u \in DOMAIN adoption
                                /\ stage'[u] \in [Path -> {"absent", "source", "partial"}]
  BY <1>5
<1>17. t \in DOMAIN adoption
  BY <1>3
<1>18. QED
  BY <1>9, <1>10, <1>11, <1>12, <1>13, <1>14, <1>15, <1>16, <1>17, AdoptionWrites

LEMMA LinkStageStatus ==
    ASSUME Calm, StatusInv, OneOperator, NEW w \in Process, LinkStage(w) PROVE StatusInv'
<1>1. PICK h, t, j, p, g : /\ h = held[w] /\ t = h.tx /\ j = h.journal /\ p = Order[h.at]
                           /\ g = Turned(held[w], "created")
  OBVIOUS
<1>2. At(w, {"apply"}, "link") /\ Busy(w) /\ "link" \in ApplySteps \ {"readback"}
      /\ "created" \in ApplySteps
  BY DEF LinkStage, At, ApplySteps
<1>3. /\ ApplyKnows(h) /\ h.pc = "link" /\ p \in Path /\ t \in DOMAIN adoption
      /\ j \in AdoptionJournal /\ Tracks(j, t) /\ Here(w) = p /\ AdoptionOK(t)
      /\ j.status # "COMMITTED" /\ \A u \in DOMAIN adoption \ {t} : Over(u)
  BY <1>1, <1>2, ApplyFacts
<1>4. /\ linked' = Put(linked, t, Links(t) \cup {p}) /\ Goto(w, "created")
      /\ target' = [target EXCEPT ![p] = "source"]
      /\ target[p] = "absent" \/ (target[p] = "source" /\ Linked(t, p))
      /\ maker' = [maker EXCEPT ![p] = IF target[p] = "absent" THEN t ELSE @]
      /\ UNCHANGED <<stage, quarantine, adoption, detach, snapshot, touched, resumed>>
  BY <1>1, <1>3 DEF LinkStage, NoSave, disk, environment, history
<1>5. \A u, q : u # t \/ q # p => (Linked(u, q)' <=> Linked(u, q))
  BY <1>4, LinkFacts
<1>6. Linked(t, p)'
  BY <1>4 DEF Put, Linked
<1>7. /\ adoption[t] = j /\ t[p] = "CREATE_PLANNED" /\ j.status # "ROLLED_BACK"
      /\ j.entry[p] = "STAGING" /\ p \in j.staged
      /\ t \notin resumed => \A q \in Path : maker[q] = t => j.entry[q] = "VERIFIED"
  BY <1>1, <1>3 DEF ApplyKnows, InEntry
<1>20. /\ target \in [Path -> Bytes] /\ maker = [q \in Path |-> maker[q]] /\ MakersOK
       /\ t \in Adoption
  BY <1>3 DEF StatusInv, FilesTyped
<1>21. /\ \A q \in Path : q # p => target'[q] = target[q] /\ maker'[q] = maker[q]
       /\ target'[p] = "source" /\ (maker'[p] = maker[p] \/ maker'[p] = t)
  BY <1>3, <1>4, <1>20
<1>22. target' \in [Path -> Bytes] /\ maker' = [q \in Path |-> maker'[q]]
  BY <1>3, <1>4, <1>20 DEF Bytes
<1>23. MakersOK'
  BY <1>3, <1>4, <1>7, <1>20, <1>21 DEF MakersOK
<1>24. Stage(t, p)' = Stage(t, p) /\ \A u, q : Stage(u, q)' = Stage(u, q)
  BY <1>4 DEF Stage
<1>25. Tracks(j, t)'
  BY <1>3, <1>4, <1>5, <1>6, <1>7, <1>21, <1>24 DEF Tracks, Owns
<1>8. ApplyKnows(g)'
  BY <1>1, <1>3, <1>4, <1>7, <1>21 DEF ApplyKnows, Turned, Saved, InEntry
<1>9. CallOK(g)'
  <2>1. g = Saved(held[w], j, "created") /\ t = held[w].tx
    BY <1>1 DEF Turned
  <2>2. UNCHANGED <<adoption, detach>> /\ j \in AdoptionJournal
    BY <1>3, <1>4
  <2>3. QED
    BY <1>2, <1>25, <1>8, <2>1, <2>2, ApplyWriteOK
<1>10. held' = [held EXCEPT ![w] = g]
  BY <1>1, <1>2, <1>4, GotoTurned
<1>11. \A u \in DOMAIN adoption : adoption[u].status # "COMMITTED"
  BY <1>3, <1>7 DEF Over
<1>12. \A u \in DOMAIN adoption, q \in Path : u # t =>
          /\ Stage(u, q)' = Stage(u, q) /\ (Linked(u, q)' <=> Linked(u, q))
          /\ maker'[q] = u => maker[q] = u
  BY <1>5, <1>21, <1>24
<1>13. \A q \in Path : Stage(t, q)' # "absent" => t[q] = "CREATE_PLANNED"
  BY <1>3, <1>24 DEF AdoptionOK
<1>14. (adoption[t].status # "COMMITTED" => Tracks(adoption[t], t)')
       /\ adoption[t].status # "ROLLED_BACK"
  BY <1>4, <1>7, <1>25
<1>15. UNCHANGED <<quarantine, adoption, detach, touched, resumed>> /\ snapshot \subseteq snapshot'
  BY <1>4
<1>16. \A u \in DOMAIN stage' : /\ u \in DOMAIN adoption
                                /\ stage'[u] \in [Path -> {"absent", "source", "partial"}]
  BY <1>4 DEF StatusInv, FilesTyped
<1>17. t \in DOMAIN adoption
  BY <1>3
<1>18. QED
  BY <1>9, <1>10, <1>11, <1>12, <1>13, <1>14, <1>15, <1>16, <1>17, <1>22, <1>23, AdoptionWrites

-----------------------------------------------------------------------------
(* The steps of an undo.                                                     *)

LEMMA FailAdoptionStatus ==
    ASSUME Calm, StatusInv, OneOperator, NEW w \in Process, FailAdoption(w) PROVE StatusInv'
<1>1. PICK h, t, j : h = held[w] /\ t = h.tx /\ j = h.journal
  OBVIOUS
<1>2. Busy(w) /\ h.op = "apply" /\ h.pc \in ApplySteps /\ At(w, {"apply"}, h.pc)
  BY <1>1 DEF FailAdoption, At
<1>3. /\ IsCall(h) /\ CallTypes(h) /\ j \in AdoptionJournal /\ Tracks(j, t) /\ t \in DOMAIN adoption
      /\ \A d \in DOMAIN detach : d.adoption # t
      /\ \A u \in DOMAIN adoption \ {t} : Over(u)
  BY <1>1, <1>2, ApplyFacts
<1>4. PICK k : k = WithStatus(j, "RECOVERY_REQUIRED")
  OBVIOUS
<1>5. k \in AdoptionJournal /\ k.status = "RECOVERY_REQUIRED" /\ k.entry = j.entry
      /\ k.staged = j.staged
  <2>1. "RECOVERY_REQUIRED" \in AdoptionStatus
    BY DEF AdoptionStatus
  <2>2. QED
    BY <1>3, <1>4, <2>1, StatusSet
<1>6. PICK n : n = Len(Order)
  OBVIOUS
<1>7. PICK g : g = [op |-> h.op, tx |-> h.tx, journal |-> k, pc |-> "undo", at |-> n,
                    hit |-> h.hit, blocked |-> h.blocked]
  OBVIOUS
<1>8. n \in DOMAIN Order /\ \A i \in DOMAIN Order : ~(i > n)
  BY <1>6, SurfaceAssumption
<1>9. held' = [held EXCEPT ![w] = g] /\ adoption' = [adoption EXCEPT ![t] = k]
  <2>1. PICK f : f = Undoing([h EXCEPT !.journal = k])
    OBVIOUS
  <2>2. held' = [held EXCEPT ![w] = f] /\ adoption' = [adoption EXCEPT ![t] = k]
    BY <1>1, <1>4, <2>1 DEF FailAdoption, WithStatus
  <2>3. f = [op |-> h.op, tx |-> h.tx, journal |-> k, pc |-> "undo", at |-> Len(Order),
             hit |-> h.hit, blocked |-> h.blocked]
    <3>1. PICK e : e = [h EXCEPT !.journal = k]
      OBVIOUS
    <3>2. e = [op |-> h.op, tx |-> h.tx, journal |-> k, pc |-> h.pc, at |-> h.at,
               hit |-> h.hit, blocked |-> h.blocked]
      BY <1>3, <3>1 DEF IsCall
    <3>3. f = [e EXCEPT !.pc = "undo", !.at = Len(Order)]
      BY <2>1, <3>1 DEF Undoing
    <3>4. QED
      BY <3>2, <3>3
  <2>5. f = g
    BY <1>6, <1>7, <2>3
  <2>4. QED
    BY <2>2, <2>5
<1>10. UNCHANGED <<target, maker, stage, linked, quarantine, detach, snapshot, touched, resumed>>
  BY DEF FailAdoption, files, history
<1>11. DOMAIN adoption' = DOMAIN adoption /\ adoption'[t] = k
       /\ \A u \in DOMAIN adoption : u # t => adoption'[u] = adoption[u]
  BY <1>3, <1>9 DEF StatusInv, FilesTyped
<1>12. Tracks(k, t) /\ Tracks(k, t)'
  BY <1>3, <1>5, <1>10 DEF Tracks, Owns, Stage, Linked
<1>13. CallTypes(g)'
  BY <1>1, <1>2, <1>3, <1>5, <1>7, <1>8, <1>11 DEF CallTypes
<1>14. UndoKnows(g)'
  BY <1>1, <1>7, <1>8, <1>11 DEF UndoKnows
<1>15. \A u \in DOMAIN adoption' \ {t} : Over(u)'
  BY <1>3, <1>11 DEF Over, Spent
<1>16. AdoptionKnows(g)'
  BY <1>1, <1>3, <1>5, <1>7, <1>10, <1>11, <1>12, <1>14, <1>15
     DEF AdoptionKnows, ApplySteps, UndoSteps
<1>17. CallOK(g)'
  BY <1>2, <1>7, <1>13, <1>16 DEF CallOK, DetachOps
<1>18. k.status # "COMMITTED" /\ k.status # "ROLLED_BACK" /\ Busy(w)
       /\ held[w].op \in {"apply", "recover"} /\ held[w].op # "recover" /\ t = held[w].tx
  BY <1>1, <1>2, <1>5
<1>19. QED
  BY <1>5, <1>9, <1>10, <1>12, <1>17, <1>18, AdoptionSaves

\* What a rollback knows of its call.
LEMMA RollbackFacts ==
    ASSUME Calm, StatusInv, NEW w \in Process, NEW pc \in UndoSteps,
           At(w, {"apply", "recover"}, pc)
    PROVE  /\ Busy(w) /\ held[w].op \in {"apply", "recover"} /\ held[w].pc = pc
           /\ IsCall(held[w]) /\ CallTypes(held[w]) /\ UndoKnows(held[w])
           /\ held[w].tx \in DOMAIN adoption /\ held[w].journal \in AdoptionJournal
           /\ held[w].tx \in Adoption /\ adoption[held[w].tx] \in AdoptionJournal
           /\ AdoptionOK(held[w].tx) /\ Here(w) \in Path /\ Here(w) = Order[held[w].at]
           /\ Tracks(held[w].journal, held[w].tx)
           /\ adoption[held[w].tx].status # "COMMITTED"
           /\ \A d \in DOMAIN detach : d.adoption # held[w].tx
           /\ held[w].op = "apply" => \A u \in DOMAIN adoption \ {held[w].tx} : Over(u)
<1>1. Busy(w) /\ held[w].op \in {"apply", "recover"} /\ held[w].pc = pc
  BY DEF At
<1>2. AdoptionKnows(held[w])
  BY <1>1, AdoptionFacts
<1>3. QED
  BY <1>1, <1>2, AdoptionFacts DEF AdoptionKnows, UndoSteps

\* A rollback goes on while the disk stays as it is.
LEMMA UndoTurns ==
    ASSUME Calm, StatusInv, OneOperator, NEW w \in Process, NEW pc \in UndoSteps,
           At(w, {"apply", "recover"}, pc), NEW g, held' = [held EXCEPT ![w] = g],
           UNCHANGED <<target, maker, stage, linked, quarantine, adoption, detach, snapshot,
                       touched, resumed>>,
           g.op = held[w].op, g.tx = held[w].tx, g.journal \in AdoptionJournal,
           g.at \in DOMAIN Order, g.hit \in BOOLEAN, g.blocked \in BOOLEAN, g.pc \in UndoSteps,
           Tracks(g.journal, g.tx), UndoKnows(g)
    PROVE  StatusInv'
<1>1. PICK t : t = held[w].tx
  OBVIOUS
<1>2. /\ g.op \in {"apply", "recover"} /\ g.tx = t /\ t \in DOMAIN adoption
      /\ adoption[t].status # "COMMITTED" /\ \A d \in DOMAIN detach : d.adoption # t
      /\ g.op = "apply" => \A u \in DOMAIN adoption \ {t} : Over(u)
  BY <1>1, RollbackFacts
<1>3. CallTypes(g)
  BY <1>2 DEF CallTypes
<1>4. AdoptionKnows(g)
  BY <1>2 DEF AdoptionKnows, UndoSteps, ApplySteps
<1>5. CallOK(g)
  BY <1>2, <1>3, <1>4 DEF CallOK, DetachOps
<1>6. QED
  BY <1>5, TurnKeeps

\* The undo of an entry is settled, or leaves its journal and blocks.
LEMMA UndoDown ==
    ASSUME NEW x, IsCall(x), x.hit \in BOOLEAN, x.blocked \in BOOLEAN, NEW p, NEW state,
           NEW g, g = UndoNext(Settled(x, p, state))
    PROVE  /\ g.op = x.op /\ g.tx = x.tx /\ ~g.hit /\ g.hit \in BOOLEAN /\ g.blocked \in BOOLEAN
           /\ g.blocked <=> x.blocked \/ x.hit
           /\ x.hit => g.journal = x.journal
           /\ ~x.hit => g.journal = WithStaged(x.journal, p, state, x.journal.staged \ {p})
           /\ x.at = 1 => g.pc = "rmdir" /\ g.at = x.at
           /\ x.at # 1 => g.pc = "undo" /\ g.at = x.at - 1
<1>1. PICK S : S = x.journal.staged \ {p}
  OBVIOUS
<1>2. PICK k : k = WithStaged(x.journal, p, state, S)
  OBVIOUS
<1>3. PICK s : s = Settled(x, p, state)
  OBVIOUS
<1>4. s = [op |-> x.op, tx |-> x.tx, journal |-> IF x.hit THEN x.journal ELSE k,
           pc |-> x.pc, at |-> x.at, hit |-> x.hit, blocked |-> x.blocked]
  <2>1. CASE x.hit
    BY <1>3, <2>1 DEF Settled, IsCall
  <2>2. CASE ~x.hit
    <3>1. s = [x EXCEPT !.journal = [x.journal EXCEPT !.entry[p] = state,
                                                      !.staged = x.journal.staged \ {p}]]
      BY <1>3, <2>2 DEF Settled
    <3>2. s = [x EXCEPT !.journal = k]
      BY <1>1, <1>2, <3>1 DEF WithStaged
    <3>3. QED
      BY <2>2, <3>2 DEF IsCall
  <2>3. QED
    BY <2>1, <2>2
<1>5. PICK b : b = [s EXCEPT !.blocked = @ \/ s.hit, !.hit = FALSE]
  OBVIOUS
<1>6. b = [op |-> x.op, tx |-> x.tx, journal |-> IF x.hit THEN x.journal ELSE k,
           pc |-> x.pc, at |-> x.at, hit |-> FALSE, blocked |-> x.blocked \/ x.hit]
  BY <1>4, <1>5
<1>7. g = IF x.at = 1 THEN [b EXCEPT !.pc = "rmdir"] ELSE [b EXCEPT !.pc = "undo", !.at = @ - 1]
  BY <1>3, <1>4, <1>5 DEF UndoNext
<1>8. QED
  BY <1>1, <1>2, <1>6, <1>7

LEMMA Undone ==
    ASSUME Calm, StatusInv, NEW w \in Process, NEW pc \in {"undo", "cleanup"},
           At(w, {"apply", "recover"}, pc), NEW p, p = Here(w),
           NEW x, IsCall(x), x.op = held[w].op, x.tx = held[w].tx, x.journal = held[w].journal,
           x.at = held[w].at, x.blocked = held[w].blocked, x.hit \in BOOLEAN,
           NEW state \in {"PRESERVED", "ROLLED_BACK"}, NEW g, g = UndoNext(Settled(x, p, state)),
           ~x.hit /\ held[w].tx \notin resumed => maker[p] # held[w].tx
    PROVE  /\ g.op = held[w].op /\ g.tx = held[w].tx /\ g.journal \in AdoptionJournal
           /\ g.at \in DOMAIN Order /\ g.hit \in BOOLEAN /\ g.blocked \in BOOLEAN
           /\ g.pc \in UndoSteps /\ UndoKnows(g)
           /\ x.hit => g.journal = held[w].journal
           /\ ~x.hit => /\ g.journal.entry[p] = state /\ g.journal.staged = held[w].journal.staged \ {p}
                        /\ \A q \in Path : q # p => g.journal.entry[q] = held[w].journal.entry[q]
<1>1. PICK h, t, j, k : h = held[w] /\ t = h.tx /\ j = h.journal /\ k = g.journal
  OBVIOUS
<1>2. /\ h.pc = pc /\ CallTypes(h) /\ UndoKnows(h) /\ j \in AdoptionJournal /\ p \in Path
      /\ p = Order[h.at]
  BY <1>1, RollbackFacts DEF UndoSteps
<1>3. /\ g.op = h.op /\ g.tx = t /\ ~g.hit /\ g.hit \in BOOLEAN /\ g.blocked \in BOOLEAN
      /\ g.blocked <=> h.blocked \/ x.hit
      /\ x.hit => k = j
      /\ ~x.hit => k = WithStaged(j, p, state, j.staged \ {p})
      /\ h.at = 1 => g.pc = "rmdir" /\ g.at = h.at
      /\ h.at # 1 => g.pc = "undo" /\ g.at = h.at - 1
  <2>1. x.blocked \in BOOLEAN
    BY <1>1, <1>2 DEF CallTypes
  <2>2. QED
    BY <1>1, <2>1, UndoDown
<1>4. ~x.hit => /\ k \in AdoptionJournal /\ k.entry[p] = state /\ k.staged = j.staged \ {p}
                /\ \A q \in Path : q # p => k.entry[q] = j.entry[q]
  <2>1. PICK S : S = j.staged \ {p}
    OBVIOUS
  <2>2. S \in SUBSET Path /\ state \in AdoptionEntry
    BY <1>2, <2>1 DEF AdoptionJournal, AdoptionEntry
  <2>3. ~x.hit => k = WithStaged(j, p, state, S)
    BY <1>3, <2>1
  <2>4. QED
    BY <1>2, <2>1, <2>2, <2>3, SetStaged
<1>5. g.at \in DOMAIN Order /\ g.pc \in {"undo", "rmdir"} /\ k \in AdoptionJournal
  BY <1>2, <1>3, <1>4, SurfaceAssumption DEF CallTypes
<1>6. UndoKnows(g)
  <2>1. Spent(j) => Spent(k)
    BY <1>3, <1>4 DEF Spent
  <2>2. ASSUME ~g.blocked, NEW i \in DOMAIN Order, i > g.at \/ g.pc \in {"rmdir", "close"}
        PROVE  /\ k.entry[Order[i]] \notin {"CREATED", "VERIFIED"} /\ Order[i] \notin k.staged
               /\ t \notin resumed => maker[Order[i]] # t
    <3>1. ~h.blocked /\ ~x.hit
      BY <1>3, <2>2
    <3>2. i \in Nat /\ h.at \in Nat /\ i >= h.at
      BY <1>2, <1>3, <2>2, SurfaceAssumption DEF CallTypes
    <3>3. Order[i] \in Path
      BY <2>2 DEF Path
    <3>4. CASE Order[i] = p
      BY <1>1, <1>4, <3>1, <3>4
    <3>5. CASE Order[i] # p
      <4>1. i > h.at
        BY <1>2, <3>2, <3>5
      <4>2. /\ j.entry[Order[i]] \notin {"CREATED", "VERIFIED"} /\ Order[i] \notin j.staged
            /\ t \notin resumed => maker[Order[i]] # t
        BY <1>1, <1>2, <3>1, <4>1, <2>2 DEF UndoKnows
      <4>3. QED
        BY <1>4, <3>1, <3>3, <3>5, <4>2
    <3>6. QED
      BY <3>4, <3>5
  <2>3. Spent(adoption[t]) => Spent(k)
    BY <1>1, <1>2, <2>1 DEF UndoKnows
  <2>4. QED
    BY <1>1, <1>3, <1>5, <2>2, <2>3 DEF UndoKnows
<1>7. QED
  BY <1>1, <1>3, <1>4, <1>5, <1>6 DEF UndoSteps

LEMMA UndoPreservedStatus ==
    ASSUME Calm, StatusInv, OneOperator, NEW w \in Process, UndoPreserved(w) PROVE StatusInv'
<1>1. PICK h, t, j, p : h = held[w] /\ t = h.tx /\ j = h.journal /\ p = Here(w)
  OBVIOUS
<1>2. At(w, {"apply", "recover"}, "undo") /\ "undo" \in UndoSteps /\ "undo" \in {"undo", "cleanup"}
  BY DEF UndoPreserved, Undo, UndoSteps
<1>3. /\ IsCall(h) /\ CallTypes(h) /\ AdoptionOK(t) /\ p \in Path /\ Tracks(j, t)
      /\ t \in DOMAIN adoption
  BY <1>1, <1>2, RollbackFacts
<1>4. PICK b : b = (t[p] \in Foreign /\ target[p] # t[p])
  OBVIOUS
<1>5. PICK x : x = [h EXCEPT !.hit = b]
  OBVIOUS
<1>6. /\ IsCall(x) /\ x.op = h.op /\ x.tx = t /\ x.journal = j /\ x.at = h.at
      /\ x.blocked = h.blocked /\ x.hit \in BOOLEAN
  BY <1>1, <1>3, <1>4, <1>5 DEF IsCall
<1>7. PICK g : g = UndoNext(Settled(x, p, "PRESERVED"))
  OBVIOUS
<1>8. t[p] # "CREATE_PLANNED" /\ held' = [held EXCEPT ![w] = g]
  BY <1>1, <1>4, <1>5, <1>7 DEF UndoPreserved
<1>9. Stage(t, p) = "absent" /\ maker[p] # t
  BY <1>3, <1>8 DEF AdoptionOK, StatusInv, MakersOK
<1>10. /\ g.op = held[w].op /\ g.tx = held[w].tx /\ g.journal \in AdoptionJournal
       /\ g.at \in DOMAIN Order /\ g.hit \in BOOLEAN /\ g.blocked \in BOOLEAN
       /\ g.pc \in UndoSteps /\ UndoKnows(g)
       /\ x.hit => g.journal = held[w].journal
       /\ ~x.hit => /\ g.journal.entry[p] = "PRESERVED" /\ g.journal.staged = held[w].journal.staged \ {p}
                    /\ \A q \in Path : q # p => g.journal.entry[q] = held[w].journal.entry[q]
  <2>1. /\ x.op = held[w].op /\ x.tx = held[w].tx /\ x.journal = held[w].journal
        /\ x.at = held[w].at /\ x.blocked = held[w].blocked /\ p = Here(w)
        /\ maker[p] # held[w].tx /\ "PRESERVED" \in {"PRESERVED", "ROLLED_BACK"}
    BY <1>1, <1>6, <1>9
  <2>2. QED
    BY <1>2, <1>6, <1>7, <2>1, Undone
<1>11. Tracks(g.journal, g.tx)
  BY <1>1, <1>3, <1>9, <1>10 DEF Tracks, Owns
<1>12. UNCHANGED <<target, maker, stage, linked, quarantine, adoption, detach, snapshot,
                   touched, resumed>>
  BY DEF UndoPreserved, files, NoSave, disk, environment, history
<1>13. QED
  BY <1>2, <1>8, <1>10, <1>11, <1>12, UndoTurns

LEMMA UndoTargetStatus ==
    ASSUME Calm, StatusInv, OneOperator, NEW w \in Process, UndoTarget(w) PROVE StatusInv'
<1>1. PICK h, t, j, p : h = held[w] /\ t = h.tx /\ j = h.journal /\ p = Here(w)
  OBVIOUS
<1>2. At(w, {"apply", "recover"}, "undo") /\ "undo" \in UndoSteps
  BY DEF UndoTarget, Undo, UndoSteps
<1>3. /\ IsCall(h) /\ CallTypes(h) /\ UndoKnows(h) /\ h.pc = "undo" /\ p \in Path /\ Tracks(j, t)
      /\ t \in DOMAIN adoption /\ j \in AdoptionJournal /\ p = Order[h.at]
  BY <1>1, <1>2, RollbackFacts
<1>4. PICK b, c : /\ b = IF Proven(h, p) THEN target[p] \in Foreign
                         ELSE j.entry[p] = "STAGING" /\ target[p] = "source" /\ StageGone(h, p)
                  /\ c = IF Proven(h, p) /\ target[p] = "source" THEN "remove" ELSE "cleanup"
  OBVIOUS
<1>5. PICK g : g = [h EXCEPT !.pc = c, !.hit = b]
  OBVIOUS
<1>6. held' = [held EXCEPT ![w] = g]
  BY <1>1, <1>4, <1>5 DEF UndoTarget
<1>7. /\ g.op = h.op /\ g.tx = t /\ g.journal = j /\ g.at = h.at /\ g.blocked = h.blocked
      /\ g.hit = b /\ g.pc = c /\ b \in BOOLEAN
  <2>1. b \in BOOLEAN
    <3>1. CASE Proven(h, p)
      <4>1. b = (target[p] \in Foreign)
        BY <1>4, <3>1
      <4>2. QED
        BY <4>1
    <3>2. CASE ~Proven(h, p)
      <4>1. b = (j.entry[p] = "STAGING" /\ target[p] = "source" /\ StageGone(h, p))
        BY <1>4, <3>2
      <4>2. QED
        BY <4>1
    <3>3. QED
      BY <3>1, <3>2
  <2>2. g = [op |-> h.op, tx |-> h.tx, journal |-> h.journal, pc |-> c, at |-> h.at,
             hit |-> b, blocked |-> h.blocked]
    BY <1>3, <1>5 DEF IsCall
  <2>3. QED
    BY <1>1, <2>1, <2>2
<1>8. c = "remove" => j.entry[p] \in {"CREATED", "VERIFIED"} \/ p \in j.staged
  BY <1>1, <1>4 DEF Proven
<1>9. ASSUME c = "cleanup", ~b, t \notin resumed, maker[p] = t PROVE FALSE
  <2>1. target[p] = "source"
    BY <1>3, <1>9 DEF StatusInv, MakersOK
  <2>2. Owns(j, t, p)
    BY <1>3, <1>9 DEF Tracks
  <2>3. ~Proven(h, p)
    BY <1>4, <1>9, <2>1
  <2>4. j.entry[p] = "STAGING" /\ Stage(t, p) = "absent"
    BY <1>1, <2>2, <2>3 DEF Owns, Proven
  <2>5. QED
    BY <1>1, <1>4, <1>9, <2>1, <2>3, <2>4 DEF StageGone
<1>10. UndoKnows(g)
  BY <1>1, <1>3, <1>4, <1>7, <1>8, <1>9 DEF UndoKnows
<1>11. /\ g.op = held[w].op /\ g.tx = held[w].tx /\ g.journal \in AdoptionJournal
       /\ g.at \in DOMAIN Order /\ g.hit \in BOOLEAN /\ g.blocked \in BOOLEAN
       /\ g.pc \in UndoSteps /\ Tracks(g.journal, g.tx)
  BY <1>1, <1>3, <1>4, <1>7 DEF UndoSteps, CallTypes
<1>12. UNCHANGED <<target, maker, stage, linked, quarantine, adoption, detach, snapshot,
                   touched, resumed>>
  BY DEF UndoTarget, files, NoSave, disk, environment, history
<1>13. QED
  BY <1>2, <1>6, <1>10, <1>11, <1>12, UndoTurns

LEMMA UndoCallFailsStatus ==
    ASSUME Calm, StatusInv, OneOperator, NEW w \in Process, UndoCallFails(w) PROVE StatusInv'
<1>1. PICK h, pc : h = held[w] /\ pc = h.pc
  OBVIOUS
<1>2. At(w, {"apply", "recover"}, pc) /\ pc \in {"remove", "cleanup"} /\ pc \in UndoSteps
  BY <1>1 DEF UndoCallFails, At, UndoSteps
<1>3. /\ IsCall(h) /\ CallTypes(h) /\ UndoKnows(h) /\ h.journal \in AdoptionJournal
      /\ Tracks(h.journal, h.tx)
  BY <1>1, <1>2, RollbackFacts
<1>4. PICK x : x = [h EXCEPT !.hit = TRUE]
  OBVIOUS
<1>5. /\ IsCall(x) /\ x.op = h.op /\ x.tx = h.tx /\ x.journal = h.journal /\ x.at = h.at
      /\ x.blocked = h.blocked /\ x.hit
  BY <1>3, <1>4 DEF IsCall
<1>6. PICK g : g = IF pc = "remove" THEN [h EXCEPT !.pc = "cleanup", !.hit = TRUE] ELSE UndoNext(x)
  OBVIOUS
<1>7. held' = [held EXCEPT ![w] = g]
  BY <1>1, <1>4, <1>6 DEF UndoCallFails
<1>8. UNCHANGED <<target, maker, stage, linked, quarantine, adoption, detach, snapshot,
                  touched, resumed>>
  BY DEF UndoCallFails, files, disk, history
<1>9. CASE pc = "remove"
  <2>1. /\ g.op = h.op /\ g.tx = h.tx /\ g.journal = h.journal /\ g.at = h.at
        /\ g.blocked = h.blocked /\ g.hit /\ g.hit \in BOOLEAN /\ g.pc = "cleanup"
    BY <1>3, <1>6, <1>9 DEF IsCall
  <2>2. UndoKnows(g)
    BY <1>1, <1>3, <1>9, <2>1 DEF UndoKnows
  <2>3. /\ g.op = held[w].op /\ g.tx = held[w].tx /\ g.journal \in AdoptionJournal
        /\ g.at \in DOMAIN Order /\ g.hit \in BOOLEAN /\ g.blocked \in BOOLEAN
        /\ g.pc \in UndoSteps /\ Tracks(g.journal, g.tx)
    BY <1>1, <1>3, <2>1 DEF UndoSteps, CallTypes
  <2>4. QED
    BY <1>2, <1>7, <1>8, <2>2, <2>3, UndoTurns
<1>10. CASE pc = "cleanup"
  <2>1. g = UndoNext(Settled(x, Order[h.at], "ROLLED_BACK"))
    BY <1>5, <1>6, <1>10 DEF Settled
  <2>2. x.hit \in BOOLEAN /\ x.blocked \in BOOLEAN
    BY <1>3, <1>4, <1>5 DEF CallTypes, IsCall
  <2>3. /\ g.op = h.op /\ g.tx = h.tx /\ ~g.hit /\ g.hit \in BOOLEAN /\ g.blocked \in BOOLEAN
        /\ g.blocked /\ g.journal = h.journal
        /\ h.at = 1 => g.pc = "rmdir" /\ g.at = h.at
        /\ h.at # 1 => g.pc = "undo" /\ g.at = h.at - 1
    <3>1. PICK p, state : p = Order[h.at] /\ state = "ROLLED_BACK"
      OBVIOUS
    <3>2. g = UndoNext(Settled(x, p, state))
      BY <2>1, <3>1
    <3>3. /\ g.op = x.op /\ g.tx = x.tx /\ ~g.hit /\ g.hit \in BOOLEAN /\ g.blocked \in BOOLEAN
          /\ g.blocked <=> x.blocked \/ x.hit
          /\ x.hit => g.journal = x.journal
          /\ ~x.hit => g.journal = WithStaged(x.journal, p, state, x.journal.staged \ {p})
          /\ x.at = 1 => g.pc = "rmdir" /\ g.at = x.at
          /\ x.at # 1 => g.pc = "undo" /\ g.at = x.at - 1
      <4>1. IsCall(x)
        BY <1>5
      <4>2. QED
        BY <2>2, <3>2, <4>1, UndoDown
    <3>4. QED
      BY <1>5, <3>3
  <2>4. g.at \in DOMAIN Order /\ g.pc \in {"undo", "rmdir"}
    BY <1>3, <2>3, SurfaceAssumption DEF CallTypes
  <2>5. UndoKnows(g)
    BY <1>3, <2>3, <2>4 DEF UndoKnows
  <2>6. /\ g.op = held[w].op /\ g.tx = held[w].tx /\ g.journal \in AdoptionJournal
        /\ g.at \in DOMAIN Order /\ g.hit \in BOOLEAN /\ g.blocked \in BOOLEAN
        /\ g.pc \in UndoSteps /\ Tracks(g.journal, g.tx)
    BY <1>1, <1>3, <2>3, <2>4 DEF UndoSteps
  <2>7. QED
    BY <1>2, <1>7, <1>8, <2>5, <2>6, UndoTurns
<1>11. QED
  BY <1>2, <1>9, <1>10

LEMMA RemoveDirectoryStatus ==
    ASSUME Calm, StatusInv, OneOperator, NEW w \in Process, RemoveDirectory(w) PROVE StatusInv'
<1>1. PICK h, g : h = held[w] /\ g = Turned(held[w], "close")
  OBVIOUS
<1>2. At(w, {"apply", "recover"}, "rmdir") /\ "rmdir" \in UndoSteps /\ Busy(w)
  BY DEF RemoveDirectory, UndoSteps, At
<1>3. /\ CallTypes(h) /\ UndoKnows(h) /\ h.pc = "rmdir" /\ h.journal \in AdoptionJournal
      /\ Tracks(h.journal, h.tx)
  BY <1>1, <1>2, RollbackFacts
<1>4. /\ g.op = h.op /\ g.tx = h.tx /\ g.journal = h.journal /\ g.at = h.at
      /\ g.blocked = h.blocked /\ g.hit = h.hit /\ g.pc = "close"
  BY <1>1 DEF Turned, Saved
<1>5. UndoKnows(g)
  BY <1>3, <1>4 DEF UndoKnows
<1>6. held' = [held EXCEPT ![w] = g]
  BY <1>1, <1>2, GotoTurned DEF RemoveDirectory
<1>7. UNCHANGED <<target, maker, stage, linked, quarantine, adoption, detach, snapshot,
                  touched, resumed>>
  BY DEF RemoveDirectory, NoSave, disk, environment, history
<1>8. /\ g.op = held[w].op /\ g.tx = held[w].tx /\ g.journal \in AdoptionJournal
      /\ g.at \in DOMAIN Order /\ g.hit \in BOOLEAN /\ g.blocked \in BOOLEAN
      /\ g.pc \in UndoSteps /\ Tracks(g.journal, g.tx)
  BY <1>1, <1>3, <1>4 DEF UndoSteps, CallTypes
<1>9. QED
  BY <1>2, <1>5, <1>6, <1>7, <1>8, UndoTurns

LEMMA CloseAdoptionStatus ==
    ASSUME Calm, StatusInv, OneOperator, NEW w \in Process, CloseAdoption(w) PROVE StatusInv'
<1>1. PICK h, t, j : h = held[w] /\ t = h.tx /\ j = h.journal
  OBVIOUS
<1>2. At(w, {"apply", "recover"}, "close") /\ "close" \in UndoSteps
  BY DEF CloseAdoption, UndoSteps
<1>3. /\ Busy(w) /\ h.op \in {"apply", "recover"} /\ CallTypes(h) /\ UndoKnows(h) /\ h.pc = "close"
      /\ j \in AdoptionJournal /\ Tracks(j, t) /\ t \in DOMAIN adoption
  BY <1>1, <1>2, RollbackFacts
<1>4. PICK k : k = IF h.blocked THEN [j EXCEPT !.status = "RECOVERY_BLOCKED"]
                   ELSE [j EXCEPT !.status = "ROLLED_BACK", !.created = FALSE]
  OBVIOUS
<1>5. /\ k \in AdoptionJournal /\ k.entry = j.entry /\ k.staged = j.staged
      /\ k.status = IF h.blocked THEN "RECOVERY_BLOCKED" ELSE "ROLLED_BACK"
  BY <1>3, <1>4 DEF AdoptionJournal, AdoptionStatus
<1>6. adoption' = [adoption EXCEPT ![t] = k] /\ held' = [held EXCEPT ![w] = Idle]
  BY <1>1, <1>4 DEF CloseAdoption
<1>7. UNCHANGED <<target, maker, stage, linked, quarantine, detach, snapshot, touched, resumed>>
  BY DEF CloseAdoption, OnlyAdoption, files, environment, history
<1>8. Tracks(k, t)
  BY <1>3, <1>5 DEF Tracks, Owns
<1>9. ~h.blocked => Spent(k) /\ (t \notin resumed => \A p \in Path : maker[p] # t)
  BY <1>1, <1>3, <1>5 DEF UndoKnows, Spent, Path
<1>10. Spent(adoption[t]) => Spent(k)
  BY <1>1, <1>3, <1>5 DEF UndoKnows, Spent
<1>11. /\ k.status # "COMMITTED" /\ (k.status = "ROLLED_BACK" =>
            Spent(k) /\ (t \notin resumed => \A p \in Path : maker[p] # t))
       /\ k.status \in {"ROLLED_BACK", "RECOVERY_BLOCKED"}
  BY <1>5, <1>9
<1>12. Busy(w) /\ held[w].op \in {"apply", "recover"} /\ t = held[w].tx
  BY <1>1, <1>3
<1>13. QED
  BY <1>5, <1>6, <1>7, <1>8, <1>10, <1>11, <1>12, AdoptionSaves

\* A rollback that changed a file or a staging file.
LEMMA UndoWriteOK ==
    ASSUME Calm, StatusInv, NEW w \in Process, NEW pc \in UndoSteps,
           At(w, {"apply", "recover"}, pc), NEW g, UNCHANGED <<adoption, detach>>,
           NEW t, t = held[w].tx, g.op = held[w].op, g.tx = t, g.journal \in AdoptionJournal,
           g.at \in DOMAIN Order, g.hit \in BOOLEAN, g.blocked \in BOOLEAN, g.pc \in UndoSteps,
           Tracks(g.journal, t)', UndoKnows(g)'
    PROVE  CallOK(g)'
<1>1. /\ g.op \in {"apply", "recover"} /\ t \in DOMAIN adoption
      /\ adoption[t].status # "COMMITTED" /\ \A d \in DOMAIN detach : d.adoption # t
      /\ g.op = "apply" => \A u \in DOMAIN adoption \ {t} : Over(u)
  BY RollbackFacts
<1>2. CallTypes(g)'
  BY <1>1 DEF CallTypes
<1>3. g.op = "apply" => \A u \in DOMAIN adoption' \ {t} : Over(u)'
  BY <1>1 DEF Over, Spent
<1>4. Tracks(g.journal, g.tx)'
  OBVIOUS
<1>5. AdoptionKnows(g)'
  BY <1>1, <1>3, <1>4 DEF AdoptionKnows, UndoSteps, ApplySteps
<1>6. QED
  BY <1>1, <1>2, <1>5 DEF CallOK, DetachOps

LEMMA RemoveTargetStatus ==
    ASSUME Calm, StatusInv, OneOperator, NEW w \in Process, RemoveTarget(w) PROVE StatusInv'
<1>1. PICK h, t, j, p, b : /\ h = held[w] /\ t = h.tx /\ j = h.journal /\ p = Here(w)
                           /\ b = (target[p] = "absent")
  OBVIOUS
<1>2. At(w, {"apply", "recover"}, "remove") /\ "remove" \in UndoSteps
  BY DEF RemoveTarget, UndoSteps
<1>3. /\ IsCall(h) /\ CallTypes(h) /\ UndoKnows(h) /\ h.pc = "remove" /\ p \in Path
      /\ Tracks(j, t) /\ t \in DOMAIN adoption /\ j \in AdoptionJournal /\ p = Order[h.at]
      /\ t \in Adoption /\ AdoptionOK(t) /\ adoption[t].status # "COMMITTED"
  BY <1>1, <1>2, RollbackFacts
<1>4. /\ target' = [target EXCEPT ![p] = "absent"] /\ maker' = [maker EXCEPT ![p] = Consumer]
      /\ linked' = Put(linked, t, Links(t) \ {p})
      /\ UNCHANGED <<stage, quarantine, adoption, detach, snapshot, touched, resumed>>
  BY <1>1 DEF RemoveTarget, NoSave, disk, environment, history
<1>5. PICK g : g = [h EXCEPT !.pc = "cleanup", !.hit = b]
  OBVIOUS
<1>6. held' = [held EXCEPT ![w] = g]
  BY <1>1, <1>5 DEF RemoveTarget
<1>7. /\ g.op = h.op /\ g.tx = t /\ g.journal = j /\ g.at = h.at /\ g.blocked = h.blocked
      /\ g.hit = b /\ g.pc = "cleanup" /\ b \in BOOLEAN
  <2>1. b \in BOOLEAN
    BY <1>1
  <2>2. g = [op |-> h.op, tx |-> h.tx, journal |-> h.journal, pc |-> "cleanup", at |-> h.at,
             hit |-> b, blocked |-> h.blocked]
    BY <1>3, <1>5 DEF IsCall
  <2>3. QED
    BY <1>1, <2>1, <2>2
<1>8. /\ target \in [Path -> Bytes] /\ maker = [q \in Path |-> maker[q]] /\ MakersOK
  BY DEF StatusInv, FilesTyped
<1>9. /\ \A q \in Path : q # p => target'[q] = target[q] /\ maker'[q] = maker[q]
      /\ maker'[p] = Consumer
  BY <1>3, <1>4, <1>8
<1>10. \A u \in DOMAIN adoption : u \in Adoption /\ u # Consumer
  BY ConsumerAssumption DEF StatusInv, FilesTyped
<1>11. /\ target' \in [Path -> Bytes] /\ maker' = [q \in Path |-> maker'[q]] /\ MakersOK'
  <2>1. target' \in [Path -> Bytes] /\ maker' = [q \in Path |-> maker'[q]]
    BY <1>3, <1>4, <1>8 DEF Bytes
  <2>2. MakersOK'
    BY <1>4, <1>8, <1>9, <1>10 DEF MakersOK
  <2>3. QED
    BY <2>1, <2>2
<1>12. \A u, q : /\ Stage(u, q)' = Stage(u, q)
                 /\ u # t \/ q # p => (Linked(u, q)' <=> Linked(u, q))
  BY <1>4, LinkFacts DEF Stage
<1>13. ASSUME NEW k, Tracks(k, t) PROVE Tracks(k, t)'
  BY <1>3, <1>4, <1>9, <1>10, <1>12, <1>13 DEF Tracks, Owns
<1>14. UndoKnows(g)'
  <2>1. Spent(adoption'[t]) => Spent(j)
    BY <1>1, <1>3, <1>4 DEF UndoKnows
  <2>2. maker'[Order[h.at]] # t
    BY <1>3, <1>9, <1>10
  <2>3. \A i \in DOMAIN Order : maker[Order[i]] # t => maker'[Order[i]] # t
    BY <1>3, <1>9, <1>10 DEF Path
  <2>4. \A i \in DOMAIN Order : ~h.blocked /\ i > h.at =>
          /\ j.entry[Order[i]] \notin {"CREATED", "VERIFIED"} /\ Order[i] \notin j.staged
          /\ t \notin resumed => maker[Order[i]] # t
    BY <1>1, <1>3 DEF UndoKnows
  <2>5. QED
    BY <1>1, <1>4, <1>7, <2>1, <2>2, <2>3, <2>4 DEF UndoKnows, Spent
<1>15. CallOK(g)'
  <2>1. /\ t = held[w].tx /\ g.op = held[w].op /\ g.tx = t /\ g.journal \in AdoptionJournal
        /\ g.at \in DOMAIN Order /\ g.hit \in BOOLEAN /\ g.blocked \in BOOLEAN /\ g.pc \in UndoSteps
    BY <1>1, <1>3, <1>7 DEF CallTypes, UndoSteps
  <2>2. Tracks(g.journal, t)'
    BY <1>3, <1>7, <1>13
  <2>3. UNCHANGED <<adoption, detach>>
    BY <1>4
  <2>4. QED
    BY <1>2, <1>14, <2>1, <2>2, <2>3, UndoWriteOK
<1>16. \A u \in DOMAIN adoption : adoption[u].status # "COMMITTED"
  <2>1. ~Spent(j)
    BY <1>1, <1>3 DEF UndoKnows, Spent
  <2>2. ~Over(t)
    BY <1>1, <1>3, <2>1 DEF UndoKnows, Over
  <2>3. QED
    BY <1>3, <2>2 DEF StatusInv, OneCommitted
<1>17. \A u \in DOMAIN adoption, q \in Path : u # t =>
          /\ Stage(u, q)' = Stage(u, q) /\ (Linked(u, q)' <=> Linked(u, q))
          /\ maker'[q] = u => maker[q] = u
  BY <1>9, <1>10, <1>12
<1>18. /\ \A q \in Path : Stage(t, q)' # "absent" => t[q] = "CREATE_PLANNED"
       /\ adoption[t].status = "ROLLED_BACK" /\ t \notin resumed => \A q \in Path : maker'[q] # t
  BY <1>3, <1>9, <1>10, <1>12 DEF AdoptionOK
<1>19. adoption[t].status # "COMMITTED" => Tracks(adoption[t], t)'
  <2>1. Tracks(adoption[t], t)
    BY <1>3 DEF AdoptionOK
  <2>2. PICK k : k = adoption[t]
    OBVIOUS
  <2>3. Tracks(k, t)'
    BY <1>13, <2>1, <2>2
  <2>4. QED
    BY <1>4, <2>2, <2>3
<1>20. UNCHANGED <<quarantine, adoption, detach, touched, resumed>> /\ snapshot \subseteq snapshot'
  BY <1>4
<1>21. \A u \in DOMAIN stage' : /\ u \in DOMAIN adoption
                                /\ stage'[u] \in [Path -> {"absent", "source", "partial"}]
  BY <1>4 DEF StatusInv, FilesTyped
<1>22. t \in DOMAIN adoption
  BY <1>3
<1>23. QED
  BY <1>6, <1>11, <1>15, <1>16, <1>17, <1>18, <1>19, <1>20, <1>21, <1>22, AdoptionWrites

LEMMA UndoStageStatus ==
    ASSUME Calm, StatusInv, OneOperator, NEW w \in Process, UndoStage(w) PROVE StatusInv'
<1>1. PICK h, t, j, p, b : /\ h = held[w] /\ t = h.tx /\ j = h.journal /\ p = Here(w)
                           /\ b = (h.hit \/ (~StageGone(h, p) /\ Stage(t, p) = "partial"))
  OBVIOUS
<1>2. At(w, {"apply", "recover"}, "cleanup") /\ "cleanup" \in UndoSteps
      /\ "cleanup" \in {"undo", "cleanup"}
  BY DEF UndoStage, UndoSteps
<1>3. /\ IsCall(h) /\ CallTypes(h) /\ UndoKnows(h) /\ h.pc = "cleanup" /\ p \in Path
      /\ Tracks(j, t) /\ t \in DOMAIN adoption /\ j \in AdoptionJournal /\ p = Order[h.at]
      /\ t \in Adoption /\ AdoptionOK(t) /\ adoption[t].status # "COMMITTED"
  BY <1>1, <1>2, RollbackFacts
<1>4. PICK x : x = [h EXCEPT !.hit = b]
  OBVIOUS
<1>5. /\ IsCall(x) /\ x.op = h.op /\ x.tx = t /\ x.journal = j /\ x.at = h.at
      /\ x.blocked = h.blocked /\ x.hit = b /\ x.hit \in BOOLEAN
  <2>1. b \in BOOLEAN
    BY <1>1
  <2>2. x = [op |-> h.op, tx |-> h.tx, journal |-> h.journal, pc |-> h.pc, at |-> h.at,
             hit |-> b, blocked |-> h.blocked]
    BY <1>3, <1>4 DEF IsCall
  <2>3. QED
    BY <1>1, <2>1, <2>2 DEF IsCall
<1>6. PICK g : g = UndoNext(Settled(x, p, "ROLLED_BACK"))
  OBVIOUS
<1>7. held' = [held EXCEPT ![w] = g]
  BY <1>1, <1>4, <1>6 DEF UndoStage
<1>8. UNCHANGED <<target, maker, quarantine, adoption, detach, snapshot, touched, resumed>>
  BY DEF UndoStage, NoSave, disk, environment, history
<1>9. \/ /\ p \in j.staged /\ Stage(t, p) = "source"
         /\ SetsStage(t, p, "absent") /\ linked' = Put(linked, t, Links(t) \ {p})
      \/ ~(p \in j.staged /\ Stage(t, p) = "source") /\ stage' = stage /\ linked' = linked
  BY <1>1 DEF UndoStage, DropStage, SetsStage
<1>10. /\ \A u \in DOMAIN stage' : /\ u \in DOMAIN adoption
                                   /\ stage'[u] \in [Path -> {"absent", "source", "partial"}]
       /\ \A u, q : q \in Path /\ (u # t \/ q # p) =>
             Stage(u, q)' = Stage(u, q) /\ (Linked(u, q)' <=> Linked(u, q))
       /\ Stage(t, p)' = "absent" \/ /\ ~(p \in j.staged /\ Stage(t, p) = "source")
                                     /\ Stage(t, p)' = Stage(t, p)
                                     /\ (Linked(t, p)' <=> Linked(t, p))
  <2>1. CASE SetsStage(t, p, "absent") /\ linked' = Put(linked, t, Links(t) \ {p})
    <3>1. /\ \A u \in DOMAIN stage' : /\ u \in DOMAIN adoption
                                      /\ stage'[u] \in [Path -> {"absent", "source", "partial"}]
          /\ \A u, q : q \in Path =>
                Stage(u, q)' = IF u = t /\ q = p THEN "absent" ELSE Stage(u, q)
      <4>1. t \in DOMAIN adoption /\ p \in Path /\ "absent" \in {"absent", "source", "partial"}
        BY <1>3
      <4>2. QED
        BY <2>1, <4>1, StageFacts
    <3>2. \A u, q : u # t \/ q # p => (Linked(u, q)' <=> Linked(u, q))
      BY <2>1, LinkFacts
    <3>3. QED
      BY <1>3, <3>1, <3>2
  <2>2. CASE ~(p \in j.staged /\ Stage(t, p) = "source") /\ stage' = stage /\ linked' = linked
    BY <2>2 DEF Stage, Linked, StatusInv, FilesTyped
  <2>3. QED
    BY <1>9, <2>1, <2>2
<1>11. ASSUME NEW k, Tracks(k, t) PROVE Tracks(k, t)'
  <2>1. \A q \in Path : Stage(t, q)' # "absent" => Stage(t, q) # "absent"
    BY <1>10
  <2>2. \A q \in Path : Owns(k, t, q) => Owns(k, t, q)'
    BY <1>10 DEF Owns
  <2>3. QED
    BY <1>8, <1>11, <2>1, <2>2 DEF Tracks
<1>12. ~b /\ t \notin resumed => maker[p] # t
  BY <1>1, <1>3 DEF UndoKnows
<1>13. ~b => Stage(t, p)' = "absent"
  <2>1. ~b => p \notin j.staged \/ Stage(t, p) = "absent" \/ Stage(t, p) # "partial"
    BY <1>1 DEF StageGone
  <2>2. p \notin j.staged => Stage(t, p) = "absent"
    BY <1>3 DEF Tracks
  <2>3. Stage(t, p) \in {"absent", "source", "partial"}
    BY <1>3 DEF Stage, StatusInv, FilesTyped
  <2>4. QED
    BY <1>10, <2>1, <2>2, <2>3
<1>14. /\ g.op = held[w].op /\ g.tx = held[w].tx /\ g.journal \in AdoptionJournal
       /\ g.at \in DOMAIN Order /\ g.hit \in BOOLEAN /\ g.blocked \in BOOLEAN
       /\ g.pc \in UndoSteps /\ UndoKnows(g)
       /\ x.hit => g.journal = held[w].journal
       /\ ~x.hit => /\ g.journal.entry[p] = "ROLLED_BACK" /\ g.journal.staged = held[w].journal.staged \ {p}
                    /\ \A q \in Path : q # p => g.journal.entry[q] = held[w].journal.entry[q]
  <2>1. /\ x.op = held[w].op /\ x.tx = held[w].tx /\ x.journal = held[w].journal
        /\ x.at = held[w].at /\ x.blocked = held[w].blocked /\ p = Here(w)
        /\ "ROLLED_BACK" \in {"PRESERVED", "ROLLED_BACK"}
        /\ ~x.hit /\ held[w].tx \notin resumed => maker[p] # held[w].tx
    BY <1>1, <1>5, <1>12
  <2>2. QED
    BY <1>2, <1>5, <1>6, <2>1, Undone
<1>15. Tracks(g.journal, t)'
  <2>1. CASE x.hit
    BY <1>1, <1>3, <1>11, <1>14, <2>1
  <2>2. CASE ~x.hit
    <3>1. PICK k : k = g.journal
      OBVIOUS
    <3>2. Tracks(j, t)'
      BY <1>3, <1>11
    <3>3. /\ Stage(t, p)' = "absent" /\ (t \notin resumed => maker[p] # t)
          /\ k.staged = j.staged \ {p} /\ \A q \in Path : q # p => k.entry[q] = j.entry[q]
      BY <1>1, <1>5, <1>12, <1>13, <1>14, <2>2, <3>1
    <3>4. Tracks(k, t)'
      BY <1>3, <1>8, <3>2, <3>3 DEF Tracks, Owns
    <3>5. QED
      BY <3>1, <3>4
  <2>3. QED
    BY <2>1, <2>2
<1>16. UndoKnows(g)'
  BY <1>8, <1>14 DEF UndoKnows, Spent
<1>17. CallOK(g)'
  <2>1. /\ t = held[w].tx /\ g.op = held[w].op /\ g.tx = t /\ g.journal \in AdoptionJournal
        /\ g.at \in DOMAIN Order /\ g.hit \in BOOLEAN /\ g.blocked \in BOOLEAN /\ g.pc \in UndoSteps
    BY <1>1, <1>14
  <2>2. UNCHANGED <<adoption, detach>>
    BY <1>8
  <2>3. QED
    BY <1>2, <1>15, <1>16, <2>1, <2>2, UndoWriteOK
<1>18. /\ target' \in [Path -> Bytes] /\ maker' = [q \in Path |-> maker'[q]] /\ MakersOK'
       /\ target' = target
  BY <1>8, FilesKept
<1>19. \A u \in DOMAIN adoption, q \in Path : u # t =>
          /\ Stage(u, q)' = Stage(u, q) /\ (Linked(u, q)' <=> Linked(u, q))
          /\ maker'[q] = u => maker[q] = u
  BY <1>8, <1>10
<1>20. /\ \A q \in Path : Stage(t, q)' # "absent" => t[q] = "CREATE_PLANNED"
       /\ adoption[t].status = "ROLLED_BACK" /\ t \notin resumed => \A q \in Path : maker'[q] # t
  BY <1>3, <1>8, <1>10 DEF AdoptionOK
<1>21. adoption[t].status # "COMMITTED" => Tracks(adoption[t], t)'
  <2>1. Tracks(adoption[t], t)
    BY <1>3 DEF AdoptionOK
  <2>2. PICK k : k = adoption[t]
    OBVIOUS
  <2>3. Tracks(k, t)'
    BY <1>11, <2>1, <2>2
  <2>4. QED
    BY <1>8, <2>2, <2>3
<1>22. UNCHANGED <<quarantine, adoption, detach, touched, resumed>> /\ snapshot \subseteq snapshot'
  BY <1>8
<1>23. \A u \in DOMAIN stage' : /\ u \in DOMAIN adoption
                                /\ stage'[u] \in [Path -> {"absent", "source", "partial"}]
  BY <1>10
<1>24. t \in DOMAIN adoption
  BY <1>3
<1>25. QED
  BY <1>7, <1>17, <1>18, <1>19, <1>20, <1>21, <1>22, <1>23, <1>24, AdoptionWrites

LEMMA AdoptionStepStatus ==
    ASSUME Calm, StatusInv, OneOperator, NEW w \in Process, AdoptionStep(w) PROVE StatusInv'
  BY BeginStatus, PreserveStatus, PassVerifiedStatus, MakeDirectoryStatus, RecordDirectoryStatus,
     AnnounceStatus, PrepareStatus, LinkStageStatus, RecordCreatedStatus, UnstageStatus,
     VerifyStatus, CheckPostStatus, WriteSnapshotStatus, CommitStatus, ReadBackStatus,
     FailAdoptionStatus, UndoPreservedStatus, UndoTargetStatus, RemoveTargetStatus,
     UndoStageStatus, RemoveDirectoryStatus, CloseAdoptionStatus, UndoCallFailsStatus
     DEF AdoptionStep

-----------------------------------------------------------------------------
(* The death of a call, the consumer, and the start of a call.               *)

LEMMA CrashStatus ==
    ASSUME Calm, StatusInv, OneOperator, NEW w \in Process, Crash(w) PROVE StatusInv'
<1>1. /\ Busy(w) /\ held' = [held EXCEPT ![w] = Idle]
      /\ UNCHANGED <<target, maker, linked, quarantine, adoption, detach, snapshot, touched, resumed>>
  BY DEF Crash, disk, history
<1>2. CASE UNCHANGED stage
  BY <1>1, <1>2, TurnKeeps
<1>3. CASE /\ held[w].pc = "prepare" /\ Stage(held[w].tx, Here(w)) = "absent"
           /\ stage' = Put(stage, held[w].tx, [Stages(held[w].tx) EXCEPT ![Here(w)] = "partial"])
  <2>1. PICK h, t, j, p : h = held[w] /\ t = h.tx /\ j = h.journal /\ p = Here(w)
    OBVIOUS
  <2>2. h.op \in {"apply", "recover"}
    <3>1. CallOK(h)
      BY <1>1, <2>1 DEF StatusInv, KnowsOK
    <3>2. h.op \in DetachOps => DetachKnows(h)
      BY <3>1 DEF CallOK
    <3>3. h.op \notin DetachOps
      BY <1>3, <2>1, <3>2 DEF DetachKnows, MoveSteps, Restoring, Restoral
    <3>4. QED
      BY <3>1, <3>3 DEF CallOK, CallTypes
  <2>3. At(w, {"apply"}, "prepare") /\ "prepare" \in ApplySteps
    <3>1. AdoptionKnows(h)
      BY <1>1, <2>1, <2>2, AdoptionFacts
    <3>2. QED
      BY <1>1, <1>3, <2>1, <3>1 DEF AdoptionKnows, ApplySteps, At
  <2>4. /\ ApplyKnows(h) /\ p \in Path /\ t \in DOMAIN adoption /\ Tracks(j, t) /\ p = Order[h.at]
        /\ AdoptionOK(t)
    BY <2>1, <2>3, ApplyFacts
  <2>5. /\ adoption[t] = j /\ t[p] = "CREATE_PLANNED" /\ p \in j.staged /\ j.status # "ROLLED_BACK"
        /\ t \notin resumed => \A q \in Path : maker[q] = t => j.entry[q] = "VERIFIED"
    BY <1>3, <2>1, <2>4 DEF ApplyKnows, InEntry
  <2>6. /\ \A u \in DOMAIN stage' : /\ u \in DOMAIN adoption
                                    /\ stage'[u] \in [Path -> {"absent", "source", "partial"}]
        /\ \A u, q : q \in Path => Stage(u, q)' = IF u = t /\ q = p THEN "partial" ELSE Stage(u, q)
    <3>1. SetsStage(t, p, "partial") /\ "partial" \in {"absent", "source", "partial"}
      BY <1>3, <2>1 DEF SetsStage
    <3>2. QED
      BY <2>4, <3>1, StageFacts
  <2>7. Tracks(j, t)'
    BY <1>1, <2>4, <2>5, <2>6 DEF Tracks, Owns
  <2>8. /\ target' \in [Path -> Bytes] /\ maker' = [q \in Path |-> maker'[q]] /\ MakersOK'
        /\ target' = target
    BY <1>1, FilesKept
  <2>9. \A u \in DOMAIN adoption, q \in Path : u # t =>
            /\ Stage(u, q)' = Stage(u, q) /\ (Linked(u, q)' <=> Linked(u, q))
            /\ maker'[q] = u => maker[q] = u
    BY <1>1, <2>6 DEF Linked
  <2>10. \A q \in Path : Stage(t, q)' # "absent" => t[q] = "CREATE_PLANNED"
    BY <2>4, <2>5, <2>6 DEF AdoptionOK
  <2>11. (adoption[t].status # "COMMITTED" => Tracks(adoption[t], t)')
         /\ adoption[t].status # "ROLLED_BACK"
    BY <1>1, <2>5, <2>7
  <2>12. UNCHANGED <<quarantine, adoption, detach, touched, resumed>> /\ snapshot \subseteq snapshot'
    BY <1>1
  <2>13. \A u \in DOMAIN stage' : /\ u \in DOMAIN adoption
                                  /\ stage'[u] \in [Path -> {"absent", "source", "partial"}]
    BY <2>6
  <2>14. PICK g : g = Idle
    OBVIOUS
  <2>15. held' = [held EXCEPT ![w] = g] /\ t \in DOMAIN adoption
    BY <1>1, <2>4, <2>14
  <2>16. QED
    BY <2>8, <2>9, <2>10, <2>11, <2>12, <2>13, <2>14, <2>15, AdoptionWrites
<1>4. QED
  BY <1>2, <1>3 DEF Crash

LEMMA RecoverAdoptionStatus ==
    ASSUME Calm, StatusInv, OneOperator, NEW w \in Process, NEW t, RecoverAdoption(w, t)
    PROVE  StatusInv'
<1>1. /\ t \in DOMAIN adoption /\ adoption[t].status # "COMMITTED"
      /\ UNCHANGED <<target, maker, stage, linked, quarantine, adoption, detach, snapshot,
                     touched, resumed>>
  BY DEF RecoverAdoption, files, NoSave, disk, environment, history
<1>2. PICK g, n : g = Undoing(AdoptionCall("recover", t, adoption[t], "undo", 1)) /\ n = Len(Order)
  OBVIOUS
<1>3. g = [op |-> "recover", tx |-> t, journal |-> adoption[t], pc |-> "undo", at |-> n,
           hit |-> FALSE, blocked |-> FALSE]
  BY <1>2 DEF Undoing, AdoptionCall
<1>4. /\ g.op = "recover" /\ g.tx = t /\ g.journal = adoption[t] /\ g.pc = "undo" /\ g.at = n
      /\ g.hit \in BOOLEAN /\ g.blocked \in BOOLEAN
  BY <1>3
<1>5. n \in DOMAIN Order /\ \A i \in DOMAIN Order : ~(i > n)
  BY <1>2, SurfaceAssumption
<1>6. AdoptionOK(t) /\ adoption[t] \in AdoptionJournal
  BY <1>1 DEF StatusInv, FilesTyped
<1>7. \A d \in DOMAIN detach : d.adoption # t
  BY <1>1 DEF StatusInv, DetachOK
<1>8. CallTypes(g)
  BY <1>1, <1>4, <1>5, <1>6 DEF CallTypes
<1>9. UndoKnows(g)
  BY <1>4, <1>5 DEF UndoKnows
<1>10. AdoptionKnows(g)
  BY <1>1, <1>4, <1>6, <1>7, <1>9 DEF AdoptionKnows, AdoptionOK, UndoSteps, ApplySteps
<1>11. CallOK(g) /\ held' = [held EXCEPT ![w] = g]
  BY <1>2, <1>4, <1>8, <1>10 DEF CallOK, DetachOps, RecoverAdoption
<1>12. QED
  BY <1>1, <1>11, TurnKeeps

\* An adoption is opened where every other one has been rolled back.
LEMMA AdoptionOpens ==
    ASSUME Calm, StatusInv, OneOperator, NEW w \in Process, NEW t \in Adoption,
           NEW k \in AdoptionJournal, adoption' = Put(adoption, t, k),
           UNCHANGED <<target, maker, stage, linked, quarantine, detach, snapshot, touched>>,
           resumed \subseteq resumed',
           \A u \in DOMAIN adoption \ {t} : adoption[u].status = "ROLLED_BACK",
           t \in DOMAIN adoption => adoption[t].status # "COMMITTED",
           k.status \notin {"COMMITTED", "ROLLED_BACK"},
           \A p \in Path : Stage(t, p) # "absent" => p \in k.staged,
           t \notin resumed' => \A p \in Path : maker[p] # t,
           held' = [held EXCEPT ![w] = AdoptionCall("apply", t, k, "begin", 1)]
    PROVE  StatusInv'
<1>1. PICK g : g = AdoptionCall("apply", t, k, "begin", 1)
  OBVIOUS
<1>2. /\ g.op = "apply" /\ g.tx = t /\ g.journal = k /\ g.pc = "begin" /\ g.at = 1
      /\ g.hit \in BOOLEAN /\ g.blocked \in BOOLEAN
  BY <1>1 DEF AdoptionCall
<1>3. /\ DOMAIN adoption' = DOMAIN adoption \cup {t} /\ adoption'[t] = k
      /\ \A u \in DOMAIN adoption : u # t => adoption'[u] = adoption[u]
      /\ adoption' = [u \in DOMAIN adoption' |-> adoption'[u]]
  BY DEF Put
<1>4. \A u \in DOMAIN adoption : adoption[u].status # "COMMITTED"
  OBVIOUS
<1>5. DOMAIN detach = {}
  <2>1. \A d \in DOMAIN detach : FALSE
    BY <1>4 DEF StatusInv, DetachOK
  <2>2. QED
    BY <2>1
<1>6. \A u \in DOMAIN adoption' : adoption'[u].status # "COMMITTED"
  BY <1>3, <1>4
<1>7. \A u, p : Stage(u, p)' = Stage(u, p) /\ (Linked(u, p)' <=> Linked(u, p))
  BY DEF Stage, Linked
<1>8. Tracks(k, t)'
  BY <1>7 DEF Tracks
<1>9. \A u \in DOMAIN adoption \ {t} : Over(u)'
  <2>1. SUFFICES ASSUME NEW u \in DOMAIN adoption \ {t} PROVE Over(u)'
    OBVIOUS
  <2>2. AdoptionOK(u) /\ adoption'[u] = adoption[u] /\ adoption[u].status = "ROLLED_BACK"
    BY <1>3 DEF StatusInv
  <2>3. QED
    BY <2>2 DEF AdoptionOK, Over, Spent
<1>10. CallTypes(g)'
  BY <1>2, <1>3, SurfaceAssumption DEF CallTypes
<1>11. ApplyKnows(g)'
  BY <1>2, <1>3 DEF ApplyKnows, InEntry
<1>12. AdoptionKnows(g)'
  BY <1>2, <1>3, <1>5, <1>8, <1>9, <1>11 DEF AdoptionKnows, ApplySteps, UndoSteps
<1>13. KnowsOK'
  <2>1. CallOK(g)'
    BY <1>2, <1>10, <1>12 DEF CallOK, DetachOps
  <2>2. held' = [held EXCEPT ![w] = g]
    BY <1>1
  <2>3. QED
    BY <2>1, <2>2, OnlyCall
<1>14. FilesTyped'
  BY <1>3 DEF StatusInv, FilesTyped
<1>15. MakersOK'
  BY <1>3, ConsumerAssumption DEF StatusInv, MakersOK
<1>16. OneCommitted' /\ AllInPlace'
  BY <1>6 DEF OneCommitted, AllInPlace
<1>17. ASSUME NEW u \in DOMAIN adoption' PROVE AdoptionOK(u)'
  <2>1. CASE u # t
    <3>1. AdoptionOK(u) /\ adoption'[u] = adoption[u] /\ u \in DOMAIN adoption
      BY <1>3, <1>17, <2>1 DEF StatusInv
    <3>2. Tracks(adoption[u], u) => Tracks(adoption[u], u)'
      BY <1>3, <1>7, <1>17, <2>1, <3>1 DEF Tracks, Owns
    <3>3. QED
      BY <1>7, <3>1, <3>2 DEF AdoptionOK, Spent
  <2>2. CASE u = t
    <3>1. Tracks(adoption[t], t)'
      BY <1>3, <1>8
    <3>2. \A p \in Path : Stage(t, p)' # "absent" => t[p] = "CREATE_PLANNED"
      <4>1. t \notin DOMAIN stage => \A p \in Path : Stage(t, p) = "absent"
        BY DEF Stage
      <4>2. t \in DOMAIN stage => AdoptionOK(t)
        BY DEF StatusInv, FilesTyped
      <4>3. QED
        BY <1>7, <4>1, <4>2 DEF AdoptionOK
    <3>3. QED
      BY <1>3, <2>2, <3>1, <3>2 DEF AdoptionOK
  <2>3. QED
    BY <2>1, <2>2
<1>18. \A d \in DOMAIN detach' : DetachOK(d)'
  BY <1>5
<1>19. QED
  BY <1>13, <1>14, <1>15, <1>16, <1>17, <1>18 DEF StatusInv

LEMMA PlanIsAdoption == ASSUME target \in [Path -> Bytes] PROVE AdoptionPlan(target) \in Adoption
<1>1. \A p \in Path : PlannedAction(target[p]) \in AdoptionAction
  BY DEF PlannedAction, AdoptionAction, Bytes
<1>2. QED
  BY <1>1 DEF AdoptionPlan, Adoption

LEMMA NewAdoptionFacts ==
    NewAdoption \in AdoptionJournal /\ NewAdoption.status = "PLANNED" /\ NewAdoption.staged = {}
  BY DEF NewAdoption, AdoptionJournal, AdoptionStatus, AdoptionEntry

LEMMA ApplyAdoptionStatus ==
    ASSUME Calm, StatusInv, OneOperator, NEW w \in Process, NEW t, ApplyAdoption(w, t),
           overlaps = 0, overlaps' = 0
    PROVE  StatusInv'
<1>1. /\ \A u \in DOMAIN adoption \ {t} : adoption[u].status = "ROLLED_BACK"
      /\ UNCHANGED <<target, maker, stage, linked, quarantine, detach, snapshot, touched>>
  BY DEF ApplyAdoption, files
<1>2. target \in [Path -> Bytes] /\ adoption = [u \in DOMAIN adoption |-> adoption[u]]
  BY DEF StatusInv, FilesTyped
<1>3. CASE t \in DOMAIN adoption
  <2>1. PICK k : k = IF adoption[t].status = "ROLLED_BACK" THEN NewAdoption ELSE adoption[t]
    OBVIOUS
  <2>2. /\ adoption' = [adoption EXCEPT ![t] = k]
        /\ held' = [held EXCEPT ![w] = AdoptionCall("apply", t, k, "begin", 1)]
        /\ adoption[t].status \notin {"COMMITTED", "RECOVERY_BLOCKED"}
        /\ resumed' = resumed \cup {u \in {t} : Open(u)}
    BY <1>3, <2>1 DEF ApplyAdoption
  <2>3. adoption' = Put(adoption, t, k)
    BY <1>2, <1>3, <2>2 DEF Put
  <2>4. t \in Adoption /\ adoption[t] \in AdoptionJournal /\ AdoptionOK(t)
    BY <1>3 DEF StatusInv, FilesTyped
  <2>5. Tracks(adoption[t], t)
    BY <2>2, <2>4 DEF AdoptionOK
  <2>6. CASE adoption[t].status = "ROLLED_BACK"
    <3>1. k \in AdoptionJournal /\ k.status = "PLANNED"
      BY <2>1, <2>6, NewAdoptionFacts
    <3>2. \A p \in Path : Stage(t, p) = "absent"
      BY <2>4, <2>5, <2>6 DEF AdoptionOK, Spent, Tracks
    <3>3. t \notin resumed => \A p \in Path : maker[p] # t
      BY <2>4, <2>6 DEF AdoptionOK
    <3>4. QED
      BY <1>1, <2>2, <2>3, <2>4, <2>6, <3>1, <3>2, <3>3, AdoptionOpens
  <2>7. CASE adoption[t].status # "ROLLED_BACK"
    <3>1. k \in AdoptionJournal /\ k = adoption[t]
      BY <2>1, <2>4, <2>7
    <3>2. t \in resumed'
      BY <1>3, <2>2, <2>4, <2>7 DEF Open, AdoptionJournal, AdoptionStatus
    <3>3. \A p \in Path : Stage(t, p) # "absent" => p \in k.staged
      BY <2>5, <3>1 DEF Tracks
    <3>4. k.status \notin {"COMMITTED", "ROLLED_BACK"} /\ resumed \subseteq resumed'
      BY <2>2, <2>7, <3>1
    <3>5. QED
      BY <1>1, <2>2, <2>3, <2>4, <3>1, <3>2, <3>3, <3>4, AdoptionOpens
  <2>8. QED
    BY <2>6, <2>7
<1>4. CASE t \notin DOMAIN adoption
  <2>1. PICK k : k = NewAdoption
    OBVIOUS
  <2>2. /\ t = AdoptionPlan(target) /\ adoption' = Put(adoption, t, k) /\ resumed' = resumed
        /\ held' = [held EXCEPT ![w] = AdoptionCall("apply", t, k, "begin", 1)]
    BY <1>4, <2>1 DEF ApplyAdoption
  <2>3. t \in Adoption
    BY <1>2, <2>2, PlanIsAdoption
  <2>4. k \in AdoptionJournal /\ k.status = "PLANNED"
    BY <2>1, NewAdoptionFacts
  <2>5. \A p \in Path : Stage(t, p) = "absent"
    BY <1>4 DEF Stage, StatusInv, FilesTyped
  <2>6. \A p \in Path : maker[p] # t
    BY <1>4, <2>3, ConsumerAssumption DEF StatusInv, MakersOK
  <2>7. QED
    BY <1>1, <1>4, <2>2, <2>3, <2>4, <2>5, <2>6, AdoptionOpens
<1>5. QED
  BY <1>3, <1>4

LEMMA EditStatus ==
    ASSUME Calm, StatusInv, NEW p \in Path, NEW bytes \in Bytes, Edit(p, bytes)
    PROVE  StatusInv'
<1>1. /\ target' = [target EXCEPT ![p] = bytes] /\ maker' = [maker EXCEPT ![p] = Consumer]
      /\ touched' = touched \cup {p} /\ linked' = [t \in DOMAIN linked |-> linked[t] \ {p}]
      /\ UNCHANGED <<stage, quarantine, adoption, detach, snapshot, held, resumed>>
  BY DEF Edit, disk
<1>2. /\ target \in [Path -> Bytes] /\ maker = [q \in Path |-> maker[q]] /\ MakersOK
      /\ \A u \in DOMAIN adoption : u \in Adoption /\ u # Consumer
  BY ConsumerAssumption DEF StatusInv, FilesTyped
<1>3. /\ \A q \in Path : q # p => target'[q] = target[q] /\ maker'[q] = maker[q]
      /\ maker'[p] = Consumer
      /\ \A q \in Path, u \in DOMAIN adoption : maker'[q] = u => maker[q] = u /\ q # p
      /\ \A q \in Path \ touched' : q # p /\ q \in Path \ touched /\ target'[q] = target[q]
  BY <1>1, <1>2
<1>4. \A u, q : /\ Stage(u, q)' = Stage(u, q) /\ Quarantine(u, q)' = Quarantine(u, q)
                /\ q # p => (Linked(u, q)' <=> Linked(u, q))
  BY <1>1 DEF Stage, Quarantine, Linked
<1>5. FilesTyped'
  BY <1>1, <1>2 DEF StatusInv, FilesTyped
<1>6. MakersOK'
  BY <1>1, <1>2, <1>3 DEF MakersOK
<1>7. OneCommitted'
  BY <1>1 DEF StatusInv, OneCommitted, Over, Spent
<1>8. \A e, q : MovedBy(e, q)' <=> MovedBy(e, q)
  BY <1>1, <1>4 DEF MovedBy
<1>9. AllInPlace'
  BY <1>1, <1>3, <1>8 DEF StatusInv, AllInPlace, InPlace
<1>10. ASSUME NEW u \in DOMAIN adoption, NEW k, Tracks(k, u) PROVE Tracks(k, u)'
  BY <1>1, <1>3, <1>4, <1>10 DEF Tracks, Owns
<1>11. ASSUME NEW u \in DOMAIN adoption PROVE AdoptionOK(u)'
  <2>1. PICK k : k = adoption[u]
    OBVIOUS
  <2>2. AdoptionOK(u)
    BY DEF StatusInv
  <2>3. k.status # "COMMITTED" => Tracks(k, u)'
    BY <1>10, <2>1, <2>2 DEF AdoptionOK
  <2>4. adoption'[u] = k /\ adoption[u] = k
    BY <1>1, <2>1
  <2>5. adoption'[u].status # "COMMITTED" => Tracks(adoption[u], u)'
    BY <2>3, <2>4
  <2>6. QED
    BY <1>1, <1>3, <1>4, <2>2, <2>4, <2>5 DEF AdoptionOK, Spent
<1>12. ASSUME NEW d \in DOMAIN detach PROVE DetachOK(d)'
  <2>1. DetachOK(d)
    BY DEF StatusInv
  <2>2. QED
    BY <1>1, <1>4, <2>1 DEF DetachOK, DetachShape, MovesPlanned
<1>13. ASSUME NEW w \in Process, Busy(w)' PROVE CallOK(held[w])'
  <2>1. PICK h : h = held[w]
    OBVIOUS
  <2>2. CallOK(h) /\ held'[w] = h
    BY <1>1, <1>13, <2>1 DEF StatusInv, KnowsOK, Busy
  <2>3. CASE h.op \in {"apply", "recover"}
    <3>1. AdoptionKnows(h) /\ h.tx \in DOMAIN adoption /\ h.at \in DOMAIN Order
      BY <2>2, <2>3 DEF CallOK, CallTypes, DetachOps
    <3>2. ApplyKnows(h) => ApplyKnows(h)'
      BY <1>1, <1>3, <3>1 DEF ApplyKnows
    <3>3. UndoKnows(h) => UndoKnows(h)'
      BY <1>1, <1>3, <3>1 DEF UndoKnows, Spent, Path
    <3>4. PICK k, t : k = h.journal /\ t = h.tx
      OBVIOUS
    <3>5. Tracks(k, t)'
      BY <1>10, <3>1, <3>4 DEF AdoptionKnows
    <3>6. Tracks(h.journal, h.tx)'
      BY <3>4, <3>5
    <3>7. AdoptionKnows(h)'
      BY <1>1, <3>1, <3>2, <3>3, <3>6 DEF AdoptionKnows, Over, Spent
    <3>8. CallOK(h)'
      BY <1>1, <2>2, <2>3, <3>7 DEF CallOK, CallTypes, DetachOps
    <3>9. QED
      BY <2>2, <3>8
  <2>4. CASE h.op \in DetachOps
    <3>1. DetachKnows(h)
      BY <2>2, <2>4 DEF CallOK
    <3>2. MoveKnows(h) => MoveKnows(h)'
      <4>1. \A q \in Path : q \in touched \/ target[q] = "source" =>
               q \in touched' \/ target'[q] = "source"
        BY <1>1, <1>3
      <4>2. Order[h.at] \in Path
        BY <2>2 DEF CallOK, CallTypes, Path
      <4>3. QED
        BY <1>1, <1>4, <4>1, <4>2 DEF MoveKnows
    <3>3. RestoreKnows(h) => RestoreKnows(h)'
      <4>1. ASSUME RestoreKnows(h) PROVE RestoreKnows(h)'
        <5>1. \A q \in Leaves(h.tx) : q \in Path
          BY DEF Leaves, Removable
        <5>2. \A q \in Leaves(h.tx) \ touched' : h.journal.entry[q] = "RESTORED" =>
                 target'[q] = "source" \/ \E e \in DOMAIN detach' \ {h.tx} : MovedBy(e, q)'
          BY <1>1, <1>3, <1>8, <4>1, <5>1 DEF RestoreKnows, Restoral
        <5>3. h.pc = "drop" => Order[h.at] \in touched' \/ target'[Order[h.at]] = "source"
          <6>1. CASE Order[h.at] = p
            BY <1>1, <6>1
          <6>2. CASE Order[h.at] # p
            <7>1. h.pc = "drop" => Order[h.at] \in Path
              BY <4>1, <5>1 DEF RestoreKnows, Restoral
            <7>2. QED
              BY <1>1, <1>3, <4>1, <6>2, <7>1 DEF RestoreKnows, Restoral
          <6>3. QED
            BY <6>1, <6>2
        <5>4. QED
          BY <1>1, <1>4, <4>1, <5>2, <5>3 DEF RestoreKnows, Restoral
      <4>2. QED
        BY <4>1
    <3>4. DetachKnows(h)'
      BY <1>1, <1>4, <3>1, <3>2, <3>3 DEF DetachKnows, DetachShape
    <3>5. CallOK(h)'
      BY <1>1, <2>2, <2>4, <3>4 DEF CallOK, CallTypes, DetachOps
    <3>6. QED
      BY <2>2, <3>5
  <2>5. QED
    BY <2>2, <2>3, <2>4 DEF CallOK, CallTypes
<1>14. KnowsOK'
  BY <1>13 DEF KnowsOK
<1>15. QED
  BY <1>1, <1>5, <1>6, <1>7, <1>9, <1>11, <1>12, <1>14 DEF StatusInv

-----------------------------------------------------------------------------
(* The steps of a detach.                                                    *)

\* Where a file that a detach takes may be.
LEMMA LeavesAccounted ==
    ASSUME StatusInv, NEW d \in DOMAIN detach, NEW p \in Leaves(d) \ touched
    PROVE  \/ target[p] = "source"
           \/ Quarantine(d, p) = "source" \/ detach[d].entry[p] \in TakenEntry
           \/ \E e \in DOMAIN detach \ {d} : MovedBy(e, p)
<1>1. /\ d.adoption \in DOMAIN adoption /\ adoption[d.adoption].status = "COMMITTED"
      /\ p \in Path /\ d.adoption[p] = "CREATE_PLANNED"
  BY DEF StatusInv, DetachOK, Leaves, Removable
<1>2. InPlace(d.adoption, p)
  BY <1>1 DEF StatusInv, AllInPlace
<1>3. Expected(d.adoption, p) = "source"
  BY <1>1, SurfaceAssumption DEF Expected
<1>4. QED
  BY <1>2, <1>3 DEF InPlace, MovedBy

LEMMA PutSame ==
    ASSUME NEW d \in DOMAIN detach, StatusInv
    PROVE  \A k : [detach EXCEPT ![d] = k] = Put(detach, d, k)
<1>1. detach = [e \in DOMAIN detach |-> detach[e]]
  BY DEF StatusInv, FilesTyped
<1>2. QED
  BY <1>1 DEF Put

\* A detach saves its journal.
LEMMA DetachSaves ==
    ASSUME Calm, StatusInv, OneOperator, NEW w \in Process, NEW d \in DOMAIN detach,
           NEW k \in DetachJournal, detach' = [detach EXCEPT ![d] = k],
           UNCHANGED <<target, maker, stage, linked, quarantine, adoption, snapshot, touched, resumed>>,
           DetachShape(k, d), MovesPlanned(k),
           \A p \in Leaves(d) \ touched : detach[d].entry[p] \in TakenEntry =>
              \/ target[p] = "source" \/ k.entry[p] \in TakenEntry
              \/ \E e \in DOMAIN detach \ {d} : MovedBy(e, p),
           NEW g, held' = [held EXCEPT ![w] = g], g = Idle \/ CallOK(g)'
    PROVE  StatusInv'
<1>1. UNCHANGED <<target, maker, stage, linked, quarantine, adoption, snapshot, touched, resumed>>
  OBVIOUS
<1>2. DetachOK(d) /\ MakersOK /\ target \in [Path -> Bytes] /\ maker = [p \in Path |-> maker[p]]
  BY DEF StatusInv, FilesTyped
<1>3. d.adoption \in DOMAIN adoption /\ adoption[d.adoption].status = "COMMITTED"
  BY <1>2 DEF DetachOK
<1>4. detach' = Put(detach, d, k)
  BY PutSame
<1>5. target' \in [Path -> Bytes] /\ maker' = [p \in Path |-> maker'[p]] /\ MakersOK'
  BY <1>1, FilesKept
<1>6. \A e, p : Quarantine(e, p)' = Quarantine(e, p) /\ (Linked(e, p)' <=> Linked(e, p))
  BY <1>1 DEF Quarantine, Linked
<1>7. DetachShape(k, d)'
  BY <1>6 DEF DetachShape
<1>8. \A p \in Path : Quarantine(d, p)' # "absent" =>
         /\ p \in Leaves(d) /\ Quarantine(d, p)' \in Bytes
         /\ (p \in touched \/ Quarantine(d, p)' = "source")
  BY <1>2, <1>6 DEF DetachOK
<1>9. ASSUME NEW p \in Leaves(d) \ touched
      PROVE  \/ target'[p] = "source"
             \/ Quarantine(d, p)' = "source" \/ k.entry[p] \in TakenEntry
             \/ \E e \in DOMAIN detach \ {d} : MovedBy(e, p)
  BY <1>1, <1>6, LeavesAccounted
<1>10. /\ UNCHANGED <<stage, adoption, snapshot, touched, resumed>>
       /\ \A p \in Path : maker'[p] \in {maker[p], Consumer, d.adoption}
       /\ \A u \in DOMAIN adoption, p \in Path :
              (Linked(u, p)' <=> Linked(u, p)) \/ maker'[p] = Consumer
       /\ DOMAIN quarantine' \subseteq DOMAIN quarantine \cup {d}
       /\ \A e, p : e # d /\ p \in Path => Quarantine(e, p)' = Quarantine(e, p)
       /\ \A p \in Path \ touched : target'[p] # target[p] => p \in Leaves(d)
  BY <1>1, <1>6
<1>11. QED
  BY <1>3, <1>4, <1>5, <1>7, <1>8, <1>9, <1>10, DetachWrites

\* What an apply_detach knows of its call.
LEMMA MoveFacts ==
    ASSUME Calm, StatusInv, NEW w \in Process, NEW pc \in MoveSteps \cup {"begin"},
           At(w, DetachOps, pc)
    PROVE  /\ Busy(w) /\ held[w].op \in DetachOps /\ held[w].pc = pc
           /\ IsCall(held[w]) /\ CallTypes(held[w]) /\ MoveKnows(held[w])
           /\ held[w].tx \in DOMAIN detach /\ held[w].journal \in DetachJournal
           /\ detach[held[w].tx] \in DetachJournal
           /\ DetachShape(held[w].journal, held[w].tx)
           /\ DetachOK(held[w].tx) /\ Here(w) \in Path /\ Here(w) = Order[held[w].at]
<1>1. Busy(w) /\ held[w].op \in DetachOps /\ held[w].pc = pc
  BY DEF At
<1>2. DetachKnows(held[w])
  BY <1>1, DetachFacts
<1>3. QED
  BY <1>1, <1>2, DetachFacts DEF DetachKnows

LEMMA AtDetach ==
    ASSUME NEW w, NEW pc, At(w, {"detach"}, pc) \/ At(w, {"detach", "again"}, pc)
    PROVE  At(w, DetachOps, pc)
  BY DEF At, DetachOps

\* The call that a detach goes on with.
LEMMA MoveCallOK ==
    ASSUME Calm, StatusInv, NEW w \in Process, NEW pc \in MoveSteps \cup {"begin"},
           At(w, DetachOps, pc), NEW d, d = held[w].tx, DOMAIN detach' = DOMAIN detach,
           NEW g, g.op = held[w].op, g.tx = d, g.journal \in DetachJournal,
           g.at \in DOMAIN Order, g.hit \in BOOLEAN, g.blocked \in BOOLEAN, g.pc \in MoveSteps,
           DetachShape(g.journal, d)', MoveKnows(g)'
    PROVE  CallOK(g)'
<1>1. g.op \in DetachOps /\ d \in DOMAIN detach
  BY MoveFacts
<1>2. CallTypes(g)'
  BY <1>1 DEF CallTypes
<1>3. g.pc \notin Restoring /\ g.pc # "plan"
  BY DEF MoveSteps, Restoring, Restoral
<1>4. DetachKnows(g)'
  BY <1>3 DEF DetachKnows
<1>5. QED
  BY <1>1, <1>2, <1>4 DEF CallOK, DetachOps

LEMMA MoveSaves ==
    ASSUME Calm, StatusInv, OneOperator, NEW w \in Process, NEW pc \in MoveSteps \cup {"begin"},
           At(w, DetachOps, pc), NEW d, d = held[w].tx, NEW k \in DetachJournal,
           detach' = [detach EXCEPT ![d] = k], OnlyDetach,
           DetachShape(k, d), MovesPlanned(k),
           \A p \in Path : detach[d].entry[p] \in TakenEntry => k.entry[p] \in TakenEntry,
           NEW g, held' = [held EXCEPT ![w] = g], g.op = held[w].op, g.tx = d, g.journal = k,
           g.at \in DOMAIN Order, g.hit \in BOOLEAN, g.blocked \in BOOLEAN, g.pc \in MoveSteps,
           MoveKnows(g)'
    PROVE  StatusInv'
<1>1. d \in DOMAIN detach
  BY MoveFacts
<1>2. DOMAIN detach' = DOMAIN detach
  OBVIOUS
<1>3. UNCHANGED <<target, maker, stage, linked, quarantine, adoption, snapshot, touched, resumed>>
  BY DEF OnlyDetach, files, environment, history
<1>4. DetachShape(g.journal, d)'
  BY <1>3 DEF DetachShape, Quarantine
<1>5. CallOK(g)'
  BY <1>2, <1>4, MoveCallOK
<1>6. \A p \in Leaves(d) \ touched : detach[d].entry[p] \in TakenEntry =>
              \/ target[p] = "source" \/ k.entry[p] \in TakenEntry
              \/ \E e \in DOMAIN detach \ {d} : MovedBy(e, p)
  BY DEF Leaves, Removable
<1>7. QED
  BY <1>1, <1>3, <1>5, <1>6, DetachSaves

LEMMA MoveSavesAt ==
    ASSUME Calm, StatusInv, OneOperator, NEW w \in Process, NEW pc \in MoveSteps \cup {"begin"},
           At(w, DetachOps, pc), NEW d, d = held[w].tx, NEW k \in DetachJournal, NEW c \in MoveSteps,
           SaveDetach(w, k, c), OnlyDetach, DetachShape(k, d), MovesPlanned(k),
           \A p \in Path : detach[d].entry[p] \in TakenEntry => k.entry[p] \in TakenEntry,
           NEW g, g = Saved(held[w], k, c), MoveKnows(g)'
    PROVE  StatusInv'
<1>1. PICK h, f : h = held[w] /\ f = [h EXCEPT !.journal = k, !.pc = c]
  OBVIOUS
<1>2. IsCall(h) /\ CallTypes(h)
  BY <1>1, MoveFacts
<1>3. f = Saved(h, k, c)
  BY <1>1, <1>2 DEF IsCall, Saved
<1>4. held' = [held EXCEPT ![w] = f] /\ detach' = [detach EXCEPT ![d] = k]
  BY <1>1 DEF SaveDetach
<1>5. f = g
  BY <1>1, <1>3
<1>6. held' = [held EXCEPT ![w] = g] /\ detach' = [detach EXCEPT ![d] = k]
  BY <1>4, <1>5
<1>7. /\ g.op = held[w].op /\ g.tx = d /\ g.journal = k /\ g.at \in DOMAIN Order
      /\ g.hit \in BOOLEAN /\ g.blocked \in BOOLEAN /\ g.pc \in MoveSteps
  BY <1>1, <1>2 DEF Saved, CallTypes
<1>8. QED
  BY <1>6, <1>7, MoveSaves

LEMMA MoveSavesEntry ==
    ASSUME Calm, StatusInv, OneOperator, NEW w \in Process, NEW pc \in {"entry", "purged"},
           At(w, {"detach"}, pc), NEW d, d = held[w].tx, NEW k \in DetachJournal,
           SaveRemoved(w, k), OnlyDetach, DetachShape(k, d), MovesPlanned(k),
           \A p \in Path : detach[d].entry[p] \in TakenEntry => k.entry[p] \in TakenEntry,
           k.status = held[w].journal.status
    PROVE  StatusInv'
<1>1. PICK h : h = held[w]
  OBVIOUS
<1>2. /\ At(w, DetachOps, pc) /\ pc \in MoveSteps \cup {"begin"}
      /\ IsCall(h) /\ CallTypes(h) /\ k.status = "DETACHING" /\ d \in DOMAIN detach
  <2>1. pc \in MoveSteps \cup {"begin"}
    BY DEF MoveSteps
  <2>2. At(w, DetachOps, pc)
    BY AtDetach
  <2>3. IsCall(h) /\ CallTypes(h) /\ MoveKnows(h) /\ h.pc = pc /\ d \in DOMAIN detach
    BY <1>1, <2>1, <2>2, MoveFacts
  <2>4. QED
    BY <1>1, <2>1, <2>2, <2>3 DEF MoveKnows
<1>3. PICK c, at : /\ c = IF h.at = Len(Order) THEN "post" ELSE "entry"
                   /\ at = IF h.at = Len(Order) THEN h.at ELSE h.at + 1
  OBVIOUS
<1>4. PICK g : g = [h EXCEPT !.journal = k, !.pc = c, !.at = at]
  OBVIOUS
<1>5. g = [op |-> h.op, tx |-> h.tx, journal |-> k, pc |-> c, at |-> at, hit |-> h.hit,
           blocked |-> h.blocked]
  BY <1>2, <1>4 DEF IsCall
<1>6. at \in DOMAIN Order /\ c \in {"post", "entry"}
  BY <1>2, <1>3, SurfaceAssumption DEF CallTypes
<1>7. held' = [held EXCEPT ![w] = g] /\ detach' = [detach EXCEPT ![d] = k]
  BY <1>1, <1>3, <1>4 DEF SaveRemoved
<1>8. detach'[d] = k
  BY <1>2, <1>7 DEF StatusInv, FilesTyped
<1>9. MoveKnows(g)'
  BY <1>1, <1>2, <1>5, <1>6, <1>8 DEF MoveKnows
<1>10. /\ g.op = held[w].op /\ g.tx = d /\ g.journal = k /\ g.at \in DOMAIN Order
       /\ g.hit \in BOOLEAN /\ g.blocked \in BOOLEAN /\ g.pc \in MoveSteps
  BY <1>1, <1>2, <1>5, <1>6 DEF MoveSteps, CallTypes
<1>11. QED
  BY <1>2, <1>7, <1>9, <1>10, MoveSaves

\* What the saves of a detach make of its journal.
WithMoved(j, p, e, S) == [j EXCEPT !.entry[p] = e, !.moved = S]

LEMMA MovedStatus ==
    ASSUME NEW j \in DetachJournal, NEW s \in DetachStatus, NEW k, k = WithStatus(j, s)
    PROVE  k \in DetachJournal /\ k.status = s /\ k.entry = j.entry /\ k.moved = j.moved
  BY DEF DetachJournal, WithStatus

LEMMA MovedEntry ==
    ASSUME NEW j \in DetachJournal, NEW p \in Path, NEW e \in DetachEntry,
           NEW k, k = WithEntry(j, p, e)
    PROVE  /\ k \in DetachJournal /\ k.status = j.status /\ k.moved = j.moved
           /\ k.entry[p] = e /\ \A q \in Path : q # p => k.entry[q] = j.entry[q]
  BY DEF DetachJournal, WithEntry

LEMMA MovedFile ==
    ASSUME NEW j \in DetachJournal, NEW p \in Path, NEW e \in DetachEntry, NEW S \in SUBSET Path,
           NEW k, k = WithMoved(j, p, e, S)
    PROVE  /\ k \in DetachJournal /\ k.status = j.status /\ k.moved = S
           /\ k.entry[p] = e /\ \A q \in Path : q # p => k.entry[q] = j.entry[q]
  BY DEF DetachJournal, WithMoved

LEMMA BeginDetachStatus ==
    ASSUME Calm, StatusInv, OneOperator, NEW w \in Process, BeginDetach(w) PROVE StatusInv'
<1>1. PICK h, d, j : h = held[w] /\ d = h.tx /\ j = h.journal
  OBVIOUS
<1>2. At(w, DetachOps, "begin") /\ "begin" \in MoveSteps \cup {"begin"} /\ OnlyDetach
      /\ "entry" \in MoveSteps
  BY AtDetach DEF BeginDetach, MoveSteps
<1>3. /\ h.pc = "begin" /\ CallTypes(h) /\ MoveKnows(h) /\ j \in DetachJournal /\ DetachShape(j, d)
      /\ d \in DOMAIN detach /\ DetachOK(d)
  BY <1>1, <1>2, MoveFacts
<1>4. PICK k : k = WithStatus(j, "DETACHING")
  OBVIOUS
<1>5. k \in DetachJournal /\ k.status = "DETACHING" /\ k.entry = j.entry /\ k.moved = j.moved
  <2>1. "DETACHING" \in DetachStatus
    BY DEF DetachStatus
  <2>2. QED
    BY <1>3, <1>4, <2>1, MovedStatus
<1>6. j = detach[d] /\ j.status \in {"PLANNED", "DETACHING"}
  BY <1>1, <1>3 DEF MoveKnows
<1>7. DetachShape(k, d) /\ MovesPlanned(k)
  BY <1>3, <1>5, <1>6 DEF DetachShape, MovesPlanned, DetachOK
<1>8. SaveDetach(w, k, "entry")
  BY <1>1, <1>4 DEF BeginDetach, WithStatus
<1>9. PICK g : g = Saved(held[w], k, "entry")
  OBVIOUS
<1>10. detach'[d] = k
  BY <1>1, <1>3, <1>8 DEF SaveDetach, StatusInv, FilesTyped
<1>11. MoveKnows(g)'
  BY <1>1, <1>5, <1>9, <1>10 DEF MoveKnows, Saved
<1>12. \A p \in Path : detach[d].entry[p] \in TakenEntry => k.entry[p] \in TakenEntry
  BY <1>5, <1>6
<1>13. QED
  BY <1>1, <1>2, <1>5, <1>7, <1>8, <1>9, <1>11, <1>12, MoveSavesAt

\* An entry goes one state further while its file stays where it is.
LEMMA StateSaved ==
    ASSUME Calm, StatusInv, OneOperator, NEW w \in Process, NEW pc \in {"entry", "moved"},
           At(w, {"detach"}, pc), NEW p, p = Here(w), NEW e \in {"QUARANTINED", "VERIFIED_ABSENT"},
           held[w].journal.entry[p] \in {"QUARANTINE_PLANNED", "QUARANTINED"},
           NEW k, k = WithEntry(held[w].journal, p, e), SaveDetach(w, k, "entry"), OnlyDetach
    PROVE  StatusInv'
<1>1. PICK h, d, j : h = held[w] /\ d = h.tx /\ j = h.journal
  OBVIOUS
<1>2. At(w, DetachOps, pc) /\ pc \in MoveSteps \cup {"begin"} /\ "entry" \in MoveSteps
  BY AtDetach DEF MoveSteps
<1>3. /\ h.pc = pc /\ CallTypes(h) /\ MoveKnows(h) /\ j \in DetachJournal /\ DetachShape(j, d)
      /\ d \in DOMAIN detach /\ DetachOK(d) /\ p \in Path
  BY <1>1, <1>2, MoveFacts
<1>4. /\ k \in DetachJournal /\ k.status = j.status /\ k.moved = j.moved /\ k.entry[p] = e
      /\ \A q \in Path : q # p => k.entry[q] = j.entry[q]
  <2>1. e \in DetachEntry /\ k = WithEntry(j, p, e)
    BY <1>1 DEF DetachEntry
  <2>2. QED
    BY <1>3, <2>1, MovedEntry
<1>5. j = detach[d] /\ j.status = "DETACHING"
  BY <1>1, <1>3 DEF MoveKnows
<1>6. j.entry[p] \in {"QUARANTINE_PLANNED", "QUARANTINED"}
  BY <1>1
<1>7. DetachShape(k, d) /\ MovesPlanned(k)
  BY <1>3, <1>4, <1>5, <1>6 DEF DetachShape, MovesPlanned, DetachOK
<1>9. PICK g : g = Saved(held[w], k, "entry")
  OBVIOUS
<1>10. detach'[d] = k
  BY <1>1, <1>3 DEF SaveDetach, StatusInv, FilesTyped
<1>11. MoveKnows(g)'
  BY <1>1, <1>4, <1>5, <1>9, <1>10 DEF MoveKnows, Saved
<1>12. \A q \in Path : detach[d].entry[q] \in TakenEntry => k.entry[q] \in TakenEntry
  BY <1>3, <1>4, <1>5, <1>6 DEF TakenEntry
<1>13. QED
  BY <1>1, <1>2, <1>4, <1>7, <1>9, <1>11, <1>12, MoveSavesAt

LEMMA RecordMovedStatus ==
    ASSUME Calm, StatusInv, OneOperator, NEW w \in Process, RecordMoved(w) PROVE StatusInv'
<1>1. PICK p, k : p = Here(w) /\ k = WithEntry(held[w].journal, p, "QUARANTINED")
  OBVIOUS
<1>2. /\ At(w, {"detach"}, "moved") /\ OnlyDetach /\ SaveDetach(w, k, "entry")
      /\ "moved" \in {"entry", "moved"} /\ "QUARANTINED" \in {"QUARANTINED", "VERIFIED_ABSENT"}
  BY <1>1 DEF RecordMoved, WithEntry
<1>3. held[w].journal.entry[p] \in {"QUARANTINE_PLANNED", "QUARANTINED"}
  <2>1. At(w, DetachOps, "moved") /\ "moved" \in MoveSteps \cup {"begin"}
    BY <1>2, AtDetach DEF MoveSteps
  <2>2. MoveKnows(held[w]) /\ held[w].pc = "moved" /\ p = Order[held[w].at]
    BY <1>1, <2>1, MoveFacts
  <2>3. QED
    BY <2>2 DEF MoveKnows
<1>4. QED
  BY <1>1, <1>2, <1>3, StateSaved

LEMMA VerifyAbsentStatus ==
    ASSUME Calm, StatusInv, OneOperator, NEW w \in Process, VerifyAbsent(w) PROVE StatusInv'
<1>1. PICK p, k : p = Here(w) /\ k = WithEntry(held[w].journal, p, "VERIFIED_ABSENT")
  OBVIOUS
<1>2. /\ At(w, {"detach"}, "entry") /\ OnlyDetach /\ SaveDetach(w, k, "entry")
      /\ "entry" \in {"entry", "moved"} /\ "VERIFIED_ABSENT" \in {"QUARANTINED", "VERIFIED_ABSENT"}
      /\ held[w].journal.entry[p] \in {"QUARANTINE_PLANNED", "QUARANTINED"}
  BY <1>1 DEF VerifyAbsent, Entering, WithEntry
<1>3. QED
  BY <1>1, <1>2, StateSaved

\* A detach goes on while the disk stays as it is.
LEMMA MoveTurns ==
    ASSUME Calm, StatusInv, OneOperator, NEW w \in Process, NEW pc \in MoveSteps \cup {"begin"},
           At(w, DetachOps, pc), NEW g, held' = [held EXCEPT ![w] = g],
           UNCHANGED <<target, maker, stage, linked, quarantine, adoption, detach, snapshot,
                       touched, resumed>>,
           g.op = held[w].op, g.tx = held[w].tx, g.journal \in DetachJournal,
           g.at \in DOMAIN Order, g.hit \in BOOLEAN, g.blocked \in BOOLEAN, g.pc \in MoveSteps,
           DetachShape(g.journal, g.tx), MoveKnows(g)
    PROVE  StatusInv'
<1>1. g.op \in DetachOps /\ g.tx \in DOMAIN detach
  BY MoveFacts
<1>2. CallTypes(g)
  BY <1>1 DEF CallTypes
<1>3. g.pc \notin Restoring /\ g.pc # "plan"
  BY DEF MoveSteps, Restoring, Restoral
<1>4. DetachKnows(g)
  BY <1>3 DEF DetachKnows
<1>5. CallOK(g)
  BY <1>1, <1>2, <1>4 DEF CallOK, DetachOps
<1>6. QED
  BY <1>5, TurnKeeps

LEMMA LookAtFileStatus ==
    ASSUME Calm, StatusInv, OneOperator, NEW w \in Process, LookAtFile(w) PROVE StatusInv'
<1>1. PICK h, d, j, p : h = held[w] /\ d = h.tx /\ j = h.journal /\ p = Here(w)
  OBVIOUS
<1>2. At(w, {"detach"}, "entry") /\ j.entry[p] = "QUARANTINE_PLANNED" /\ OnlyDetach
  BY <1>1 DEF LookAtFile, Entering
<1>3. At(w, DetachOps, "entry") /\ "entry" \in MoveSteps \cup {"begin"} /\ Busy(w)
  BY <1>2, AtDetach DEF MoveSteps, At
<1>4. CASE Quarantine(d, p) # "absent"
  <2>1. PICK k : k = WithEntry(held[w].journal, p, "QUARANTINED")
    OBVIOUS
  <2>2. SaveDetach(w, k, "entry")
    BY <1>1, <1>4, <2>1 DEF LookAtFile, WithEntry
  <2>3. /\ "entry" \in {"entry", "moved"} /\ "QUARANTINED" \in {"QUARANTINED", "VERIFIED_ABSENT"}
        /\ held[w].journal.entry[p] \in {"QUARANTINE_PLANNED", "QUARANTINED"}
    BY <1>1, <1>2
  <2>4. QED
    BY <1>1, <1>2, <2>1, <2>2, <2>3, StateSaved
<1>5. CASE Quarantine(d, p) = "absent"
  <2>1. Goto(w, "rename") /\ UNCHANGED detach
    BY <1>1, <1>5 DEF LookAtFile
  <2>2. PICK g : g = Turned(held[w], "rename")
    OBVIOUS
  <2>3. held' = [held EXCEPT ![w] = g]
    BY <1>3, <2>1, <2>2, GotoTurned
  <2>4. /\ h.pc = "entry" /\ CallTypes(h) /\ MoveKnows(h) /\ j \in DetachJournal
        /\ DetachShape(j, d) /\ p = Order[h.at]
    BY <1>1, <1>3, MoveFacts
  <2>5. /\ g.op = h.op /\ g.tx = d /\ g.journal = j /\ g.pc = "rename" /\ g.at = h.at
        /\ g.hit = h.hit /\ g.blocked = h.blocked
    BY <1>1, <2>2 DEF Turned, Saved
  <2>6. MoveKnows(g)
    <3>1. target[p] = "source"
      BY <1>1, <1>5 DEF LookAtFile
    <3>2. QED
      BY <1>1, <1>2, <2>4, <2>5, <3>1 DEF MoveKnows
  <2>7. /\ g.op = held[w].op /\ g.tx = held[w].tx /\ g.journal \in DetachJournal
        /\ g.at \in DOMAIN Order /\ g.hit \in BOOLEAN /\ g.blocked \in BOOLEAN /\ g.pc \in MoveSteps
        /\ DetachShape(g.journal, g.tx)
    BY <1>1, <2>4, <2>5 DEF CallTypes, MoveSteps
  <2>8. UNCHANGED <<target, maker, stage, linked, quarantine, adoption, detach, snapshot,
                    touched, resumed>>
    BY <1>2, <2>1 DEF OnlyDetach, files, environment, history
  <2>9. QED
    BY <1>3, <2>3, <2>6, <2>7, <2>8, MoveTurns
<1>6. QED
  BY <1>4, <1>5

LEMMA PlanMoveStatus ==
    ASSUME Calm, StatusInv, OneOperator, NEW w \in Process, PlanMove(w) PROVE StatusInv'
<1>1. PICK h, d, j, p, S : /\ h = held[w] /\ d = h.tx /\ j = h.journal /\ p = Here(w)
                           /\ S = j.moved \cup {p}
  OBVIOUS
<1>2. /\ At(w, {"detach"}, "entry") /\ j.entry[p] = "PENDING" /\ OnlyDetach
      /\ "entry" \in MoveSteps
  BY <1>1 DEF PlanMove, Entering, MoveSteps
<1>3. At(w, DetachOps, "entry") /\ "entry" \in MoveSteps \cup {"begin"} /\ Busy(w)
  BY <1>2, AtDetach DEF MoveSteps, At
<1>4. /\ h.pc = "entry" /\ CallTypes(h) /\ MoveKnows(h) /\ j \in DetachJournal /\ DetachShape(j, d)
      /\ p \in Path /\ d \in DOMAIN detach /\ DetachOK(d)
  BY <1>1, <1>3, MoveFacts
<1>5. PICK k : k = WithMoved(j, p, "QUARANTINE_PLANNED", S)
  OBVIOUS
<1>6. /\ k \in DetachJournal /\ k.status = j.status /\ k.moved = j.moved \cup {p}
      /\ k.entry[p] = "QUARANTINE_PLANNED" /\ \A q \in Path : q # p => k.entry[q] = j.entry[q]
  <2>1. S \in SUBSET Path /\ "QUARANTINE_PLANNED" \in DetachEntry
    BY <1>1, <1>4 DEF DetachJournal, DetachEntry
  <2>2. QED
    BY <1>1, <1>4, <1>5, <2>1, MovedFile
<1>7. j = detach[d] /\ j.status = "DETACHING"
  BY <1>1, <1>4 DEF MoveKnows
<1>8. DetachShape(k, d) /\ MovesPlanned(k)
  BY <1>2, <1>4, <1>6, <1>7 DEF DetachShape, MovesPlanned, DetachOK
<1>9. SaveDetach(w, k, "entry")
  BY <1>1, <1>5 DEF PlanMove, WithMoved
<1>10. PICK g : g = Saved(held[w], k, "entry")
  OBVIOUS
<1>11. detach'[d] = k
  BY <1>1, <1>4, <1>9 DEF SaveDetach, StatusInv, FilesTyped
<1>12. MoveKnows(g)'
  BY <1>1, <1>6, <1>7, <1>10, <1>11 DEF MoveKnows, Saved
<1>13. \A q \in Path : detach[d].entry[q] \in TakenEntry => k.entry[q] \in TakenEntry
  BY <1>2, <1>4, <1>6, <1>7 DEF TakenEntry
<1>14. QED
  BY <1>1, <1>2, <1>3, <1>6, <1>8, <1>9, <1>10, <1>12, <1>13, MoveSavesAt

LEMMA KeepEntryStatus ==
    ASSUME Calm, StatusInv, OneOperator, NEW w \in Process, KeepEntry(w) PROVE StatusInv'
<1>1. PICK h, d, j, p : h = held[w] /\ d = h.tx /\ j = h.journal /\ p = Here(w)
  OBVIOUS
<1>2. At(w, {"detach"}, "entry") /\ OnlyDetach /\ "entry" \in {"entry", "purged"}
  BY DEF KeepEntry
<1>3. At(w, DetachOps, "entry") /\ "entry" \in MoveSteps \cup {"begin"}
  BY <1>2, AtDetach DEF MoveSteps
<1>4. /\ h.pc = "entry" /\ MoveKnows(h) /\ j \in DetachJournal /\ DetachShape(j, d)
      /\ p \in Path /\ d \in DOMAIN detach /\ DetachOK(d)
  BY <1>1, <1>3, MoveFacts
<1>5. j = detach[d] /\ j.status = "DETACHING"
  BY <1>1, <1>4 DEF MoveKnows
<1>6. ASSUME NEW e \in {"PRESERVED", "ALREADY_ABSENT"}, p \notin Leaves(d),
             SaveRemoved(w, WithEntry(j, p, e))
      PROVE  StatusInv'
  <2>1. PICK k : k = WithEntry(j, p, e)
    OBVIOUS
  <2>2. /\ k \in DetachJournal /\ k.status = j.status /\ k.moved = j.moved /\ k.entry[p] = e
        /\ \A q \in Path : q # p => k.entry[q] = j.entry[q]
    <3>1. e \in DetachEntry
      BY <1>6 DEF DetachEntry
    <3>2. QED
      BY <1>4, <2>1, <3>1, MovedEntry
  <2>3. j.entry[p] \notin TakenEntry
    BY <1>4, <1>6 DEF DetachShape, TakenEntry
  <2>4. DetachShape(k, d) /\ MovesPlanned(k)
    BY <1>4, <1>5, <1>6, <2>2 DEF DetachShape, MovesPlanned, DetachOK
  <2>5. \A q \in Path : detach[d].entry[q] \in TakenEntry => k.entry[q] \in TakenEntry
    BY <1>5, <2>2, <2>3
  <2>6. SaveRemoved(w, k) /\ k.status = held[w].journal.status /\ d = held[w].tx
    BY <1>1, <1>6, <2>1, <2>2
  <2>7. QED
    BY <1>2, <2>2, <2>4, <2>5, <2>6, MoveSavesEntry
<1>7. CASE p \notin Removable(d.adoption) /\ SaveRemoved(w, WithEntry(j, p, "PRESERVED"))
  BY <1>6, <1>7 DEF Leaves
<1>8. CASE p \in WasGone(d) /\ SaveRemoved(w, WithEntry(j, p, "ALREADY_ABSENT"))
  BY <1>6, <1>8 DEF Leaves, WasGone
<1>9. CASE SaveRemoved(w, j)
  <2>1. /\ d = held[w].tx /\ j.status = held[w].journal.status /\ MovesPlanned(j)
        /\ \A q \in Path : detach[d].entry[q] \in TakenEntry => j.entry[q] \in TakenEntry
    BY <1>1, <1>4, <1>5 DEF DetachOK
  <2>2. QED
    BY <1>2, <1>4, <1>9, <2>1, MoveSavesEntry
<1>10. QED
  BY <1>1, <1>7, <1>8, <1>9 DEF KeepEntry, WithEntry

LEMMA RecordPurgedStatus ==
    ASSUME Calm, StatusInv, OneOperator, NEW w \in Process, RecordPurged(w) PROVE StatusInv'
<1>1. PICK h, d, j, p, S : /\ h = held[w] /\ d = h.tx /\ j = h.journal /\ p = Here(w)
                           /\ S = j.moved \ {p}
  OBVIOUS
<1>2. At(w, {"detach"}, "purged") /\ OnlyDetach /\ "purged" \in {"entry", "purged"}
  BY DEF RecordPurged
<1>3. At(w, DetachOps, "purged") /\ "purged" \in MoveSteps \cup {"begin"}
  BY <1>2, AtDetach DEF MoveSteps
<1>4. /\ h.pc = "purged" /\ MoveKnows(h) /\ j \in DetachJournal /\ DetachShape(j, d)
      /\ p \in Path /\ p = Order[h.at] /\ d \in DOMAIN detach /\ DetachOK(d)
  BY <1>1, <1>3, MoveFacts
<1>5. /\ j = detach[d] /\ j.status = "DETACHING" /\ j.entry[p] = "VERIFIED_ABSENT"
      /\ Quarantine(d, p) = "absent"
  BY <1>1, <1>4 DEF MoveKnows
<1>6. PICK k : k = WithMoved(j, p, "PURGED", S)
  OBVIOUS
<1>7. /\ k \in DetachJournal /\ k.status = j.status /\ k.moved = j.moved \ {p}
      /\ k.entry[p] = "PURGED" /\ \A q \in Path : q # p => k.entry[q] = j.entry[q]
  <2>1. j.moved \in SUBSET Path /\ "PURGED" \in DetachEntry
    BY <1>4 DEF DetachJournal, DetachEntry
  <2>2. S \in SUBSET Path
    BY <1>1, <2>1
  <2>3. /\ k \in DetachJournal /\ k.status = j.status /\ k.moved = S
        /\ k.entry[p] = "PURGED" /\ \A q \in Path : q # p => k.entry[q] = j.entry[q]
    BY <1>4, <1>6, <2>1, <2>2, MovedFile
  <2>4. QED
    BY <1>1, <2>3
<1>8. DetachShape(k, d) /\ MovesPlanned(k)
  BY <1>4, <1>5, <1>7 DEF DetachShape, MovesPlanned, DetachOK
<1>9. SaveRemoved(w, k) /\ k.status = held[w].journal.status /\ d = held[w].tx
  BY <1>1, <1>6, <1>7 DEF RecordPurged, WithMoved
<1>10. \A q \in Path : detach[d].entry[q] \in TakenEntry => k.entry[q] \in TakenEntry
  BY <1>5, <1>7 DEF TakenEntry
<1>11. QED
  BY <1>2, <1>7, <1>8, <1>9, <1>10, MoveSavesEntry

LEMMA MoveFileStatus ==
    ASSUME Calm, StatusInv, OneOperator, NEW w \in Process, MoveFile(w) PROVE StatusInv'
<1>1. PICK h, d, j, p : h = held[w] /\ d = h.tx /\ j = h.journal /\ p = Here(w)
  OBVIOUS
<1>2. /\ At(w, {"detach"}, "rename") /\ "rename" \in MoveSteps \cup {"begin"} /\ Busy(w)
      /\ Goto(w, "moved") /\ target[p] # "absent" /\ Keep(d, p, target[p])
      /\ target' = [target EXCEPT ![p] = "absent"] /\ maker' = [maker EXCEPT ![p] = Consumer]
      /\ linked' = [t \in DOMAIN linked |-> linked[t] \ {p}]
      /\ UNCHANGED <<stage, adoption, detach, snapshot, touched, resumed>>
  BY <1>1 DEF MoveFile, MoveSteps, At, NoSave, disk, environment, history
<1>3. /\ h.pc = "rename" /\ CallTypes(h) /\ MoveKnows(h) /\ j \in DetachJournal
      /\ DetachShape(j, d) /\ p \in Path /\ p = Order[h.at] /\ d \in DOMAIN detach
      /\ detach[d] \in DetachJournal /\ DetachOK(d) /\ At(w, DetachOps, "rename")
  BY <1>1, <1>2, MoveFacts, AtDetach
<1>4. target \in [Path -> Bytes] /\ maker = [q \in Path |-> maker[q]] /\ MakersOK
      /\ \A u \in DOMAIN adoption : u # Consumer
  BY ConsumerAssumption DEF StatusInv, FilesTyped
<1>5. p \in touched \/ target[p] = "source"
  BY <1>3 DEF MoveKnows
<1>6. /\ j = detach[d] /\ j.status = "DETACHING" /\ j.entry[p] = "QUARANTINE_PLANNED"
      /\ p \in j.moved /\ p \in Leaves(d)
  BY <1>1, <1>3 DEF MoveKnows, DetachOK, MovesPlanned, DetachShape
<1>7. \A e, q : q \in Path => Quarantine(e, q)' = IF e = d /\ q = p THEN target[p] ELSE Quarantine(e, q)
  BY <1>2, KeepFacts
<1>8. DOMAIN quarantine' = DOMAIN quarantine \cup {d}
  BY <1>2 DEF Keep, Put
<1>9. target' \in [Path -> Bytes] /\ maker' = [q \in Path |-> maker'[q]] /\ MakersOK'
  <2>1. target' \in [Path -> Bytes] /\ maker' = [q \in Path |-> maker'[q]]
    BY <1>2, <1>4 DEF Bytes
  <2>2. \A q \in Path : q # p => target'[q] = target[q] /\ maker'[q] = maker[q]
    BY <1>2, <1>4
  <2>3. maker'[p] = Consumer
    BY <1>2, <1>3, <1>4
  <2>4. QED
    BY <1>2, <1>4, <2>1, <2>2, <2>3 DEF MakersOK
<1>10. DetachShape(j, d)'
  BY <1>3, <1>6, <1>7 DEF DetachShape
<1>11. PICK g : g = Turned(h, "moved")
  OBVIOUS
<1>12. held' = [held EXCEPT ![w] = g]
  BY <1>1, <1>2, <1>11, GotoTurned
<1>13. /\ g.op = h.op /\ g.tx = d /\ g.journal = j /\ g.pc = "moved" /\ g.at = h.at
       /\ g.hit = h.hit /\ g.blocked = h.blocked
  BY <1>1, <1>11 DEF Turned, Saved
<1>14. MoveKnows(g)'
  BY <1>2, <1>3, <1>6, <1>13 DEF MoveKnows
<1>15. CallOK(g)'
  <2>1. /\ g.op = held[w].op /\ g.tx = d /\ g.journal \in DetachJournal
        /\ g.at \in DOMAIN Order /\ g.hit \in BOOLEAN /\ g.blocked \in BOOLEAN /\ g.pc \in MoveSteps
        /\ d = held[w].tx
    BY <1>1, <1>3, <1>13 DEF CallTypes, MoveSteps
  <2>2. DetachShape(g.journal, d)' /\ DOMAIN detach' = DOMAIN detach
    BY <1>2, <1>10, <1>13
  <2>3. QED
    BY <1>2, <1>3, <1>14, <2>1, <2>2, MoveCallOK
<1>16. detach' = Put(detach, d, j)
  <2>1. detach = [detach EXCEPT ![d] = j]
    BY <1>3, <1>6 DEF StatusInv, FilesTyped
  <2>2. QED
    BY <1>2, <1>3, <2>1, PutSame
<1>17. /\ d.adoption \in DOMAIN adoption /\ adoption[d.adoption].status = "COMMITTED"
       /\ MovesPlanned(j)
       /\ \A q \in Path : Quarantine(d, q)' # "absent" =>
             /\ q \in Leaves(d) /\ Quarantine(d, q)' \in Bytes
             /\ (q \in touched \/ Quarantine(d, q)' = "source")
  BY <1>3, <1>4, <1>5, <1>6, <1>7 DEF DetachOK
<1>18. /\ \A q \in Path : maker'[q] \in {maker[q], Consumer, d.adoption}
       /\ \A q \in Path \ touched : target'[q] # target[q] => q \in Leaves(d)
       /\ \A e, q : e # d /\ q \in Path => Quarantine(e, q)' = Quarantine(e, q)
       /\ \A u \in DOMAIN adoption, q \in Path :
              (Linked(u, q)' <=> Linked(u, q)) \/ maker'[q] = Consumer
  BY <1>2, <1>4, <1>6, <1>7 DEF Linked
<1>19. ASSUME NEW q \in Leaves(d) \ touched
       PROVE  \/ target'[q] = "source"
              \/ Quarantine(d, q)' = "source" \/ j.entry[q] \in TakenEntry
              \/ \E e \in DOMAIN detach \ {d} : MovedBy(e, q)
  <2>1. q \in Path
    BY DEF Leaves, Removable
  <2>2. CASE q = p
    BY <1>5, <1>7, <2>1, <2>2
  <2>3. CASE q # p
    <3>1. target'[q] = target[q] /\ Quarantine(d, q)' = Quarantine(d, q)
      BY <1>2, <1>4, <1>7, <2>1, <2>3
    <3>2. QED
      BY <1>3, <1>6, <3>1, LeavesAccounted
  <2>4. QED
    BY <2>2, <2>3
<1>20. UNCHANGED <<stage, adoption, snapshot, touched, resumed>>
       /\ DOMAIN quarantine' \subseteq DOMAIN quarantine \cup {d}
  BY <1>2, <1>8
<1>21. QED
  BY <1>3, <1>9, <1>10, <1>12, <1>15, <1>16, <1>17, <1>18, <1>19, <1>20, DetachWrites

LEMMA PurgeStatus ==
    ASSUME Calm, StatusInv, OneOperator, NEW w \in Process, Purge(w) PROVE StatusInv'
<1>1. PICK h, d, j, p : h = held[w] /\ d = h.tx /\ j = h.journal /\ p = Here(w)
  OBVIOUS
<1>2. /\ At(w, {"detach"}, "entry") /\ "entry" \in MoveSteps \cup {"begin"} /\ Busy(w)
      /\ Goto(w, "purged") /\ j.entry[p] = "VERIFIED_ABSENT" /\ Keep(d, p, "absent")
      /\ UNCHANGED <<target, maker, linked, stage, adoption, detach, snapshot, touched, resumed>>
  BY <1>1 DEF Purge, Entering, MoveSteps, At, NoSave, disk, environment, history
<1>3. /\ h.pc = "entry" /\ CallTypes(h) /\ MoveKnows(h) /\ j \in DetachJournal
      /\ DetachShape(j, d) /\ p \in Path /\ p = Order[h.at] /\ d \in DOMAIN detach
      /\ detach[d] \in DetachJournal /\ DetachOK(d) /\ At(w, DetachOps, "entry")
  BY <1>1, <1>2, MoveFacts, AtDetach
<1>4. j = detach[d] /\ j.status = "DETACHING"
  BY <1>1, <1>3 DEF MoveKnows
<1>5. \A e, q : q \in Path => Quarantine(e, q)' = IF e = d /\ q = p THEN "absent" ELSE Quarantine(e, q)
  BY <1>2, KeepFacts
<1>6. DOMAIN quarantine' = DOMAIN quarantine \cup {d}
  BY <1>2 DEF Keep, Put
<1>7. target' \in [Path -> Bytes] /\ maker' = [q \in Path |-> maker'[q]] /\ MakersOK'
  BY <1>2, FilesKept
<1>8. DetachShape(j, d)'
  BY <1>3, <1>5 DEF DetachShape
<1>9. PICK g : g = Turned(h, "purged")
  OBVIOUS
<1>10. held' = [held EXCEPT ![w] = g]
  BY <1>1, <1>2, <1>9, GotoTurned
<1>11. /\ g.op = h.op /\ g.tx = d /\ g.journal = j /\ g.pc = "purged" /\ g.at = h.at
       /\ g.hit = h.hit /\ g.blocked = h.blocked
  BY <1>1, <1>9 DEF Turned, Saved
<1>12. MoveKnows(g)'
  BY <1>2, <1>3, <1>4, <1>5, <1>11 DEF MoveKnows
<1>13. CallOK(g)'
  <2>1. /\ g.op = held[w].op /\ g.tx = d /\ g.journal \in DetachJournal
        /\ g.at \in DOMAIN Order /\ g.hit \in BOOLEAN /\ g.blocked \in BOOLEAN /\ g.pc \in MoveSteps
        /\ d = held[w].tx
    BY <1>1, <1>3, <1>11 DEF CallTypes, MoveSteps
  <2>2. DetachShape(g.journal, d)' /\ DOMAIN detach' = DOMAIN detach
    BY <1>2, <1>8, <1>11
  <2>3. QED
    BY <1>2, <1>3, <1>12, <2>1, <2>2, MoveCallOK
<1>14. detach' = Put(detach, d, j)
  <2>1. detach = [detach EXCEPT ![d] = j]
    BY <1>3, <1>4 DEF StatusInv, FilesTyped
  <2>2. QED
    BY <1>2, <1>3, <2>1, PutSame
<1>15. /\ d.adoption \in DOMAIN adoption /\ adoption[d.adoption].status = "COMMITTED"
       /\ MovesPlanned(j)
       /\ \A q \in Path : Quarantine(d, q)' # "absent" =>
             /\ q \in Leaves(d) /\ Quarantine(d, q)' \in Bytes
             /\ (q \in touched \/ Quarantine(d, q)' = "source")
  BY <1>3, <1>4, <1>5 DEF DetachOK
<1>16. /\ \A q \in Path : maker'[q] \in {maker[q], Consumer, d.adoption}
       /\ \A q \in Path \ touched : target'[q] # target[q] => q \in Leaves(d)
       /\ \A e, q : e # d /\ q \in Path => Quarantine(e, q)' = Quarantine(e, q)
       /\ \A u \in DOMAIN adoption, q \in Path :
              (Linked(u, q)' <=> Linked(u, q)) \/ maker'[q] = Consumer
  BY <1>2, <1>5 DEF Linked
<1>17. ASSUME NEW q \in Leaves(d) \ touched
       PROVE  \/ target'[q] = "source"
              \/ Quarantine(d, q)' = "source" \/ j.entry[q] \in TakenEntry
              \/ \E e \in DOMAIN detach \ {d} : MovedBy(e, q)
  <2>1. q \in Path
    BY DEF Leaves, Removable
  <2>2. CASE q = p
    BY <1>2, <2>2 DEF TakenEntry
  <2>3. CASE q # p
    <3>1. target'[q] = target[q] /\ Quarantine(d, q)' = Quarantine(d, q)
      BY <1>2, <1>5, <2>1, <2>3
    <3>2. QED
      BY <1>3, <1>4, <3>1, LeavesAccounted
  <2>4. QED
    BY <2>2, <2>3
<1>18. UNCHANGED <<stage, adoption, snapshot, touched, resumed>>
       /\ DOMAIN quarantine' \subseteq DOMAIN quarantine \cup {d}
  BY <1>2, <1>6
<1>19. QED
  BY <1>3, <1>7, <1>8, <1>10, <1>13, <1>14, <1>15, <1>16, <1>17, <1>18, DetachWrites

LEMMA CheckDetachedStatus ==
    ASSUME Calm, StatusInv, OneOperator, NEW w \in Process, CheckDetached(w) PROVE StatusInv'
<1>1. PICK h, d, j : h = held[w] /\ d = h.tx /\ j = h.journal
  OBVIOUS
<1>2. /\ At(w, {"detach"}, "post") /\ "post" \in MoveSteps \cup {"begin"} /\ AllGone(h)
      /\ UNCHANGED <<target, maker, stage, linked, quarantine, adoption, detach, snapshot,
                     touched, resumed>>
  BY <1>1 DEF CheckDetached, MoveSteps, files, NoSave, disk, environment, history
<1>3. /\ h.pc = "post" /\ IsCall(h) /\ CallTypes(h) /\ MoveKnows(h) /\ j \in DetachJournal
      /\ DetachShape(j, d) /\ d \in DOMAIN detach /\ At(w, DetachOps, "post")
  BY <1>1, <1>2, MoveFacts, AtDetach
<1>4. PICK k : k = [j EXCEPT !.moved = {}]
  OBVIOUS
<1>5. k \in DetachJournal /\ k.status = j.status /\ k.entry = j.entry /\ k.moved = {}
  BY <1>3, <1>4 DEF DetachJournal
<1>6. PICK f, g : f = [h EXCEPT !.pc = "commit", !.journal = k] /\ g = Saved(h, k, "commit")
  OBVIOUS
<1>7. f = g
  <2>1. f = [op |-> h.op, tx |-> h.tx, journal |-> k, pc |-> "commit", at |-> h.at,
             hit |-> h.hit, blocked |-> h.blocked]
    BY <1>3, <1>6 DEF IsCall
  <2>2. QED
    BY <1>6, <2>1 DEF Saved
<1>8. held' = [held EXCEPT ![w] = f]
  BY <1>1, <1>4, <1>6 DEF CheckDetached
<1>9. /\ g.op = h.op /\ g.tx = d /\ g.journal = k /\ g.pc = "commit" /\ g.at = h.at
      /\ g.hit = h.hit /\ g.blocked = h.blocked
  BY <1>1, <1>6 DEF Saved
<1>10. DetachShape(k, d)
  BY <1>1, <1>2, <1>3, <1>5 DEF DetachShape, AllGone
<1>11. MoveKnows(g)
  BY <1>1, <1>3, <1>5, <1>9 DEF MoveKnows
<1>12. /\ g.op = held[w].op /\ g.tx = held[w].tx /\ g.journal \in DetachJournal
       /\ g.at \in DOMAIN Order /\ g.hit \in BOOLEAN /\ g.blocked \in BOOLEAN /\ g.pc \in MoveSteps
       /\ DetachShape(g.journal, g.tx) /\ held' = [held EXCEPT ![w] = g]
  BY <1>1, <1>3, <1>5, <1>7, <1>8, <1>9, <1>10 DEF CallTypes, MoveSteps
<1>13. QED
  BY <1>2, <1>3, <1>11, <1>12, MoveTurns

LEMMA CommitDetachStatus ==
    ASSUME Calm, StatusInv, OneOperator, NEW w \in Process, CommitDetach(w) PROVE StatusInv'
<1>1. PICK h, d, j : h = held[w] /\ d = h.tx /\ j = h.journal
  OBVIOUS
<1>2. /\ At(w, {"detach"}, "commit") /\ "commit" \in MoveSteps \cup {"begin"} /\ OnlyDetach
      /\ "readback" \in MoveSteps
  BY DEF CommitDetach, MoveSteps
<1>3. /\ h.pc = "commit" /\ MoveKnows(h) /\ j \in DetachJournal /\ d \in DOMAIN detach
      /\ DetachShape(j, d) /\ At(w, DetachOps, "commit")
  BY <1>1, <1>2, MoveFacts, AtDetach
<1>4. PICK k : k = WithStatus(j, "COMMITTED")
  OBVIOUS
<1>5. k \in DetachJournal /\ k.status = "COMMITTED" /\ k.entry = j.entry /\ k.moved = j.moved
  <2>1. "COMMITTED" \in DetachStatus
    BY DEF DetachStatus
  <2>2. QED
    BY <1>3, <1>4, <2>1, MovedStatus
<1>6. DetachShape(k, d) /\ MovesPlanned(k)
  BY <1>3, <1>5 DEF DetachShape, MovesPlanned
<1>7. SaveDetach(w, k, "readback")
  BY <1>1, <1>4 DEF CommitDetach, WithStatus
<1>8. PICK g : g = Saved(held[w], k, "readback")
  OBVIOUS
<1>9. detach'[d] = k
  BY <1>1, <1>3, <1>7 DEF SaveDetach, StatusInv, FilesTyped
<1>10. MoveKnows(g)'
  BY <1>1, <1>5, <1>8, <1>9 DEF MoveKnows, Saved
<1>11. \A p \in Path : detach[d].entry[p] \in TakenEntry => k.entry[p] \in TakenEntry
  BY <1>1, <1>3, <1>5 DEF MoveKnows
<1>12. QED
  BY <1>1, <1>2, <1>3, <1>5, <1>6, <1>7, <1>8, <1>10, <1>11, MoveSavesAt

LEMMA ReadBackDetachStatus ==
    ASSUME Calm, StatusInv, OneOperator, NEW w \in Process, ReadBackDetach(w) PROVE StatusInv'
<1>1. PICK h, d, j : h = held[w] /\ d = h.tx /\ j = h.journal
  OBVIOUS
<1>2. /\ At(w, {"detach"}, "readback") /\ "readback" \in MoveSteps \cup {"begin"} /\ Busy(w)
      /\ Goto(w, "rmdir")
      /\ UNCHANGED <<target, maker, stage, linked, quarantine, adoption, detach, snapshot,
                     touched, resumed>>
  BY DEF ReadBackDetach, MoveSteps, files, NoSave, disk, environment, history, At
<1>3. /\ h.pc = "readback" /\ CallTypes(h) /\ MoveKnows(h) /\ j \in DetachJournal
      /\ DetachShape(j, d) /\ At(w, DetachOps, "readback")
  BY <1>1, <1>2, MoveFacts, AtDetach
<1>4. PICK g : g = Turned(h, "rmdir")
  OBVIOUS
<1>5. held' = [held EXCEPT ![w] = g]
  BY <1>1, <1>2, <1>4, GotoTurned
<1>6. /\ g.op = h.op /\ g.tx = d /\ g.journal = j /\ g.pc = "rmdir" /\ g.at = h.at
      /\ g.hit = h.hit /\ g.blocked = h.blocked
  BY <1>1, <1>4 DEF Turned, Saved
<1>7. MoveKnows(g)
  BY <1>1, <1>3, <1>6 DEF MoveKnows
<1>8. /\ g.op = held[w].op /\ g.tx = held[w].tx /\ g.journal \in DetachJournal
      /\ g.at \in DOMAIN Order /\ g.hit \in BOOLEAN /\ g.blocked \in BOOLEAN /\ g.pc \in MoveSteps
      /\ DetachShape(g.journal, g.tx)
  BY <1>1, <1>3, <1>6 DEF CallTypes, MoveSteps
<1>9. QED
  BY <1>2, <1>3, <1>5, <1>7, <1>8, MoveTurns

LEMMA CleanDirectoryStatus ==
    ASSUME Calm, StatusInv, OneOperator, NEW w \in Process, CleanDirectory(w) PROVE StatusInv'
<1>1. PICK h, d, j : h = held[w] /\ d = h.tx /\ j = h.journal
  OBVIOUS
<1>2. /\ At(w, {"detach", "again"}, "rmdir") /\ "rmdir" \in MoveSteps \cup {"begin"}
      /\ UNCHANGED <<target, maker, stage, linked, quarantine, adoption, detach, snapshot,
                     touched, resumed>>
  BY DEF CleanDirectory, MoveSteps, NoSave, disk, environment, history
<1>3. /\ h.pc = "rmdir" /\ IsCall(h) /\ CallTypes(h) /\ MoveKnows(h) /\ j \in DetachJournal
      /\ DetachShape(j, d) /\ At(w, DetachOps, "rmdir")
  BY <1>1, <1>2, MoveFacts, AtDetach
<1>4. PICK b \in BOOLEAN : b = (j.removed \/ (Provenance(d) /\ ~j.removed /\ directory /\ Empty))
  OBVIOUS
<1>5. PICK k : k = [j EXCEPT !.removed = b]
  OBVIOUS
<1>6. k \in DetachJournal /\ k.status = j.status /\ k.entry = j.entry /\ k.moved = j.moved
  BY <1>3, <1>4, <1>5 DEF DetachJournal
<1>7. PICK f, g : f = [h EXCEPT !.pc = "close", !.journal = k] /\ g = Saved(h, k, "close")
  OBVIOUS
<1>8. f = g
  <2>1. f = [op |-> h.op, tx |-> h.tx, journal |-> k, pc |-> "close", at |-> h.at,
             hit |-> h.hit, blocked |-> h.blocked]
    BY <1>3, <1>7 DEF IsCall
  <2>2. QED
    BY <1>7, <2>1 DEF Saved
<1>9. held' = [held EXCEPT ![w] = f]
  BY <1>1, <1>4, <1>5, <1>7 DEF CleanDirectory
<1>10. /\ g.op = h.op /\ g.tx = d /\ g.journal = k /\ g.pc = "close" /\ g.at = h.at
       /\ g.hit = h.hit /\ g.blocked = h.blocked
  BY <1>1, <1>7 DEF Saved
<1>11. DetachShape(k, d)
  BY <1>3, <1>6 DEF DetachShape
<1>12. MoveKnows(g)
  BY <1>1, <1>3, <1>6, <1>10 DEF MoveKnows
<1>13. /\ g.op = held[w].op /\ g.tx = held[w].tx /\ g.journal \in DetachJournal
       /\ g.at \in DOMAIN Order /\ g.hit \in BOOLEAN /\ g.blocked \in BOOLEAN /\ g.pc \in MoveSteps
       /\ DetachShape(g.journal, g.tx) /\ held' = [held EXCEPT ![w] = g]
  BY <1>1, <1>3, <1>6, <1>8, <1>9, <1>10, <1>11 DEF CallTypes, MoveSteps
<1>14. QED
  BY <1>2, <1>3, <1>12, <1>13, MoveTurns

LEMMA CloseDetachStatus ==
    ASSUME Calm, StatusInv, OneOperator, NEW w \in Process, CloseDetach(w) PROVE StatusInv'
<1>1. PICK h, d, j : h = held[w] /\ d = h.tx /\ j = h.journal
  OBVIOUS
<1>2. /\ At(w, {"detach", "again"}, "close") /\ "close" \in MoveSteps \cup {"begin"}
      /\ detach' = [detach EXCEPT ![d] = j] /\ held' = [held EXCEPT ![w] = Idle]
      /\ UNCHANGED <<target, maker, stage, linked, quarantine, adoption, snapshot, touched, resumed>>
  BY <1>1 DEF CloseDetach, MoveSteps, OnlyDetach, files, environment, history
<1>3. /\ h.pc = "close" /\ MoveKnows(h) /\ j \in DetachJournal /\ d \in DOMAIN detach
      /\ DetachShape(j, d)
  BY <1>1, <1>2, MoveFacts, AtDetach
<1>4. j.entry = detach[d].entry /\ MovesPlanned(j)
  BY <1>1, <1>3 DEF MoveKnows, MovesPlanned
<1>5. PICK g : g = Idle
  OBVIOUS
<1>6. \A p \in Leaves(d) \ touched : detach[d].entry[p] \in TakenEntry =>
              \/ target[p] = "source" \/ j.entry[p] \in TakenEntry
              \/ \E e \in DOMAIN detach \ {d} : MovedBy(e, p)
  BY <1>4
<1>7. QED
  BY <1>2, <1>3, <1>4, <1>5, <1>6, DetachSaves

\* What a recovery starts from.
LEMMA RestoreStarts ==
    ASSUME StatusInv, NEW d \in DOMAIN detach, NEW j, j.entry = detach[d].entry,
           DetachShape(j, d), NEW q \in Leaves(d) \ touched, j.entry[q] = "RESTORED"
    PROVE  target[q] = "source" \/ \E e \in DOMAIN detach \ {d} : MovedBy(e, q)
<1>1. q \in Path
  BY DEF Leaves, Removable
<1>2. Quarantine(d, q) = "absent" /\ detach[d].entry[q] \notin TakenEntry
  BY <1>1 DEF DetachShape, TakenEntry
<1>3. QED
  BY <1>2, LeavesAccounted

LEMMA FailDetachStatus ==
    ASSUME Calm, StatusInv, OneOperator, NEW w \in Process, FailDetach(w) PROVE StatusInv'
<1>1. PICK h, d, j, pc : h = held[w] /\ d = h.tx /\ j = h.journal /\ pc = h.pc
  OBVIOUS
<1>2. /\ At(w, {"detach"}, pc) /\ pc \in MoveSteps \cup {"begin"}
      /\ UNCHANGED <<files, adoption, snapshot, touched, resumed>>
  BY <1>1 DEF FailDetach, At, history
<1>3. /\ IsCall(h) /\ CallTypes(h) /\ MoveKnows(h) /\ j \in DetachJournal /\ d \in DOMAIN detach
      /\ DetachShape(j, d) /\ h.op \in DetachOps
  BY <1>1, <1>2, MoveFacts, AtDetach
<1>4. PICK k : k = WithStatus(j, "RECOVERY_REQUIRED")
  OBVIOUS
<1>5. /\ k \in DetachJournal /\ k.status = "RECOVERY_REQUIRED" /\ k.entry = j.entry
      /\ k.moved = j.moved
  <2>1. "RECOVERY_REQUIRED" \in DetachStatus
    BY DEF DetachStatus
  <2>2. QED
    BY <1>3, <1>4, <2>1, MovedStatus
<1>6. DetachShape(k, d) /\ MovesPlanned(k) /\ k.entry = detach[d].entry
  BY <1>1, <1>3, <1>5 DEF DetachShape, MovesPlanned, MoveKnows
<1>7. PICK g : g = [h EXCEPT !.journal = k, !.pc = "restore", !.at = Len(Order)]
  OBVIOUS
<1>8. g = [op |-> h.op, tx |-> d, journal |-> k, pc |-> "restore", at |-> Len(Order),
           hit |-> h.hit, blocked |-> h.blocked]
  BY <1>1, <1>3, <1>7 DEF IsCall
<1>9. held' = [held EXCEPT ![w] = g] /\ detach' = [detach EXCEPT ![d] = k]
  BY <1>1, <1>4, <1>7 DEF FailDetach, WithStatus
<1>10. /\ DOMAIN detach' = DOMAIN detach /\ detach'[d] = k
       /\ \A e \in DOMAIN detach : e # d => detach'[e] = detach[e]
  BY <1>3, <1>9 DEF StatusInv, FilesTyped
<1>11. target' = target /\ touched' = touched /\ quarantine' = quarantine
  BY <1>2 DEF files
<1>12. Len(Order) \in DOMAIN Order /\ Len(Order) \in Nat /\ DOMAIN Order = 1..Len(Order)
  BY SurfaceAssumption
<1>13. RestoreKnows(g)'
  <2>1. ASSUME NEW q \in Leaves(d) \ touched, k.entry[q] = "RESTORED"
        PROVE  (target[q] = "source" \/ \E e \in DOMAIN detach \ {d} : MovedBy(e, q))'
    <3>1. target[q] = "source" \/ \E e \in DOMAIN detach \ {d} : MovedBy(e, q)
      BY <1>3, <1>6, <2>1, RestoreStarts
    <3>2. QED
      BY <1>10, <1>11, <3>1 DEF MovedBy, Quarantine
  <2>2. \A i \in DOMAIN Order : ~(i > g.at \/ g.pc = "closed")
    BY <1>8, <1>12
  <2>3. QED
    BY <1>5, <1>8, <1>10, <1>11, <2>1, <2>2 DEF RestoreKnows, Restoral
<1>14. CallOK(g)'
  <2>1. CallTypes(g)'
    BY <1>1, <1>3, <1>5, <1>8, <1>10, <1>12 DEF CallTypes
  <2>2. DetachShape(k, d)'
    BY <1>6, <1>11 DEF DetachShape, Quarantine
  <2>3. DetachKnows(g)'
    BY <1>8, <1>13, <2>2 DEF DetachKnows, MoveSteps, Restoring, Restoral
  <2>4. QED
    BY <1>3, <1>8, <2>1, <2>3 DEF CallOK, DetachOps
<1>15. UNCHANGED <<target, maker, stage, linked, quarantine, adoption, snapshot, touched, resumed>>
  BY <1>2 DEF files
<1>16. QED
  BY <1>3, <1>5, <1>6, <1>9, <1>14, <1>15, DetachSaves

-----------------------------------------------------------------------------
(* The undo of a detach.                                                     *)

\* The next entry down, or the end of the undo.
Back(h, k, b) == [op |-> h.op, tx |-> h.tx, journal |-> k,
                  pc |-> IF h.at = 1 THEN "closed" ELSE "restore",
                  at |-> IF h.at = 1 THEN 1 ELSE h.at - 1, hit |-> h.hit, blocked |-> b]
Blocks(h, state) == h.blocked \/ state = "RECOVERY_BLOCKED"

\* The call without what it met at this entry.
Unhit(h) == [h EXCEPT !.hit = FALSE]
SameCall(f, h) == f = h \/ f = Unhit(h)
WentBack(g, h, p, state, S) == \E f : /\ SameCall(f, h)
    /\ g = Back(f, WithMoved(h.journal, p, state, S), Blocks(h, state))

\* What the journal still counts as moved when an entry is settled.
Left(h, p, state) == IF state = "RESTORED" THEN h.journal.moved \ {p} ELSE h.journal.moved

LEMMA RestoredBack ==
    ASSUME NEW h, IsCall(h), NEW p, p = Order[h.at], NEW state, NEW S,
           S = Left(h, p, state)
    PROVE  Restored(h, state) = Back(h, WithMoved(h.journal, p, state, S), Blocks(h, state))
<1>1. PICK k : k = WithMoved(h.journal, p, state, S)
  OBVIOUS
<1>2. PICK c : c = Blocks(h, state)
  OBVIOUS
<1>3. PICK b : b = [h EXCEPT !.blocked = @ \/ state = "RECOVERY_BLOCKED",
                       !.journal.entry[p] = state,
                       !.journal.moved = IF state = "RESTORED" THEN @ \ {p} ELSE @]
  OBVIOUS
<1>4. b = [h EXCEPT !.blocked = c, !.journal = k]
  BY <1>1, <1>2, <1>3 DEF WithMoved, Blocks, Left, IsCall
<1>5. b = [op |-> h.op, tx |-> h.tx, journal |-> k, pc |-> h.pc, at |-> h.at,
           hit |-> h.hit, blocked |-> c]
  BY <1>4 DEF IsCall
<1>6. Restored(h, state) = IF h.at = 1 THEN [b EXCEPT !.pc = "closed"]
                           ELSE [b EXCEPT !.pc = "restore", !.at = @ - 1]
  BY <1>3 DEF Restored
<1>7. Restored(h, state) = Back(h, k, c)
  BY <1>5, <1>6 DEF Back
<1>8. QED
  BY <1>1, <1>2, <1>7

\* What a recovery knows of its call.
LEMMA RestoreFacts ==
    ASSUME Calm, StatusInv, NEW w \in Process, NEW pc \in Restoring, At(w, DetachOps, pc)
    PROVE  /\ Busy(w) /\ held[w].op \in DetachOps /\ held[w].pc = pc
           /\ IsCall(held[w]) /\ CallTypes(held[w]) /\ RestoreKnows(held[w])
           /\ held[w].tx \in DOMAIN detach /\ held[w].journal \in DetachJournal
           /\ detach[held[w].tx] \in DetachJournal
           /\ DetachShape(held[w].journal, held[w].tx)
           /\ DetachOK(held[w].tx) /\ Here(w) \in Path /\ Here(w) = Order[held[w].at]
<1>1. Busy(w) /\ held[w].op \in DetachOps /\ held[w].pc = pc
  BY DEF At
<1>2. DetachKnows(held[w])
  BY <1>1, DetachFacts
<1>3. QED
  BY <1>1, <1>2, DetachFacts DEF DetachKnows

\* At most the file that a detach took from a path is given back, or its copy is dropped.
GivesBack(d, p) ==
    /\ UNCHANGED <<stage, linked, adoption, detach, snapshot, touched, resumed>>
    /\ target' \in [Path -> Bytes] /\ maker' = [q \in Path |-> maker'[q]] /\ MakersOK'
    /\ \A q \in Path : maker'[q] \in {maker[q], Consumer, d.adoption}
    /\ \A q \in Path : target'[q] # target[q] => q = p /\ p \in Leaves(d)
    /\ DOMAIN quarantine' \subseteq DOMAIN quarantine \cup {d}
    /\ \A e, q : q \in Path => (Quarantine(e, q)' = Quarantine(e, q)
                                 \/ (e = d /\ q = p /\ Quarantine(e, q)' = "absent"))

LEMMA GivenBack ==
    ASSUME Calm, StatusInv, OneOperator, NEW w \in Process, NEW d \in DOMAIN detach, NEW p,
           GivesBack(d, p),
           p \in Leaves(d) \ touched =>
              \/ target'[p] = "source" \/ \E e \in DOMAIN detach \ {d} : MovedBy(e, p)
              \/ Quarantine(d, p)' = "source" \/ detach[d].entry[p] \in TakenEntry,
           NEW g, held' = [held EXCEPT ![w] = g], CallOK(g)'
    PROVE  StatusInv'
<1>1. PICK l : l = detach[d]
  OBVIOUS
<1>2. l \in DetachJournal /\ detach' = Put(detach, d, l)
  <2>1. detach = [detach EXCEPT ![d] = l]
    BY <1>1 DEF StatusInv, FilesTyped
  <2>2. [detach EXCEPT ![d] = l] = Put(detach, d, l)
    BY PutSame
  <2>3. QED
    BY <1>1, <2>1, <2>2 DEF GivesBack, StatusInv, FilesTyped
<1>3. DetachOK(d)
  BY DEF StatusInv
<1>4. /\ d.adoption \in DOMAIN adoption /\ adoption[d.adoption].status = "COMMITTED"
      /\ MovesPlanned(l)
      /\ \A q \in Path : Quarantine(d, q)' # "absent" =>
            /\ q \in Leaves(d) /\ Quarantine(d, q)' \in Bytes
            /\ (q \in touched \/ Quarantine(d, q)' = "source")
  BY <1>1, <1>3 DEF DetachOK, GivesBack
<1>5. DetachShape(l, d)'
  BY <1>1, <1>3 DEF DetachOK, DetachShape, GivesBack
<1>6. ASSUME NEW q \in Leaves(d) \ touched
      PROVE  \/ target'[q] = "source"
             \/ Quarantine(d, q)' = "source" \/ l.entry[q] \in TakenEntry
             \/ \E e \in DOMAIN detach \ {d} : MovedBy(e, q)
  <2>1. q \in Path
    BY DEF Leaves, Removable
  <2>2. CASE q = p
    BY <1>1, <1>6, <2>2
  <2>3. CASE q # p
    <3>1. target'[q] = target[q] /\ Quarantine(d, q)' = Quarantine(d, q)
      BY <2>1, <2>3 DEF GivesBack
    <3>2. QED
      BY <1>1, <3>1, LeavesAccounted
  <2>4. QED
    BY <2>2, <2>3
<1>7. /\ \A q \in Path \ touched : target'[q] # target[q] => q \in Leaves(d)
      /\ \A e, q : e # d /\ q \in Path => Quarantine(e, q)' = Quarantine(e, q)
      /\ \A u \in DOMAIN adoption, q \in Path :
              (Linked(u, q)' <=> Linked(u, q)) \/ maker'[q] = Consumer
      /\ UNCHANGED <<stage, adoption, snapshot, touched, resumed>>
      /\ \A q \in Path : maker'[q] \in {maker[q], Consumer, d.adoption}
      /\ target' \in [Path -> Bytes] /\ maker' = [q \in Path |-> maker'[q]] /\ MakersOK'
      /\ DOMAIN quarantine' \subseteq DOMAIN quarantine \cup {d}
  BY DEF Linked, GivesBack
<1>8. QED
  BY <1>2, <1>4, <1>5, <1>6, <1>7, DetachWrites

\* An entry of the undo is settled, and its file and its copy are as they should be.
LEMMA RestoreWrites ==
    ASSUME Calm, StatusInv, OneOperator, NEW w \in Process, NEW pc \in Restoring,
           At(w, DetachOps, pc), NEW d, d = held[w].tx, NEW p, p = Here(w),
           GivesBack(d, p),
           NEW state \in DetachEntry, NEW S \in SUBSET Path,
           S \in {held[w].journal.moved, held[w].journal.moved \ {p}},
           Quarantine(d, p)' # "absent" => p \in S /\ state # "RESTORED",
           p \in Leaves(d) => state \in {"RESTORED", "RECOVERY_BLOCKED"},
           p \notin Leaves(d) => state = held[w].journal.entry[p],
           p \in Leaves(d) \ touched =>
              \/ target'[p] = "source" \/ \E e \in DOMAIN detach \ {d} : MovedBy(e, p)
              \/ /\ state = "RECOVERY_BLOCKED"
                 /\ Quarantine(d, p)' = "source" \/ detach[d].entry[p] \in TakenEntry,
           NEW g, WentBack(g, held[w], p, state, S), held' = [held EXCEPT ![w] = g]
    PROVE  StatusInv'
<1>1. PICK h, j, k : h = held[w] /\ j = h.journal /\ k = WithMoved(j, p, state, S)
  OBVIOUS
<1>2. /\ h.pc = pc /\ h.op \in DetachOps /\ CallTypes(h) /\ RestoreKnows(h) /\ j \in DetachJournal
      /\ DetachShape(j, d) /\ d \in DOMAIN detach /\ detach[d] \in DetachJournal
      /\ DetachOK(d) /\ p \in Path /\ p = Order[h.at]
  BY <1>1, RestoreFacts
<1>3. /\ k \in DetachJournal /\ k.status = j.status /\ k.moved = S
      /\ k.entry[p] = state /\ \A q \in Path : q # p => k.entry[q] = j.entry[q]
  BY <1>1, <1>2, MovedFile
<1>4. /\ g.op = h.op /\ g.tx = d /\ g.journal = k /\ g.hit \in BOOLEAN /\ g.blocked = Blocks(h, state)
      /\ g.pc = IF h.at = 1 THEN "closed" ELSE "restore"
      /\ g.at = IF h.at = 1 THEN 1 ELSE h.at - 1
  <2>1. IsCall(h) /\ h.hit \in BOOLEAN
    BY <1>1, RestoreFacts DEF CallTypes
  <2>2. PICK f : /\ SameCall(f, h)
                 /\ g = Back(f, WithMoved(h.journal, p, state, S), Blocks(h, state))
    BY <1>1 DEF WentBack
  <2>3. f.op = h.op /\ f.tx = h.tx /\ f.at = h.at /\ f.hit \in BOOLEAN
    BY <2>1, <2>2 DEF SameCall, Unhit, IsCall
  <2>4. QED
    BY <1>1, <2>2, <2>3 DEF Back
<1>5. /\ g.at \in DOMAIN Order /\ g.blocked \in BOOLEAN /\ g.pc \in {"restore", "closed"}
      /\ \A i \in DOMAIN Order : i > g.at \/ g.pc = "closed" => i = h.at \/ i > h.at
      /\ ~g.blocked => ~h.blocked /\ state # "RECOVERY_BLOCKED"
  <2>1. /\ h.at \in 1..Len(Order) /\ Len(Order) \in Nat /\ DOMAIN Order = 1..Len(Order)
        /\ h.blocked \in BOOLEAN
    BY <1>2, SurfaceAssumption DEF CallTypes
  <2>2. g.blocked \in BOOLEAN /\ (~g.blocked => ~h.blocked /\ state # "RECOVERY_BLOCKED")
    BY <1>4, <2>1 DEF Blocks
  <2>3. /\ g.at \in DOMAIN Order /\ g.pc \in {"restore", "closed"}
        /\ \A i \in DOMAIN Order : i > g.at \/ g.pc = "closed" => i = h.at \/ i > h.at
    BY <1>4, <2>1
  <2>4. QED
    BY <2>2, <2>3
<1>6. j.status # "ROLLED_BACK" /\ \A q \in Path : j.entry[q] = "PENDING" => detach[d].entry[q] = "PENDING"
  BY <1>1, <1>2 DEF RestoreKnows, Restoral
<1>7. DetachShape(k, d)'
  <2>1. /\ \A q \in Path : Quarantine(d, q)' # "absent" => Quarantine(d, q) # "absent"
        /\ \A q \in Path : q # p => Quarantine(d, q)' = Quarantine(d, q)
    BY DEF GivesBack
  <2>2. /\ S \in {j.moved, j.moved \ {p}}
        /\ p \notin Leaves(d) => state = j.entry[p]
    BY <1>1
  <2>3. /\ k.entry[p] \notin {"ALREADY_ABSENT", "PRESERVED"} => p \in Leaves(d)
        /\ k.entry[p] = "RESTORED" => Quarantine(d, p)' = "absent"
        /\ Quarantine(d, p)' # "absent" => p \in k.moved
    BY <1>2, <1>3, <2>2 DEF DetachShape
  <2>4. ASSUME NEW q \in Path, q # p
        PROVE  /\ k.entry[q] \notin {"ALREADY_ABSENT", "PRESERVED"} => q \in Leaves(d)
               /\ k.entry[q] = "RESTORED" => Quarantine(d, q)' = "absent"
               /\ Quarantine(d, q)' # "absent" => q \in k.moved
    BY <1>2, <1>3, <2>1, <2>2, <2>4 DEF DetachShape
  <2>5. k.status = "PLANNED" => k.moved = {}
    BY <1>2, <1>3, <2>2 DEF DetachShape
  <2>6. QED
    BY <1>3, <1>6, <2>3, <2>4, <2>5 DEF DetachShape
<1>8. \A e \in DOMAIN detach, q \in Path : e # d => (MovedBy(e, q)' <=> MovedBy(e, q))
  BY DEF MovedBy, GivesBack
<1>9. RestoreKnows(g)'
  <2>1. \A q \in Path : k.entry[q] = "PENDING" => detach'[d].entry[q] = "PENDING"
    BY <1>1, <1>2, <1>3, <1>6 DEF GivesBack
  <2>2. ASSUME NEW q \in Leaves(d) \ touched, k.entry[q] = "RESTORED"
        PROVE  target'[q] = "source" \/ \E e \in DOMAIN detach' \ {d} : MovedBy(e, q)'
    <3>1. q \in Path
      BY DEF Leaves, Removable
    <3>2. target'[q] = "source" \/ \E e \in DOMAIN detach \ {d} : MovedBy(e, q)
      <4>1. CASE q = p
        BY <1>3, <2>2, <4>1
      <4>2. CASE q # p
        BY <1>1, <1>2, <1>3, <2>2, <3>1, <4>2 DEF RestoreKnows, Restoral, GivesBack
      <4>3. QED
        BY <4>1, <4>2
    <3>3. QED
      BY <1>8, <3>1, <3>2 DEF GivesBack
  <2>3. ASSUME NEW i \in DOMAIN Order, i > g.at \/ g.pc = "closed", Order[i] \in Leaves(d)
        PROVE  /\ k.entry[Order[i]] \in {"RESTORED", "RECOVERY_BLOCKED"}
               /\ ~g.blocked => k.entry[Order[i]] = "RESTORED"
    <3>1. Order[i] \in Path /\ (i = h.at \/ i > h.at)
      BY <1>5, <2>3 DEF Path
    <3>2. CASE Order[i] = p
      BY <1>3, <1>5, <2>3, <3>2
    <3>3. CASE Order[i] # p
      <4>1. i > h.at
        BY <1>2, <3>1, <3>3
      <4>2. /\ j.entry[Order[i]] \in {"RESTORED", "RECOVERY_BLOCKED"}
            /\ ~h.blocked => j.entry[Order[i]] = "RESTORED"
        BY <1>1, <1>2, <2>3, <4>1 DEF RestoreKnows, Restoral
      <4>3. QED
        BY <1>3, <1>5, <3>1, <3>3, <4>2
    <3>4. QED
      BY <3>2, <3>3
  <2>4. g.pc \notin Restoral
    BY <1>5 DEF Restoral
  <2>5. QED
    BY <1>3, <1>4, <1>6, <2>1, <2>2, <2>3, <2>4 DEF RestoreKnows, Restoral, GivesBack
<1>10. CallOK(g)'
  <2>1. CallTypes(g)'
    BY <1>2, <1>3, <1>4, <1>5 DEF CallTypes, GivesBack
  <2>2. DetachKnows(g)'
    BY <1>4, <1>5, <1>7, <1>9 DEF DetachKnows, MoveSteps, Restoring, Restoral
  <2>3. QED
    BY <1>2, <1>4, <2>1, <2>2 DEF CallOK, DetachOps
<1>11. p \in Leaves(d) \ touched =>
          \/ target'[p] = "source" \/ \E e \in DOMAIN detach \ {d} : MovedBy(e, p)
          \/ Quarantine(d, p)' = "source" \/ detach[d].entry[p] \in TakenEntry
  OBVIOUS
<1>12. QED
  BY <1>2, <1>10, <1>11, GivenBack

LEMMA SettleBack ==
    ASSUME NEW h, IsCall(h), NEW f, SameCall(f, h), NEW p, p = Order[h.at], NEW state,
           NEW S, S = Left(h, p, state)
    PROVE  Restored(f, state) = Back(f, WithMoved(h.journal, p, state, S), Blocks(h, state))
<1>1. IsCall(f) /\ f.at = h.at /\ f.journal = h.journal /\ f.blocked = h.blocked
  BY DEF SameCall, Unhit, IsCall
<1>2. p = Order[f.at] /\ S = Left(f, p, state)
  BY <1>1 DEF Left
<1>3. Restored(f, state) = Back(f, WithMoved(f.journal, p, state, S), Blocks(f, state))
  BY <1>1, <1>2, RestoredBack
<1>4. QED
  BY <1>1, <1>3 DEF Blocks

LEMMA NothingGiven ==
    ASSUME StatusInv, NEW d, NEW p,
           UNCHANGED <<target, maker, stage, linked, quarantine, adoption, detach, snapshot,
                       touched, resumed>>
    PROVE  GivesBack(d, p)
<1>1. target' \in [Path -> Bytes] /\ maker' = [q \in Path |-> maker'[q]] /\ MakersOK'
  BY FilesKept
<1>2. \A e, q : Quarantine(e, q)' = Quarantine(e, q)
  BY DEF Quarantine
<1>3. /\ \A q \in Path : maker'[q] \in {maker[q], Consumer, d.adoption}
      /\ \A q \in Path : target'[q] # target[q] => q = p /\ p \in Leaves(d)
      /\ DOMAIN quarantine' \subseteq DOMAIN quarantine \cup {d}
      /\ UNCHANGED <<stage, linked, adoption, detach, snapshot, touched, resumed>>
  OBVIOUS
<1>4. \A e, q : q \in Path => (Quarantine(e, q)' = Quarantine(e, q)
                                 \/ (e = d /\ q = p /\ Quarantine(e, q)' = "absent"))
  BY <1>2
<1>5. QED
  BY <1>1, <1>3, <1>4 DEF GivesBack

\* An entry is settled while the disk stays as it is.
LEMMA KeptBack ==
    ASSUME Calm, StatusInv, OneOperator, NEW w \in Process, NEW pc \in Restoring,
           At(w, DetachOps, pc), NEW d, d = held[w].tx, NEW p, p = Here(w),
           UNCHANGED <<target, maker, stage, linked, quarantine, adoption, detach, snapshot,
                       touched, resumed>>,
           NEW state \in DetachEntry,
           NEW S, S = Left(held[w], p, state), NEW g, WentBack(g, held[w], p, state, S),
           held' = [held EXCEPT ![w] = g],
           p \in Leaves(d) => state \in {"RESTORED", "RECOVERY_BLOCKED"},
           p \notin Leaves(d) => state = held[w].journal.entry[p],
           state = "RESTORED" => Quarantine(d, p) = "absent",
           p \in Leaves(d) \ touched /\ state = "RESTORED" =>
              target[p] = "source" \/ \E e \in DOMAIN detach \ {d} : MovedBy(e, p)
    PROVE  StatusInv'
<1>1. PICK h, j : h = held[w] /\ j = h.journal
  OBVIOUS
<1>2. /\ Busy(w) /\ j \in DetachJournal /\ DetachShape(j, d) /\ d \in DOMAIN detach /\ p \in Path
  BY <1>1, RestoreFacts
<1>3. S \in SUBSET Path /\ S \in {held[w].journal.moved, held[w].journal.moved \ {p}}
  BY <1>1, <1>2 DEF DetachJournal, Left
<1>4. GivesBack(d, p)
  BY NothingGiven
<1>5. target' = target /\ Quarantine(d, p)' = Quarantine(d, p)
  BY DEF Quarantine
<1>6. Quarantine(d, p)' # "absent" => p \in S /\ state # "RESTORED"
  BY <1>1, <1>2, <1>5 DEF DetachShape, Left
<1>7. p \in Leaves(d) \ touched =>
          \/ target'[p] = "source" \/ \E e \in DOMAIN detach \ {d} : MovedBy(e, p)
          \/ /\ state = "RECOVERY_BLOCKED"
             /\ Quarantine(d, p)' = "source" \/ detach[d].entry[p] \in TakenEntry
  BY <1>2, <1>5, LeavesAccounted
<1>8. QED
  BY <1>3, <1>4, <1>6, <1>7, RestoreWrites

LEMMA SettleKeeps ==
    ASSUME Calm, StatusInv, OneOperator, NEW w \in Process, NEW pc \in Restoring,
           At(w, DetachOps, pc), NEW d, d = held[w].tx, NEW p, p = Here(w),
           UNCHANGED <<target, maker, stage, linked, quarantine, adoption, detach, snapshot,
                       touched, resumed>>,
           NEW state \in DetachEntry,
           NEW f, SameCall(f, held[w]), held' = [held EXCEPT ![w] = Restored(f, state)],
           p \in Leaves(d) => state \in {"RESTORED", "RECOVERY_BLOCKED"},
           p \notin Leaves(d) => state = held[w].journal.entry[p],
           state = "RESTORED" => Quarantine(d, p) = "absent",
           p \in Leaves(d) \ touched /\ state = "RESTORED" =>
              target[p] = "source" \/ \E e \in DOMAIN detach \ {d} : MovedBy(e, p)
    PROVE  StatusInv'
<1>1. PICK h, S : h = held[w] /\ S = Left(h, p, state)
  OBVIOUS
<1>2. IsCall(h) /\ p = Order[h.at]
  BY <1>1, RestoreFacts
<1>3. WentBack(Restored(f, state), held[w], p, state, S)
  <2>1. Restored(f, state) = Back(f, WithMoved(h.journal, p, state, S), Blocks(h, state))
    BY <1>1, <1>2, SettleBack
  <2>2. QED
    BY <1>1, <2>1 DEF WentBack
<1>4. S = Left(held[w], p, state)
  BY <1>1
<1>5. QED
  BY <1>3, <1>4, KeptBack

LEMMA RestoreNothingStatus ==
    ASSUME Calm, StatusInv, OneOperator, NEW w \in Process, RestoreNothing(w) PROVE StatusInv'
<1>1. PICK d, j, p, state : /\ d = held[w].tx /\ j = held[w].journal /\ p = Here(w)
                            /\ state = j.entry[p]
  OBVIOUS
<1>2. /\ At(w, DetachOps, "restore") /\ "restore" \in Restoring /\ p \notin Leaves(d)
      /\ Settle(w, state)
      /\ UNCHANGED <<target, maker, stage, linked, quarantine, adoption, detach, snapshot,
                     touched, resumed>>
  BY <1>1 DEF RestoreNothing, Restoring, Restoral, files, NoSave, disk, environment, history
<1>3. j \in DetachJournal /\ DetachShape(j, d) /\ p \in Path
  BY <1>1, <1>2, RestoreFacts
<1>4. state \in DetachEntry /\ (state = "RESTORED" => Quarantine(d, p) = "absent")
  BY <1>1, <1>3 DEF DetachJournal, DetachShape
<1>5. PICK f : f = held[w] /\ SameCall(f, held[w])
  BY DEF SameCall
<1>6. held' = [held EXCEPT ![w] = Restored(f, state)]
  BY <1>2, <1>5 DEF Settle
<1>7. QED
  BY <1>1, <1>2, <1>4, <1>5, <1>6, SettleKeeps

LEMMA LookBackStatus ==
    ASSUME Calm, StatusInv, OneOperator, NEW w \in Process, LookBack(w) PROVE StatusInv'
<1>1. PICK h, d, j, p : h = held[w] /\ d = h.tx /\ j = h.journal /\ p = Here(w)
  OBVIOUS
<1>2. PICK here, reach : here = InQuarantine(w, p) /\ reach = (p \in Nested => directory)
  OBVIOUS
<1>3. PICK next : next = CASE here /\ target[p] = "absent" /\ reach               -> "return"
                  [] here /\ target[p] = "source" /\ Quarantine(d, p) = "source"         -> "drop"
                  [] ~here /\ target[p] = "absent" /\ reach
                           /\ j.entry[p] \in MovedOnce            -> "restage"
                  [] OTHER                                                -> "none"
  OBVIOUS
<1>4. PICK fine : fine = (~here /\ (target[p] = "source"
                          \/ (target[p] = "absent" /\ j.entry[p] = "PENDING")))
  OBVIOUS
<1>5. /\ At(w, DetachOps, "restore") /\ "restore" \in Restoring /\ p \in Leaves(d) /\ Busy(w)
      /\ IF next # "none" THEN Goto(w, next)
         ELSE Settle(w, IF fine THEN "RESTORED" ELSE "RECOVERY_BLOCKED")
      /\ UNCHANGED <<target, maker, stage, linked, quarantine, adoption, detach, snapshot,
                     touched, resumed>>
  BY <1>1, <1>2, <1>3, <1>4 DEF LookBack, Restore, Restoring, Restoral, files, NoSave, disk, environment, history, At
<1>6. /\ h.pc = "restore" /\ h.op \in DetachOps /\ CallTypes(h) /\ RestoreKnows(h)
      /\ j \in DetachJournal /\ DetachShape(j, d) /\ d \in DOMAIN detach /\ DetachOK(d)
      /\ p \in Path /\ p = Order[h.at]
  BY <1>1, <1>5, RestoreFacts
<1>7. here <=> Quarantine(d, p) # "absent"
  BY <1>1, <1>2, <1>6 DEF InQuarantine, DetachShape
<1>8. CASE next # "none"
  <2>1. PICK g : g = Turned(h, next)
    OBVIOUS
  <2>2. held' = [held EXCEPT ![w] = g]
    BY <1>1, <1>5, <1>8, <2>1, GotoTurned
  <2>3. /\ g.op = h.op /\ g.tx = d /\ g.journal = j /\ g.pc = next /\ g.at = h.at
        /\ g.hit = h.hit /\ g.blocked = h.blocked
    BY <1>1, <2>1 DEF Turned, Saved
  <2>4. /\ next \in {"return", "drop", "restage"}
        /\ next = "return" => here
        /\ next = "drop" => target[p] = "source"
        /\ next = "restage" => ~here
    BY <1>3, <1>8
  <2>5. Quarantine(d, p) # "absent" => p \in touched \/ Quarantine(d, p) = "source"
    BY <1>6 DEF DetachOK
  <2>6. RestoreKnows(g)
    BY <1>1, <1>5, <1>6, <1>7, <2>3, <2>4, <2>5 DEF RestoreKnows, Restoral
  <2>7. CallTypes(g)
    BY <1>1, <1>6, <2>3 DEF CallTypes
  <2>8. DetachKnows(g)
    BY <1>6, <2>3, <2>4, <2>6 DEF DetachKnows, MoveSteps, Restoring, Restoral
  <2>9. CallOK(g)
    BY <1>6, <2>3, <2>7, <2>8 DEF CallOK, DetachOps
  <2>10. QED
    BY <1>5, <2>2, <2>9, TurnKeeps
<1>9. CASE next = "none"
  <2>1. PICK state : state = IF fine THEN "RESTORED" ELSE "RECOVERY_BLOCKED"
    OBVIOUS
  <2>2. state \in DetachEntry /\ state \in {"RESTORED", "RECOVERY_BLOCKED"} /\ Settle(w, state)
    BY <1>5, <1>9, <2>1 DEF DetachEntry
  <2>3. state = "RESTORED" => fine
    BY <2>1
  <2>4. state = "RESTORED" => Quarantine(d, p) = "absent"
    BY <1>4, <1>7, <2>3
  <2>5. p \in Leaves(d) \ touched /\ state = "RESTORED" =>
           target[p] = "source" \/ \E e \in DOMAIN detach \ {d} : MovedBy(e, p)
    <3>1. SUFFICES ASSUME p \in Leaves(d) \ touched, j.entry[p] = "PENDING", state = "RESTORED"
                   PROVE  target[p] = "source" \/ \E e \in DOMAIN detach \ {d} : MovedBy(e, p)
      BY <1>4, <2>3
    <3>2. detach[d].entry[p] = "PENDING"
      BY <1>1, <1>6, <3>1 DEF RestoreKnows, Restoral
    <3>3. QED
      BY <1>6, <2>4, <3>1, <3>2, LeavesAccounted DEF TakenEntry
  <2>6. PICK f : f = held[w] /\ SameCall(f, held[w])
    BY DEF SameCall
  <2>7. held' = [held EXCEPT ![w] = Restored(f, state)]
    BY <2>2, <2>6 DEF Settle
  <2>8. QED
    BY <1>1, <1>5, <2>2, <2>4, <2>5, <2>6, <2>7, SettleKeeps
<1>10. QED
  BY <1>8, <1>9

LEMMA RestoreCallFailsStatus ==
    ASSUME Calm, StatusInv, OneOperator, NEW w \in Process, RestoreCallFails(w) PROVE StatusInv'
<1>1. PICK h, d, p, pc : h = held[w] /\ d = h.tx /\ p = Here(w) /\ pc = h.pc
  OBVIOUS
<1>2. PICK state \in DetachEntry :
         state = IF pc = "clear" /\ ~h.hit /\ target[p] = "source" THEN "RESTORED"
                 ELSE "RECOVERY_BLOCKED"
  BY DEF DetachEntry
<1>3. /\ Busy(w) /\ pc \in {"return", "drop", "relink", "clear"}
      /\ held' = [held EXCEPT ![w] = IF pc = "relink" THEN [h EXCEPT !.pc = "clear", !.hit = TRUE]
                                     ELSE Restored(Unhit(h), state)]
      /\ UNCHANGED <<target, maker, stage, linked, quarantine, adoption, detach, snapshot,
                     touched, resumed>>
  BY <1>1, <1>2 DEF RestoreCallFails, Unhit, files, disk, history
<1>4. h.op \in DetachOps
  <2>1. CallOK(h)
    BY <1>1, <1>3 DEF StatusInv, KnowsOK
  <2>2. h.op \in {"apply", "recover"} => AdoptionKnows(h)
    BY <2>1 DEF CallOK
  <2>3. h.op \notin {"apply", "recover"}
    BY <1>1, <1>3, <2>2 DEF AdoptionKnows, ApplySteps, UndoSteps
  <2>4. QED
    BY <2>1, <2>3 DEF CallOK, CallTypes
<1>5. At(w, DetachOps, pc) /\ pc \in Restoring
  BY <1>1, <1>3, <1>4 DEF At, Restoring, Restoral
<1>6. /\ IsCall(h) /\ RestoreKnows(h) /\ h.pc = pc /\ CallTypes(h) /\ p = Order[h.at]
      /\ h.journal \in DetachJournal /\ DetachShape(h.journal, d) /\ d \in DOMAIN detach
  BY <1>1, <1>5, RestoreFacts
<1>7. p \in Leaves(d) /\ (pc \in {"relink", "clear"} => Quarantine(d, p) = "absent")
  BY <1>1, <1>3, <1>6 DEF RestoreKnows, Restoral
<1>8. CASE pc = "relink"
  <2>1. PICK g : g = [h EXCEPT !.pc = "clear", !.hit = TRUE]
    OBVIOUS
  <2>2. g = [op |-> h.op, tx |-> d, journal |-> h.journal, pc |-> "clear", at |-> h.at,
             hit |-> TRUE, blocked |-> h.blocked]
    BY <1>1, <1>6, <2>1 DEF IsCall
  <2>3. RestoreKnows(g)
    BY <1>1, <1>6, <1>7, <1>8, <2>2 DEF RestoreKnows, Restoral
  <2>4. CallOK(g)
    <3>1. CallTypes(g)
      BY <1>4, <1>6, <2>2 DEF CallTypes
    <3>2. DetachKnows(g)
      BY <1>6, <2>2, <2>3 DEF DetachKnows, MoveSteps, Restoring, Restoral
    <3>3. QED
      BY <1>4, <2>2, <3>1, <3>2 DEF CallOK, DetachOps
  <2>5. held' = [held EXCEPT ![w] = g]
    BY <1>3, <1>8, <2>1
  <2>6. QED
    BY <1>3, <2>4, <2>5, TurnKeeps
<1>9. CASE pc # "relink"
  <2>1. PICK f : f = Unhit(h) /\ SameCall(f, held[w])
    BY <1>1 DEF SameCall
  <2>2. held' = [held EXCEPT ![w] = Restored(f, state)]
    BY <1>3, <1>9, <2>1
  <2>3. /\ state \in {"RESTORED", "RECOVERY_BLOCKED"}
        /\ state = "RESTORED" => Quarantine(d, p) = "absent" /\ target[p] = "source"
    BY <1>2, <1>7
  <2>4. QED
    BY <1>1, <1>3, <1>5, <1>7, <2>1, <2>2, <2>3, SettleKeeps, ZenonT(60)
<1>10. QED
  BY <1>8, <1>9

\* A file of the package is put where a detach took one: it is its adoption's again.
LEMMA PutBackFacts ==
    ASSUME StatusInv, NEW d \in DOMAIN detach, NEW p \in Leaves(d), adoption' = adoption,
           target' = [target EXCEPT ![p] = "source"], maker' = [maker EXCEPT ![p] = d.adoption]
    PROVE  /\ target' \in [Path -> Bytes] /\ maker' = [q \in Path |-> maker'[q]] /\ MakersOK'
           /\ \A q \in Path : maker'[q] \in {maker[q], Consumer, d.adoption}
           /\ \A q \in Path : target'[q] # target[q] => q = p /\ p \in Leaves(d)
           /\ target'[p] = "source"
<1>1. /\ target \in [Path -> Bytes] /\ maker = [q \in Path |-> maker[q]] /\ MakersOK /\ DetachOK(d)
  BY DEF StatusInv, FilesTyped
<1>2. p \in Path /\ d.adoption[p] = "CREATE_PLANNED" /\ d.adoption \in DOMAIN adoption
  BY <1>1 DEF DetachOK, Leaves, Removable
<1>3. target' \in [Path -> Bytes] /\ maker' = [q \in Path |-> maker'[q]]
  BY <1>1 DEF Bytes
<1>4. /\ target'[p] = "source" /\ maker'[p] = d.adoption
      /\ \A q \in Path : q # p => target'[q] = target[q] /\ maker'[q] = maker[q]
  BY <1>1, <1>2
<1>5. MakersOK'
  BY <1>1, <1>2, <1>4 DEF MakersOK
<1>6. QED
  BY <1>3, <1>4, <1>5

LEMMA ReturnFileStatus ==
    ASSUME Calm, StatusInv, OneOperator, NEW w \in Process, ReturnFile(w) PROVE StatusInv'
<1>1. PICK h, d, j, p : h = held[w] /\ d = h.tx /\ j = h.journal /\ p = Here(w)
  OBVIOUS
<1>2. At(w, DetachOps, "return") /\ "return" \in Restoring
  BY DEF ReturnFile, Restoring, Restoral
<1>3. /\ IsCall(h) /\ RestoreKnows(h) /\ h.pc = "return" /\ j \in DetachJournal /\ d \in DOMAIN detach
      /\ p \in Path /\ p = Order[h.at] /\ DetachShape(j, d) /\ DetachOK(d)
  BY <1>1, <1>2, RestoreFacts
<1>4. PICK q : q = Quarantine(d, p)
  OBVIOUS
<1>5. p \in Leaves(d) /\ (p \in touched \/ q = "source")
  BY <1>1, <1>3, <1>4 DEF RestoreKnows, Restoral
<1>6. PICK state \in DetachEntry : state = IF q = "source" THEN "RESTORED" ELSE "RECOVERY_BLOCKED"
  BY DEF DetachEntry
<1>7. /\ target' = [target EXCEPT ![p] = q]
      /\ maker' = [maker EXCEPT ![p] = IF q = "source" THEN d.adoption ELSE Consumer]
      /\ Keep(d, p, "absent")
      /\ held' = [held EXCEPT ![w] = [Restored(h, state) EXCEPT !.journal.moved = @ \ {p}]]
      /\ UNCHANGED <<stage, linked, adoption, detach, snapshot, touched, resumed>>
  BY <1>1, <1>4, <1>6 DEF ReturnFile, NoSave, disk, environment, history
<1>8. /\ target' \in [Path -> Bytes] /\ maker' = [r \in Path |-> maker'[r]] /\ MakersOK'
      /\ \A r \in Path : maker'[r] \in {maker[r], Consumer, d.adoption}
      /\ \A r \in Path : target'[r] # target[r] => r = p /\ p \in Leaves(d)
      /\ q = "source" => target'[p] = "source"
  <2>1. CASE q = "source"
    BY <1>3, <1>5, <1>7, <2>1, PutBackFacts
  <2>2. CASE q # "source"
    <3>1. /\ target \in [Path -> Bytes] /\ maker = [r \in Path |-> maker[r]] /\ MakersOK
          /\ \A u \in DOMAIN adoption : u # Consumer
      BY ConsumerAssumption DEF StatusInv, FilesTyped
    <3>2. q \in Bytes
      BY <1>3, <1>4 DEF DetachOK, Bytes
    <3>3. target' \in [Path -> Bytes] /\ maker' = [r \in Path |-> maker'[r]]
      BY <1>7, <3>1, <3>2
    <3>4. /\ maker'[p] = Consumer
          /\ \A r \in Path : r # p => target'[r] = target[r] /\ maker'[r] = maker[r]
      BY <1>3, <1>7, <2>2, <3>1
    <3>5. MakersOK'
      BY <1>7, <3>1, <3>4 DEF MakersOK
    <3>6. QED
      BY <1>5, <2>2, <3>3, <3>4, <3>5
  <2>3. QED
    BY <2>1, <2>2
<1>9. \A e, r : r \in Path => Quarantine(e, r)' = IF e = d /\ r = p THEN "absent" ELSE Quarantine(e, r)
  BY <1>7, KeepFacts
<1>10. DOMAIN quarantine' \subseteq DOMAIN quarantine \cup {d}
  BY <1>7 DEF Keep, Put
<1>11. GivesBack(d, p)
  BY <1>7, <1>8, <1>9, <1>10 DEF GivesBack
<1>12. PICK S, M : S = j.moved \ {p} /\ M = Left(h, p, state)
  OBVIOUS
<1>13. PICK b : b = Blocks(h, state)
  OBVIOUS
<1>14. PICK k, m : k = WithMoved(j, p, state, S) /\ m = WithMoved(j, p, state, M)
  OBVIOUS
<1>15. Restored(h, state) = Back(h, m, b)
  <2>1. Restored(h, state) = Back(h, WithMoved(h.journal, p, state, M), Blocks(h, state))
    BY <1>3, <1>12, RestoredBack
  <2>2. QED
    BY <1>1, <1>13, <1>14, <2>1
<1>16. [m EXCEPT !.moved = @ \ {p}] = k
  BY <1>1, <1>3, <1>12, <1>14 DEF WithMoved, DetachJournal, Left
<1>17. [Back(h, m, b) EXCEPT !.journal.moved = @ \ {p}] = Back(h, k, b)
  <2>1. [Back(h, m, b) EXCEPT !.journal = [m EXCEPT !.moved = @ \ {p}]] = Back(h, k, b)
    BY <1>16 DEF Back
  <2>2. Back(h, m, b).journal = m
    BY DEF Back
  <2>3. QED
    BY <2>1, <2>2
<1>18. PICK g : g = Back(h, k, b)
  OBVIOUS
<1>19. held' = [held EXCEPT ![w] = g]
  BY <1>7, <1>15, <1>17, <1>18
<1>20. PICK f : f = h /\ SameCall(f, held[w])
  BY <1>1 DEF SameCall
<1>21. WentBack(g, held[w], p, state, S)
  BY <1>1, <1>13, <1>14, <1>18, <1>20 DEF WentBack
<1>22. S \in SUBSET Path /\ S \in {held[w].journal.moved, held[w].journal.moved \ {p}}
  BY <1>1, <1>3, <1>12 DEF DetachJournal
<1>23. Quarantine(d, p)' = "absent"
  BY <1>3, <1>9
<1>24. /\ Quarantine(d, p)' # "absent" => p \in S /\ state # "RESTORED"
       /\ p \in Leaves(d) => state \in {"RESTORED", "RECOVERY_BLOCKED"}
       /\ p \notin Leaves(d) => state = held[w].journal.entry[p]
       /\ p \in Leaves(d) \ touched =>
          \/ target'[p] = "source" \/ \E e \in DOMAIN detach \ {d} : MovedBy(e, p)
          \/ /\ state = "RECOVERY_BLOCKED"
             /\ Quarantine(d, p)' = "source" \/ detach[d].entry[p] \in TakenEntry
  BY <1>5, <1>6, <1>8, <1>23
<1>25. d = held[w].tx /\ p = Here(w)
  BY <1>1
<1>26. QED
  BY <1>2, <1>11, <1>19, <1>21, <1>22, <1>24, <1>25, RestoreWrites

\* A copy is dropped or a file linked again, and the entry settled.
LEMMA SettleWrites ==
    ASSUME Calm, StatusInv, OneOperator, NEW w \in Process, NEW pc \in Restoring,
           At(w, DetachOps, pc), NEW d, d = held[w].tx, NEW p, p = Here(w), p \in Leaves(d),
           GivesBack(d, p), Settle(w, "RESTORED"), Quarantine(d, p)' = "absent",
           p \in touched \/ target'[p] = "source"
    PROVE  StatusInv'
<1>1. PICK h, j : h = held[w] /\ j = h.journal
  OBVIOUS
<1>2. Busy(w) /\ IsCall(h) /\ p = Order[h.at] /\ j \in DetachJournal
  BY <1>1, RestoreFacts
<1>3. PICK S : S = j.moved \ {p}
  OBVIOUS
<1>4. S \in SUBSET Path /\ S \in {held[w].journal.moved, held[w].journal.moved \ {p}}
  BY <1>1, <1>2, <1>3 DEF DetachJournal
<1>5. PICK state \in DetachEntry : state = "RESTORED"
  BY DEF DetachEntry
<1>10. PICK f : f = held[w] /\ SameCall(f, held[w])
  BY DEF SameCall
<1>6. PICK g : g = Back(f, WithMoved(held[w].journal, p, state, S), Blocks(held[w], state))
  OBVIOUS
<1>7. held' = [held EXCEPT ![w] = g]
  <2>1. SameCall(f, h) /\ S = Left(h, p, state)
    BY <1>1, <1>3, <1>5, <1>10 DEF Left
  <2>2. held' = [held EXCEPT ![w] = Restored(f, state)]
    BY <1>5, <1>10 DEF Settle
  <2>3. Restored(f, state) = Back(f, WithMoved(h.journal, p, state, S), Blocks(h, state))
    BY <1>2, <2>1, SettleBack
  <2>4. QED
    BY <1>1, <1>6, <2>2, <2>3
<1>11. WentBack(g, held[w], p, state, S)
  BY <1>6, <1>10 DEF WentBack
<1>8. /\ Quarantine(d, p)' # "absent" => p \in S /\ state # "RESTORED"
      /\ p \in Leaves(d) => state \in {"RESTORED", "RECOVERY_BLOCKED"}
      /\ p \notin Leaves(d) => state = held[w].journal.entry[p]
      /\ p \in Leaves(d) \ touched =>
         \/ target'[p] = "source" \/ \E e \in DOMAIN detach \ {d} : MovedBy(e, p)
         \/ /\ state = "RECOVERY_BLOCKED"
            /\ Quarantine(d, p)' = "source" \/ detach[d].entry[p] \in TakenEntry
  BY <1>5
<1>9. QED
  BY <1>4, <1>7, <1>8, <1>11, RestoreWrites

LEMMA DropCopyStatus ==
    ASSUME Calm, StatusInv, OneOperator, NEW w \in Process, DropCopy(w) PROVE StatusInv'
<1>1. PICK h, d, p : h = held[w] /\ d = h.tx /\ p = Here(w)
  OBVIOUS
<1>2. /\ At(w, DetachOps, "drop") /\ "drop" \in Restoring /\ Keep(d, p, "absent")
      /\ Settle(w, "RESTORED")
      /\ UNCHANGED <<target, maker, stage, linked, adoption, detach, snapshot, touched, resumed>>
  BY <1>1 DEF DropCopy, Restoring, Restoral, NoSave, disk, environment, history
<1>3. RestoreKnows(h) /\ h.pc = "drop" /\ p \in Path /\ p = Order[h.at]
  BY <1>1, <1>2, RestoreFacts
<1>4. p \in Leaves(d) /\ (p \in touched \/ target[p] = "source")
  BY <1>1, <1>3 DEF RestoreKnows, Restoral
<1>5. \A e, q : q \in Path => Quarantine(e, q)' = IF e = d /\ q = p THEN "absent" ELSE Quarantine(e, q)
  BY <1>2, KeepFacts
<1>6. DOMAIN quarantine' \subseteq DOMAIN quarantine \cup {d}
  BY <1>2 DEF Keep, Put
<1>7. /\ target' \in [Path -> Bytes] /\ maker' = [q \in Path |-> maker'[q]] /\ MakersOK'
      /\ target' = target
  BY <1>2, FilesKept
<1>8. GivesBack(d, p)
  BY <1>2, <1>5, <1>6, <1>7 DEF GivesBack
<1>9. Quarantine(d, p)' = "absent" /\ (p \in touched \/ target'[p] = "source")
  BY <1>3, <1>4, <1>5, <1>7
<1>10. QED
  BY <1>1, <1>2, <1>4, <1>8, <1>9, SettleWrites

LEMMA RestageStatus ==
    ASSUME Calm, StatusInv, OneOperator, NEW w \in Process, Restage(w) PROVE StatusInv'
<1>1. PICK h, d, p : h = held[w] /\ d = h.tx /\ p = Here(w)
  OBVIOUS
<1>2. /\ At(w, DetachOps, "restage") /\ "restage" \in Restoring /\ Busy(w)
      /\ UNCHANGED <<target, maker, stage, linked, quarantine, adoption, detach, snapshot,
                     touched, resumed>>
  BY DEF Restage, At, Restoring, Restoral, NoSave, disk, environment, history
<1>3. /\ IsCall(h) /\ RestoreKnows(h) /\ h.pc = "restage" /\ p = Order[h.at] /\ CallTypes(h)
      /\ h.journal \in DetachJournal /\ DetachShape(h.journal, d) /\ h.op \in DetachOps
  BY <1>1, <1>2, RestoreFacts
<1>4. p \in Leaves(d) /\ Quarantine(d, p) = "absent"
  BY <1>1, <1>3 DEF RestoreKnows, Restoral
<1>5. PICK state \in DetachEntry :
         state = IF target[p] = "source" THEN "RESTORED" ELSE "RECOVERY_BLOCKED"
  BY DEF DetachEntry
<1>6. CASE Settle(w, state)
  <2>1. PICK f : f = held[w] /\ SameCall(f, held[w])
    BY DEF SameCall
  <2>2. held' = [held EXCEPT ![w] = Restored(f, state)]
    BY <1>6, <2>1 DEF Settle
  <2>3. /\ state \in {"RESTORED", "RECOVERY_BLOCKED"}
        /\ state = "RESTORED" => target[p] = "source"
    BY <1>5
  <2>4. QED
    BY <1>1, <1>2, <1>4, <2>1, <2>2, <2>3, SettleKeeps
<1>7. CASE Goto(w, "relink")
  <2>1. PICK g : g = Turned(h, "relink")
    OBVIOUS
  <2>2. held' = [held EXCEPT ![w] = g]
    BY <1>1, <1>2, <1>7, <2>1, GotoTurned
  <2>3. /\ g.op = h.op /\ g.tx = d /\ g.journal = h.journal /\ g.pc = "relink" /\ g.at = h.at
        /\ g.hit = h.hit /\ g.blocked = h.blocked
    BY <1>1, <2>1 DEF Turned, Saved
  <2>4. RestoreKnows(g)
    BY <1>1, <1>3, <1>4, <2>3 DEF RestoreKnows, Restoral
  <2>5. CallTypes(g)
    BY <1>1, <1>3, <2>3 DEF CallTypes
  <2>6. DetachKnows(g)
    BY <1>3, <2>3, <2>4 DEF DetachKnows, MoveSteps, Restoring, Restoral
  <2>7. CallOK(g)
    BY <1>3, <2>3, <2>5, <2>6 DEF CallOK, DetachOps
  <2>8. QED
    BY <1>2, <2>2, <2>7, TurnKeeps
<1>8. QED
  BY <1>1, <1>5, <1>6, <1>7 DEF Restage

LEMMA RelinkSourceStatus ==
    ASSUME Calm, StatusInv, OneOperator, NEW w \in Process, RelinkSource(w) PROVE StatusInv'
<1>1. PICK h, d, p : h = held[w] /\ d = h.tx /\ p = Here(w)
  OBVIOUS
<1>2. /\ At(w, DetachOps, "relink") /\ "relink" \in Restoring
      /\ UNCHANGED <<stage, linked, quarantine, adoption, detach, snapshot, touched, resumed>>
  BY DEF RelinkSource, Restoring, Restoral, NoSave, disk, environment, history
<1>3. /\ IsCall(h) /\ RestoreKnows(h) /\ h.pc = "relink" /\ p \in Path /\ p = Order[h.at]
      /\ d \in DOMAIN detach /\ CallTypes(h) /\ h.journal \in DetachJournal
      /\ DetachShape(h.journal, d) /\ h.op \in DetachOps
  BY <1>1, <1>2, RestoreFacts
<1>4. p \in Leaves(d) /\ Quarantine(d, p) = "absent"
  BY <1>1, <1>3 DEF RestoreKnows, Restoral
<1>5. PICK hit \in BOOLEAN : hit = (target[p] # "absent")
  OBVIOUS
<1>6. PICK g : g = [h EXCEPT !.pc = "clear", !.hit = hit]
  OBVIOUS
<1>7. g = [op |-> h.op, tx |-> d, journal |-> h.journal, pc |-> "clear", at |-> h.at,
           hit |-> hit, blocked |-> h.blocked]
  BY <1>1, <1>3, <1>6 DEF IsCall
<1>8. held' = [held EXCEPT ![w] = g]
  BY <1>1, <1>5, <1>6 DEF RelinkSource
<1>9. CASE target[p] = "absent"
  <2>1. target' = [target EXCEPT ![p] = "source"] /\ maker' = [maker EXCEPT ![p] = d.adoption]
    BY <1>1, <1>9 DEF RelinkSource
  <2>2. /\ target' \in [Path -> Bytes] /\ maker' = [q \in Path |-> maker'[q]] /\ MakersOK'
        /\ \A q \in Path : maker'[q] \in {maker[q], Consumer, d.adoption}
        /\ \A q \in Path : target'[q] # target[q] => q = p /\ p \in Leaves(d)
        /\ target'[p] = "source"
    BY <1>2, <1>3, <1>4, <2>1, PutBackFacts
  <2>3. \A e, q : Quarantine(e, q)' = Quarantine(e, q)
    BY <1>2 DEF Quarantine
  <2>4. GivesBack(d, p)
    BY <1>2, <2>2, <2>3 DEF GivesBack
  <2>5. RestoreKnows(g)'
    <3>1. \A q \in Leaves(d) : q \in Path /\ (target[q] = "source" => target'[q] = "source")
      <4>1. \A q \in Leaves(d) : q \in Path
        BY DEF Leaves, Removable
      <4>2. QED
        BY <1>9, <2>2, <4>1
    <3>2. \A e, q : MovedBy(e, q)' <=> MovedBy(e, q)
      BY <1>2, <2>3 DEF MovedBy
    <3>3. QED
      BY <1>1, <1>2, <1>3, <1>4, <1>7, <2>3, <3>1, <3>2 DEF RestoreKnows, Restoral
  <2>6. CallOK(g)'
    <3>1. CallTypes(g)'
      BY <1>2, <1>3, <1>7 DEF CallTypes
    <3>2. DetachShape(h.journal, d)'
      BY <1>3, <2>3 DEF DetachShape
    <3>3. DetachKnows(g)'
      BY <1>7, <2>5, <3>2 DEF DetachKnows, MoveSteps, Restoring, Restoral
    <3>4. QED
      BY <1>3, <1>7, <3>1, <3>3 DEF CallOK, DetachOps
  <2>7. QED
    BY <1>3, <1>8, <2>2, <2>4, <2>6, GivenBack
<1>10. CASE target[p] # "absent"
  <2>1. UNCHANGED <<target, maker, stage, linked, quarantine, adoption, detach, snapshot,
                    touched, resumed>>
    BY <1>2, <1>1, <1>10 DEF RelinkSource
  <2>2. RestoreKnows(g)
    BY <1>1, <1>3, <1>4, <1>7 DEF RestoreKnows, Restoral
  <2>3. CallTypes(g)
    BY <1>3, <1>7 DEF CallTypes
  <2>4. DetachKnows(g)
    BY <1>3, <1>7, <2>2 DEF DetachKnows, MoveSteps, Restoring, Restoral
  <2>5. CallOK(g)
    BY <1>3, <1>7, <2>3, <2>4 DEF CallOK, DetachOps
  <2>6. QED
    BY <1>8, <2>1, <2>5, TurnKeeps
<1>11. QED
  BY <1>9, <1>10

LEMMA ClearRestageStatus ==
    ASSUME Calm, StatusInv, OneOperator, NEW w \in Process, ClearRestage(w) PROVE StatusInv'
<1>1. PICK h, d, p : h = held[w] /\ d = h.tx /\ p = Here(w)
  OBVIOUS
<1>2. PICK state \in DetachEntry :
         state = IF ~h.hit /\ target[p] = "source" THEN "RESTORED" ELSE "RECOVERY_BLOCKED"
  BY DEF DetachEntry
<1>3. /\ At(w, DetachOps, "clear") /\ "clear" \in Restoring
      /\ UNCHANGED <<target, maker, stage, linked, quarantine, adoption, detach, snapshot,
                     touched, resumed>>
  BY DEF ClearRestage, Restoring, Restoral, NoSave, disk, environment, history
<1>4. RestoreKnows(h) /\ h.pc = "clear" /\ p = Order[h.at]
  BY <1>1, <1>3, RestoreFacts
<1>5. p \in Leaves(d) /\ Quarantine(d, p) = "absent"
  BY <1>1, <1>4 DEF RestoreKnows, Restoral
<1>6. PICK f : f = Unhit(h) /\ SameCall(f, held[w])
  BY <1>1 DEF SameCall
<1>7. held' = [held EXCEPT ![w] = Restored(f, state)]
  BY <1>1, <1>2, <1>6 DEF ClearRestage, Unhit
<1>8. /\ state \in {"RESTORED", "RECOVERY_BLOCKED"}
      /\ state = "RESTORED" => target[p] = "source"
  BY <1>2
<1>9. QED
  BY <1>1, <1>3, <1>5, <1>6, <1>7, <1>8, SettleKeeps

LEMMA CloseRestoreStatus ==
    ASSUME Calm, StatusInv, OneOperator, NEW w \in Process, CloseRestore(w) PROVE StatusInv'
<1>1. PICK h, d, j : h = held[w] /\ d = h.tx /\ j = h.journal
  OBVIOUS
<1>2. At(w, DetachOps, "closed") /\ "closed" \in Restoring /\ OnlyDetach
  BY DEF CloseRestore, Restoring, Restoral
<1>3. /\ IsCall(h) /\ CallTypes(h) /\ RestoreKnows(h) /\ h.pc = "closed" /\ j \in DetachJournal
      /\ d \in DOMAIN detach /\ DetachShape(j, d) /\ h.op \in DetachOps
  BY <1>1, <1>2, RestoreFacts
<1>4. PICK s : s = IF h.blocked THEN "RECOVERY_BLOCKED" ELSE "ROLLED_BACK"
  OBVIOUS
<1>5. PICK k : k = WithStatus(j, s)
  OBVIOUS
<1>6. k \in DetachJournal /\ k.status = s /\ k.entry = j.entry /\ k.moved = j.moved
  <2>1. s \in DetachStatus
    BY <1>4 DEF DetachStatus
  <2>2. QED
    BY <1>3, <1>5, <2>1, MovedStatus
<1>7. PICK f : f = [h EXCEPT !.journal = k, !.pc = "plan"]
  OBVIOUS
<1>8. f = Saved(h, k, "plan")
  BY <1>3, <1>7 DEF IsCall, Saved
<1>9. PICK g : g = IF h.op = "retry" /\ ~h.blocked THEN f ELSE Idle
  OBVIOUS
<1>10. detach' = [detach EXCEPT ![d] = k] /\ held' = [held EXCEPT ![w] = g]
  BY <1>1, <1>4, <1>5, <1>7, <1>9 DEF CloseRestore, WithStatus
<1>11. ASSUME NEW p \in Leaves(d)
       PROVE  /\ k.entry[p] \in {"RESTORED", "RECOVERY_BLOCKED"}
              /\ ~h.blocked => k.entry[p] = "RESTORED"
  <2>1. PICK i \in DOMAIN Order : p = Order[i]
    BY DEF Leaves, Removable, Path
  <2>2. QED
    BY <1>1, <1>3, <1>6, <2>1 DEF RestoreKnows, Restoral
<1>12. DetachShape(k, d) /\ MovesPlanned(k)
  BY <1>3, <1>4, <1>6, <1>11 DEF DetachShape, MovesPlanned
<1>13. \A p \in Leaves(d) \ touched : detach[d].entry[p] \in TakenEntry =>
              \/ target[p] = "source" \/ k.entry[p] \in TakenEntry
              \/ \E e \in DOMAIN detach \ {d} : MovedBy(e, p)
  BY <1>1, <1>3, <1>6, <1>11 DEF RestoreKnows, Restoral, TakenEntry
<1>14. UNCHANGED <<target, maker, stage, linked, quarantine, adoption, snapshot, touched, resumed>>
  BY <1>2 DEF OnlyDetach, files, environment, history
<1>15. detach'[d] = k /\ DOMAIN detach' = DOMAIN detach
  BY <1>3, <1>10 DEF StatusInv, FilesTyped
<1>16. g = Idle \/ CallOK(g)'
  <2>1. SUFFICES ASSUME ~h.blocked, g = Saved(h, k, "plan") PROVE CallOK(g)'
    BY <1>8, <1>9
  <2>2. /\ g.op = h.op /\ g.tx = d /\ g.journal = k /\ g.pc = "plan" /\ g.at = h.at
        /\ g.hit = h.hit /\ g.blocked = h.blocked
    BY <1>1, <2>1 DEF Saved
  <2>3. CallTypes(g)'
    BY <1>1, <1>3, <1>6, <1>15, <2>2 DEF CallTypes
  <2>4. DetachShape(k, d)' /\ detach'[d].status = "ROLLED_BACK"
    BY <1>4, <1>6, <1>12, <1>14, <1>15, <2>1 DEF DetachShape, Quarantine
  <2>5. DetachKnows(g)'
    BY <2>2, <2>4 DEF DetachKnows, MoveSteps, Restoring, Restoral
  <2>6. QED
    BY <1>3, <2>2, <2>3, <2>5 DEF CallOK, DetachOps
<1>17. QED
  BY <1>3, <1>6, <1>10, <1>12, <1>13, <1>14, <1>16, DetachSaves

-----------------------------------------------------------------------------
(* The start of a detach.                                                    *)

LEMMA NewDetachFacts ==
    ASSUME NEW d
    PROVE  /\ NewDetach(d) \in DetachJournal /\ NewDetach(d).status = "PLANNED"
           /\ NewDetach(d).moved = {}
           /\ \A p \in Path : NewDetach(d).entry[p] \in {"PENDING", "ALREADY_ABSENT", "PRESERVED"}
           /\ \A p \in Path : NewDetach(d).entry[p] = "PENDING" => p \in Leaves(d)
  BY DEF NewDetach, DetachJournal, DetachStatus, DetachEntry

\* A detach is opened with the plan of the files as they are.
LEMMA DetachOpens ==
    ASSUME Calm, StatusInv, OneOperator, NEW w \in Process, NEW d, d.saw = target,
           d.adoption \in DOMAIN adoption, adoption[d.adoption].status = "COMMITTED",
           d \in DOMAIN detach => detach[d].status \in {"ROLLED_BACK", "PLANNED"},
           detach' = Put(detach, d, NewDetach(d)),
           held' = [held EXCEPT ![w] = DetachCall("detach", d, NewDetach(d), "begin", 1)],
           UNCHANGED <<target, maker, stage, linked, quarantine, adoption, snapshot, touched, resumed>>
    PROVE  StatusInv'
<1>1. PICK k, g : k = NewDetach(d) /\ g = DetachCall("detach", d, k, "begin", 1)
  OBVIOUS
<1>2. /\ k \in DetachJournal /\ k.status = "PLANNED" /\ k.moved = {}
      /\ \A p \in Path : k.entry[p] \in {"PENDING", "ALREADY_ABSENT", "PRESERVED"}
      /\ \A p \in Path : k.entry[p] = "PENDING" => p \in Leaves(d)
  BY <1>1, NewDetachFacts
<1>3. /\ g.op = "detach" /\ g.tx = d /\ g.journal = k /\ g.pc = "begin" /\ g.at = 1
      /\ g.hit \in BOOLEAN /\ g.blocked \in BOOLEAN
  BY <1>1 DEF DetachCall
<1>4. held' = [held EXCEPT ![w] = g] /\ detach' = Put(detach, d, k)
  BY <1>1
<1>5. \A p \in Path : Quarantine(d, p) = "absent"
  <2>1. CASE d \notin DOMAIN detach
    BY <2>1 DEF Quarantine, StatusInv, FilesTyped
  <2>2. CASE d \in DOMAIN detach
    <3>1. DetachOK(d)
      BY <2>2 DEF StatusInv
    <3>2. QED
      BY <2>2, <3>1 DEF DetachOK, DetachShape
  <2>3. QED
    BY <2>1, <2>2
<1>6. \A e, p : Quarantine(e, p)' = Quarantine(e, p)
  BY DEF Quarantine
<1>7. DetachShape(k, d)' /\ MovesPlanned(k)
  BY <1>2, <1>5, <1>6 DEF DetachShape, MovesPlanned
<1>8. detach'[d] = k /\ d \in DOMAIN detach' /\ 1 \in DOMAIN Order
  BY <1>4, SurfaceAssumption DEF Put
<1>9. CallOK(g)'
  <2>1. CallTypes(g)'
    BY <1>2, <1>3, <1>8 DEF CallTypes, DetachOps
  <2>2. MoveKnows(g)'
    BY <1>2, <1>3, <1>8 DEF MoveKnows
  <2>3. DetachKnows(g)'
    BY <1>3, <1>7, <2>2 DEF DetachKnows, MoveSteps, Restoring, Restoral
  <2>4. QED
    BY <1>3, <2>1, <2>3 DEF CallOK, DetachOps
<1>10. target' \in [Path -> Bytes] /\ maker' = [p \in Path |-> maker'[p]] /\ MakersOK'
  BY FilesKept
<1>11. \A p \in Path : Quarantine(d, p)' # "absent" =>
          /\ p \in Leaves(d) /\ Quarantine(d, p)' \in Bytes
          /\ (p \in touched \/ Quarantine(d, p)' = "source")
  BY <1>5, <1>6
<1>12. ASSUME NEW p \in Leaves(d) \ touched PROVE target'[p] = "source"
  BY DEF Leaves
<1>13. /\ UNCHANGED <<stage, adoption, snapshot, touched, resumed>>
       /\ \A p \in Path : maker'[p] \in {maker[p], Consumer, d.adoption}
       /\ \A u \in DOMAIN adoption, p \in Path :
              (Linked(u, p)' <=> Linked(u, p)) \/ maker'[p] = Consumer
       /\ DOMAIN quarantine' \subseteq DOMAIN quarantine \cup {d}
       /\ \A e, p : e # d /\ p \in Path => Quarantine(e, p)' = Quarantine(e, p)
       /\ \A p \in Path \ touched : target'[p] # target[p] => p \in Leaves(d)
  BY <1>6 DEF Linked
<1>14. QED
  BY <1>2, <1>4, <1>7, <1>9, <1>10, <1>11, <1>12, <1>13, DetachWrites

LEMMA StartOverStatus ==
    ASSUME Calm, StatusInv, OneOperator, NEW w \in Process, StartOver(w) PROVE StatusInv'
<1>1. PICK h, d : h = held[w] /\ d = h.tx
  OBVIOUS
<1>2. At(w, {"retry"}, "plan") /\ h.op \in DetachOps /\ Busy(w) /\ h.pc = "plan"
  BY <1>1 DEF StartOver, At, DetachOps
<1>3. d \in DOMAIN detach /\ detach[d].status = "ROLLED_BACK" /\ DetachOK(d)
  BY <1>1, <1>2, DetachFacts DEF DetachKnows
<1>4. UNCHANGED <<target, maker, stage, linked, quarantine, adoption, snapshot, touched, resumed>>
  BY DEF StartOver, OnlyDetach, files, environment, history
<1>5. CASE d.saw = target /\ DetachReady(d.adoption, target)
  <2>1. /\ detach' = [detach EXCEPT ![d] = NewDetach(d)]
        /\ held' = [held EXCEPT ![w] = DetachCall("detach", d, NewDetach(d), "begin", 1)]
    BY <1>1, <1>5 DEF StartOver
  <2>2. detach' = Put(detach, d, NewDetach(d))
    BY <1>3, <2>1, PutSame
  <2>3. d.adoption \in DOMAIN adoption /\ adoption[d.adoption].status = "COMMITTED"
    BY <1>3 DEF DetachOK
  <2>4. QED
    BY <1>3, <1>4, <1>5, <2>1, <2>2, <2>3, DetachOpens
<1>6. CASE ~(d.saw = target /\ DetachReady(d.adoption, target))
  <2>1. UNCHANGED detach /\ held' = [held EXCEPT ![w] = Idle]
    BY <1>1, <1>6 DEF StartOver
  <2>2. QED
    BY <1>4, <2>1, TurnKeeps
<1>7. QED
  BY <1>5, <1>6

LEMMA DetachStepStatus ==
    ASSUME Calm, StatusInv, OneOperator, NEW w \in Process, DetachStep(w) PROVE StatusInv'
  BY BeginDetachStatus, KeepEntryStatus, PlanMoveStatus, LookAtFileStatus, MoveFileStatus,
     RecordMovedStatus, VerifyAbsentStatus, PurgeStatus, RecordPurgedStatus, CheckDetachedStatus,
     CommitDetachStatus, ReadBackDetachStatus, CleanDirectoryStatus, CloseDetachStatus,
     FailDetachStatus, RestoreNothingStatus, LookBackStatus, ReturnFileStatus, DropCopyStatus,
     RestageStatus, RelinkSourceStatus, ClearRestageStatus, RestoreCallFailsStatus, CloseRestoreStatus, StartOverStatus
     DEF DetachStep

\* A detach is taken up again where its journal says, or undone.
LEMMA DetachResumes ==
    ASSUME Calm, StatusInv, OneOperator, NEW w \in Process, NEW d \in DOMAIN detach,
           UNCHANGED <<target, maker, stage, linked, quarantine, adoption, detach, snapshot,
                       touched, resumed>>,
           NEW op \in DetachOps, NEW pc, NEW at \in DOMAIN Order,
           \/ detach[d].status = "DETACHING" /\ pc = "begin"
           \/ detach[d].status = "COMMITTED" /\ pc = "rmdir"
           \/ detach[d].status # "ROLLED_BACK" /\ pc = "restore" /\ at = Len(Order),
           held' = [held EXCEPT ![w] = DetachCall(op, d, detach[d], pc, at)]
    PROVE  StatusInv'
<1>1. PICK k, g : k = detach[d] /\ g = DetachCall(op, d, k, pc, at)
  OBVIOUS
<1>2. k \in DetachJournal /\ DetachOK(d) /\ DetachShape(k, d)
  BY <1>1 DEF StatusInv, FilesTyped, DetachOK
<1>3. /\ g.op = op /\ g.tx = d /\ g.journal = k /\ g.pc = pc /\ g.at = at
      /\ g.hit \in BOOLEAN /\ g.blocked \in BOOLEAN
  BY <1>1 DEF DetachCall
<1>4. CallTypes(g)
  BY <1>2, <1>3 DEF CallTypes
<1>5. DetachKnows(g)
  <2>1. CASE k.status = "DETACHING" /\ pc = "begin"
    <3>1. MoveKnows(g)
      BY <1>1, <1>3, <2>1 DEF MoveKnows
    <3>2. QED
      BY <1>2, <1>3, <2>1, <3>1 DEF DetachKnows, MoveSteps, Restoring, Restoral
  <2>2. CASE k.status = "COMMITTED" /\ pc = "rmdir"
    <3>1. MoveKnows(g)
      BY <1>1, <1>3, <2>2 DEF MoveKnows
    <3>2. QED
      BY <1>2, <1>3, <2>2, <3>1 DEF DetachKnows, MoveSteps, Restoring, Restoral
  <2>3. CASE k.status # "ROLLED_BACK" /\ pc = "restore" /\ at = Len(Order)
    <3>1. \A i \in DOMAIN Order : ~(i > at)
      BY <2>3, SurfaceAssumption
    <3>2. \A q \in Leaves(d) \ touched : k.entry[q] = "RESTORED" =>
             target[q] = "source" \/ \E e \in DOMAIN detach \ {d} : MovedBy(e, q)
      BY <1>1, <1>2, RestoreStarts
    <3>3. RestoreKnows(g)
      BY <1>1, <1>3, <2>3, <3>1, <3>2 DEF RestoreKnows, Restoral
    <3>4. QED
      BY <1>2, <1>3, <2>3, <3>3 DEF DetachKnows, MoveSteps, Restoring, Restoral
  <2>4. QED
    BY <1>1, <2>1, <2>2, <2>3
<1>6. CallOK(g)
  BY <1>3, <1>4, <1>5 DEF CallOK, DetachOps
<1>7. held' = [held EXCEPT ![w] = g]
  BY <1>1
<1>8. QED
  BY <1>6, <1>7, TurnKeeps

LEMMA ApplyDetachStatus ==
    ASSUME Calm, StatusInv, OneOperator, NEW w \in Process, NEW d, ApplyDetach(w, d)
    PROVE  StatusInv'
<1>1. /\ d.adoption \in DOMAIN adoption /\ adoption[d.adoption].status = "COMMITTED"
      /\ UNCHANGED <<target, maker, stage, linked, quarantine, adoption, snapshot, touched, resumed>>
  BY DEF ApplyDetach, Trusted, OnlyDetach, files, environment, history
<1>2. PICK status : status = IF d \in DOMAIN detach THEN detach[d].status ELSE "NEW"
  OBVIOUS
<1>3. "detach" \in DetachOps /\ "again" \in DetachOps /\ "retry" \in DetachOps
  BY DEF DetachOps
<1>4. 1 \in DOMAIN Order /\ Len(Order) \in DOMAIN Order
  BY SurfaceAssumption
<1>5. CASE /\ status \in {"NEW", "ROLLED_BACK", "PLANNED"}
           /\ d.saw = target
           /\ detach' = Put(detach, d, NewDetach(d))
           /\ held' = [held EXCEPT ![w] = DetachCall("detach", d, NewDetach(d), "begin", 1)]
  <2>1. d \in DOMAIN detach => detach[d].status \in {"ROLLED_BACK", "PLANNED"}
    <3>1. SUFFICES ASSUME d \in DOMAIN detach, detach[d].status = "NEW" PROVE FALSE
      BY <1>2, <1>5
    <3>2. detach[d].status \in DetachStatus
      BY <3>1 DEF StatusInv, FilesTyped, DetachJournal
    <3>3. QED
      BY <3>1, <3>2 DEF DetachStatus
  <2>2. QED
    BY <1>1, <1>5, <2>1, DetachOpens
<1>6. CASE /\ status = "DETACHING" /\ UNCHANGED detach
           /\ held' = [held EXCEPT ![w] = DetachCall("detach", d, detach[d], "begin", 1)]
  <2>1. d \in DOMAIN detach /\ detach[d].status = "DETACHING"
    BY <1>2, <1>6
  <2>2. QED
    BY <1>1, <1>3, <1>4, <1>6, <2>1, DetachResumes
<1>7. CASE /\ status = "RECOVERY_REQUIRED" /\ UNCHANGED detach
           /\ held' = [held EXCEPT ![w] = DetachCall("retry", d, detach[d], "restore", Len(Order))]
  <2>1. d \in DOMAIN detach /\ detach[d].status # "ROLLED_BACK"
    BY <1>2, <1>7
  <2>2. QED
    BY <1>1, <1>3, <1>4, <1>7, <2>1, DetachResumes
<1>8. CASE /\ status = "COMMITTED" /\ UNCHANGED detach
           /\ held' = [held EXCEPT ![w] = DetachCall("again", d, detach[d], "rmdir", 1)]
  <2>1. d \in DOMAIN detach /\ detach[d].status = "COMMITTED"
    BY <1>2, <1>8
  <2>2. QED
    BY <1>1, <1>3, <1>4, <1>8, <2>1, DetachResumes
<1>9. QED
  BY <1>2, <1>5, <1>6, <1>7, <1>8 DEF ApplyDetach

LEMMA RecoverDetachStatus ==
    ASSUME Calm, StatusInv, OneOperator, NEW w \in Process, NEW d, RecoverDetach(w, d)
    PROVE  StatusInv'
<1>1. /\ d \in DOMAIN detach /\ detach[d].status # "ROLLED_BACK"
      /\ held' = [held EXCEPT ![w] = DetachCall("restore", d, detach[d], "restore", Len(Order))]
      /\ UNCHANGED <<target, maker, stage, linked, quarantine, adoption, detach, snapshot,
                     touched, resumed>>
  BY DEF RecoverDetach, files, NoSave, disk, environment, history
<1>2. "restore" \in DetachOps /\ Len(Order) \in DOMAIN Order
  BY SurfaceAssumption DEF DetachOps
<1>3. QED
  BY <1>1, <1>2, DetachResumes

-----------------------------------------------------------------------------
(* The invariant, and what it says of the statuses.                          *)

LEMMA StatusInit == ASSUME SurfaceInit PROVE StatusInv
<1>1. /\ DOMAIN adoption = {} /\ DOMAIN detach = {} /\ DOMAIN stage = {} /\ DOMAIN quarantine = {}
      /\ adoption = [t \in DOMAIN adoption |-> adoption[t]]
      /\ detach = [d \in DOMAIN detach |-> detach[d]]
  BY DEF SurfaceInit
<1>2. /\ target \in [Path -> Bytes] /\ maker = [p \in Path |-> maker[p]]
      /\ \A p \in Path : maker[p] = Consumer
  BY DEF SurfaceInit
<1>3. \A w \in Process : ~Busy(w)
  BY DEF SurfaceInit, Busy
<1>4. FilesTyped /\ MakersOK
  BY <1>1, <1>2 DEF FilesTyped, MakersOK
<1>5. OneCommitted /\ AllInPlace
  BY <1>1 DEF OneCommitted, AllInPlace
<1>6. KnowsOK
  BY <1>3 DEF KnowsOK
<1>7. QED
  BY <1>1, <1>4, <1>5, <1>6 DEF StatusInv

\* Adoptions begun beside another are only ever counted up.
LEMMA OverlapsGrow ==
    ASSUME overlaps \in Nat, [SurfaceNext]_surface PROVE overlaps' = overlaps \/ overlaps' = overlaps + 1
<1>1. ASSUME NEW w \in Process, NEW t, ApplyAdoption(w, t)
      PROVE  overlaps' = overlaps \/ overlaps' = overlaps + 1
  BY <1>1 DEF ApplyAdoption
<1>2. ASSUME NEW w \in Process, NEW t, RecoverAdoption(w, t) \/ ApplyDetach(w, t) \/ RecoverDetach(w, t)
      PROVE  overlaps' = overlaps
  BY <1>2 DEF RecoverAdoption, ApplyDetach, RecoverDetach, OnlyDetach, NoSave, environment, history
<1>3. ASSUME NEW w \in Process, AdoptionStep(w) PROVE overlaps' = overlaps
  BY <1>3 DEF AdoptionStep, Begin, Preserve, PassVerified, MakeDirectory, RecordDirectory,
     Announce, Prepare, LinkStage, RecordCreated, Unstage, Verify, CheckPost, WriteSnapshot,
     Commit, ReadBack, FailAdoption, UndoPreserved, UndoTarget, RemoveTarget, UndoStage,
     UndoCallFails, RemoveDirectory, CloseAdoption, OnlyAdoption, NoSave, environment, history
<1>4. ASSUME NEW w \in Process, DetachStep(w) PROVE overlaps' = overlaps
  BY <1>4 DEF DetachStep, BeginDetach, KeepEntry, PlanMove, LookAtFile, MoveFile, RecordMoved,
     VerifyAbsent, Purge, RecordPurged, CheckDetached, CommitDetach, ReadBackDetach,
     CleanDirectory, CloseDetach, FailDetach, RestoreNothing, LookBack, ReturnFile, DropCopy,
     Restage, RelinkSource, ClearRestage, RestoreCallFails, CloseRestore, StartOver,
     OnlyDetach, NoSave, environment, history
<1>5. ASSUME NEW w \in Process, Crash(w) PROVE overlaps' = overlaps
  BY <1>5 DEF Crash, history
<1>6. ASSUME NEW p \in Path, NEW bytes, Edit(p, bytes) PROVE overlaps' = overlaps
  BY <1>6 DEF Edit
<1>7. ASSUME UNCHANGED surface PROVE overlaps' = overlaps
  BY <1>7 DEF surface, environment, history
<1>8. QED
  BY <1>1, <1>2, <1>3, <1>4, <1>5, <1>6, <1>7 DEF SurfaceNext, Calls

LEMMA StatusStep ==
    ASSUME OneOperator, Calm, StatusInv, overlaps = 0, overlaps' = 0, [SurfaceNext]_surface
    PROVE  StatusInv'
<1>1. ASSUME NEW w \in Process, Calls(w) PROVE StatusInv'
  BY <1>1, ApplyAdoptionStatus, RecoverAdoptionStatus, ApplyDetachStatus, RecoverDetachStatus
     DEF Calls
<1>2. ASSUME NEW w \in Process, AdoptionStep(w) \/ DetachStep(w) \/ Crash(w) PROVE StatusInv'
  BY <1>2, AdoptionStepStatus, DetachStepStatus, CrashStatus
<1>3. ASSUME NEW p \in Path, NEW bytes \in Bytes \ {"source"}, Edit(p, bytes) PROVE StatusInv'
  BY <1>3, EditStatus
<1>4. CASE UNCHANGED surface
  <2>1. /\ UNCHANGED <<target, maker, stage, linked, quarantine, adoption, detach, snapshot, touched, resumed>>
        /\ held' = held
    BY <1>4 DEF surface, files, disk, environment, history
  <2>2. CASE \E w \in Process : TRUE
    <3>1. PICK w \in Process : TRUE
      BY <2>2
    <3>2. PICK g : g = held[w]
      OBVIOUS
    <3>3. held' = [held EXCEPT ![w] = g]
      BY <2>1, <3>1, <3>2 DEF Calm, CallsShaped
    <3>4. g = Idle \/ CallOK(g)
      BY <3>1, <3>2 DEF StatusInv, KnowsOK, Busy
    <3>5. QED
      BY <2>1, <3>1, <3>3, <3>4, TurnKeeps
  <2>3. CASE ~\E w \in Process : TRUE
    <3>1. FilesTyped' /\ MakersOK' /\ OneCommitted' /\ AllInPlace'
      BY <2>1 DEF StatusInv, FilesTyped, MakersOK, OneCommitted, AllInPlace, Over, Spent, InPlace,
         MovedBy, Quarantine
    <3>2. \A t \in DOMAIN adoption' : AdoptionOK(t)'
      BY <2>1 DEF StatusInv, AdoptionOK, Tracks, Owns, Spent, Stage, Linked
    <3>3. \A d \in DOMAIN detach' : DetachOK(d)'
      BY <2>1 DEF StatusInv, DetachOK, DetachShape, MovesPlanned, Quarantine
    <3>4. KnowsOK'
      BY <2>3 DEF KnowsOK
    <3>5. QED
      BY <3>1, <3>2, <3>3, <3>4 DEF StatusInv
  <2>4. QED
    BY <2>2, <2>3
<1>5. QED
  BY <1>1, <1>2, <1>3, <1>4 DEF SurfaceNext

LEMMA StatusInvTrue == ASSUME StatusInv PROVE StatusIsTrue
<1>1. CommittedIsComplete
  <2>1. SUFFICES ASSUME NEW t \in DOMAIN adoption, NEW p \in Path \ touched,
                        adoption[t].status = "COMMITTED"
                 PROVE  t \in snapshot /\ (target[p] = Expected(t, p) \/ MovedAway(p))
    BY DEF CommittedIsComplete
  <2>2. t \in snapshot
    BY <2>1 DEF StatusInv, AdoptionOK
  <2>3. InPlace(t, p)
    BY <2>1 DEF StatusInv, AllInPlace
  <2>4. QED
    BY <2>2, <2>3 DEF InPlace, MovedBy, MovedAway, TakenEntry
<1>2. RolledBackIsClean
  <2>1. SUFFICES ASSUME NEW t \in DOMAIN adoption, NEW p \in Path,
                        adoption[t].status = "ROLLED_BACK", t \notin resumed
                 PROVE  Stage(t, p) = "absent" /\ maker[p] # t
    BY DEF RolledBackIsClean
  <2>2. AdoptionOK(t)
    BY <2>1 DEF StatusInv
  <2>3. QED
    BY <2>1, <2>2 DEF AdoptionOK, Tracks, Spent
<1>3. RestoredIsWhole
  <2>1. SUFFICES ASSUME NEW d \in DOMAIN detach, detach[d].status = "ROLLED_BACK",
                        NEW p \in Leaves(d) \ touched
                 PROVE  TakenByAnother(d, p) \/ target[p] = "source"
    BY DEF RestoredIsWhole
  <2>2. p \in Path /\ DetachShape(detach[d], d)
    BY <2>1 DEF Leaves, Removable, StatusInv, DetachOK
  <2>3. detach[d].entry[p] = "RESTORED"
    BY <2>1, <2>2 DEF DetachShape
  <2>4. target[p] = "source" \/ \E e \in DOMAIN detach \ {d} : MovedBy(e, p)
    BY <2>1, <2>2, <2>3, RestoreStarts
  <2>5. ASSUME NEW e \in DOMAIN detach, MovedBy(e, p), detach[e].status = "ROLLED_BACK"
        PROVE  FALSE
    <3>1. DetachShape(detach[e], e) /\ p \in Leaves(e)
      BY <2>5 DEF StatusInv, DetachOK, MovedBy
    <3>2. detach[e].entry[p] = "RESTORED" /\ Quarantine(e, p) = "absent"
      BY <2>2, <2>5, <3>1 DEF DetachShape
    <3>3. QED
      BY <2>5, <3>2 DEF MovedBy, TakenEntry
  <2>6. QED
    BY <2>4, <2>5 DEF MovedBy, TakenByAnother
<1>4. QED
  BY <1>1, <1>2, <1>3 DEF StatusIsTrue

Unmixed == overlaps \in Nat /\ (overlaps = 0 => StatusInv)

\* A status that claims an end is true, for any manifest and any number of calls of one
\* operator, wherever a call dies or fails and whenever the consumer acts, as long as no
\* adoption was begun beside one that is not rolled back: a COMMITTED adoption is
\* complete, a ROLLED_BACK one leaves nothing behind, a ROLLED_BACK detach has given back
\* what it took.
THEOREM SurfaceStatusTrue == ASSUME OneOperator PROVE SurfaceSpec => []StatusIsTrue
<1>1. SurfaceInit => Unmixed
  BY StatusInit DEF SurfaceInit, Unmixed
<1>2. Calm /\ Unmixed /\ [SurfaceNext]_surface => Unmixed'
  <2>1. SUFFICES ASSUME Calm, Unmixed, [SurfaceNext]_surface PROVE Unmixed'
    OBVIOUS
  <2>2. overlaps \in Nat /\ (overlaps' = overlaps \/ overlaps' = overlaps + 1)
    BY <2>1, OverlapsGrow DEF Unmixed
  <2>3. overlaps' = 0 => overlaps = 0
    BY <2>2
  <2>4. overlaps' = 0 => StatusInv'
    BY <2>1, <2>3, StatusStep DEF Unmixed
  <2>5. QED
    BY <2>2, <2>4 DEF Unmixed
<1>3. SurfaceSpec => []Calm
  BY CalmInvariant
<1>4. Unmixed => StatusIsTrue
  BY StatusInvTrue DEF Unmixed, StatusIsTrue
<1>5. QED
  BY <1>1, <1>2, <1>3, <1>4, PTL DEF SurfaceSpec
=============================================================================
