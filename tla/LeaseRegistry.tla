---------------------------- MODULE LeaseRegistry ----------------------------
(***************************************************************************)
(* The writer lease registry of .adwf/lib/lease_registry.py as pure        *)
(* operators: conflict resources, freshness, the validator and the three   *)
(* transitions.  A lease is named by its position in the list, which only  *)
(* grows, and not by its UUID; identifiers, digests and text formats that  *)
(* only the input checks read are left out.                                *)
(***************************************************************************)
EXTENDS Naturals, Sequences, FiniteSets

CONSTANTS Request,           \* what is leased: [worker, issue, roadmap, branch, resources]
          Ceiling,           \* max_parallel_writers of the policy
          Retention,         \* leases a registry can hold (200)
          Ttl,               \* minutes granted by a claim or a heartbeat
          HeartbeatTimeout   \* DEFAULT_HEARTBEAT_TIMEOUT_MINUTES

ASSUME LeaseAssumption ==
    /\ Ceiling \in 1..3
    /\ Retention \in Nat \ {0}
    /\ Ttl \in 1..240
    /\ HeartbeatTimeout \in Nat

\* A validated scope is a path: its parts in order.
ASSUME ScopeAssumption ==
    \A q \in Request : \A a \in q.resources : a.scope \in Seq(STRING)

Lease == [request : Request, generation : Nat, base : Nat, beat : Nat, expires : Nat,
          status : {"ACTIVE", "RELEASED"}]

Registry == [revision : Nat, main : Nat, leases : Seq(Lease)]

EmptyRegistry(main) == [revision |-> 0, main |-> main, leases |-> <<>>]

-----------------------------------------------------------------------------
\* Mutant: only equal scopes overlap.
ScopeOverlapExact(a, b) == a = b

\* _scope_overlap: a scope is a path; it overlaps its ancestors and descendants.
ScopeOverlap(a, b) ==
    \/ Len(a) <= Len(b) /\ SubSeq(b, 1, Len(a)) = a
    \/ Len(b) <= Len(a) /\ SubSeq(a, 1, Len(b)) = b

ResourceOverlap(a, b) ==
    a.global \/ b.global \/ (a.kind = b.kind /\ ScopeOverlap(a.scope, b.scope))

ConflictingResources(q, r) ==
    \E a \in q.resources, b \in r.resources : ResourceOverlap(a, b)

Collides(q, r) ==
    \/ q.issue = r.issue
    \/ q.roadmap = r.roadmap
    \/ q.branch = r.branch
    \/ ConflictingResources(q, r)

\* _registry_lease_freshness_errors finds nothing.
Fresh(lease, now) ==
    /\ lease.expires > now
    /\ lease.beat <= now
    /\ now - lease.beat <= HeartbeatTimeout

Active(reg) == {i \in DOMAIN reg.leases : reg.leases[i].status = "ACTIVE"}

\* validate_lease_registry: the findings a registry built by the transitions
\* could have.
ValidRegistry(reg) ==
    /\ Len(reg.leases) <= Retention
    /\ Cardinality(Active(reg)) <= Ceiling
    /\ \A i \in DOMAIN reg.leases :
           /\ reg.leases[i].generation >= 1
           /\ reg.leases[i].expires > reg.leases[i].beat
           /\ \A k \in DOMAIN reg.leases :
                  reg.leases[i].generation = reg.leases[k].generation => i = k
    /\ \A i, k \in Active(reg) :
           i # k => ~Collides(reg.leases[i].request, reg.leases[k].request)

-----------------------------------------------------------------------------

\* acquire_registry_lease: an unreconciled or stale lease blocks every claim.
MayAcquire(reg, q, main, now) ==
    /\ Active(reg) # {} => reg.main = main
    /\ \A i \in Active(reg) :
           Fresh(reg.leases[i], now) /\ ~Collides(q, reg.leases[i].request)
    /\ Cardinality(Active(reg)) < Ceiling
    /\ Len(reg.leases) < Retention

\* Every transition counts one revision and records the observed main.
Revised(reg, main, leases) ==
    [revision |-> reg.revision + 1, main |-> main, leases |-> leases]

Acquired(reg, q, main, now) ==
    Revised(reg, main,
            Append(reg.leases,
                   [request |-> q, generation |-> reg.revision + 1, base |-> main,
                    beat |-> now, expires |-> now + Ttl, status |-> "ACTIVE"]))

\* The lease a worker names is active and its own.
OwnsActive(reg, i, q) ==
    /\ i \in DOMAIN reg.leases
    /\ reg.leases[i].status = "ACTIVE"
    /\ reg.leases[i].request.worker = q.worker

\* heartbeat_registry_lease: a stale lease cannot be renewed.
MayHeartbeat(reg, i, q, main, now) ==
    /\ OwnsActive(reg, i, q)
    /\ reg.main = main
    /\ Fresh(reg.leases[i], now)

Renewed(reg, i, main, now) ==
    Revised(reg, main,
            [reg.leases EXCEPT ![i] = [@ EXCEPT !.beat = now, !.expires = now + Ttl]])

\* release_registry_lease.
Released(reg, i, main) ==
    Revised(reg, main, [reg.leases EXCEPT ![i] = [@ EXCEPT !.status = "RELEASED"]])
=============================================================================
