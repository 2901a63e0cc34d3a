----------------------------- MODULE LeaseStore -----------------------------
(***************************************************************************)
(* The provider-backed lease store of .adwf/lib/github_lease_store.py.     *)
(* Every registry revision is an immutable tag; the tag name is the        *)
(* compare-and-set: of all processes that computed revision n only the one *)
(* whose tag ref is created first wins.  Between the read, the creation of *)
(* the ref and the readback other processes act, main moves, time passes   *)
(* and calls fail.                                                         *)
(***************************************************************************)
EXTENDS LeaseRegistry

CONSTANTS Process,      \* controllers that use the store
          Idle,         \* a process between two calls
          MaxMain,      \* bound: moves of the default branch
          MaxTime,      \* bound: clock ticks
          MaxRevision,  \* bound: registry revisions
          MaxFailures   \* bound: failed provider calls

ASSUME StoreAssumption ==
    {MaxMain, MaxTime, MaxRevision, MaxFailures} \subseteq Nat

VARIABLES
    main,      \* head of the default branch; every push is a new number
    clock,
    refs,      \* the tag refs in revision order, as the tag objects they name
    call,      \* the store call each process is in
    granted,   \* history: leases whose acquire returned, as <<position, request>>
    failures

vars == <<main, clock, refs, call, granted, failures>>

\* A tag object: who created it for which revision stands for its hash.
Object == Process \X Nat
Anchor == [object : Object, prev : Object \cup {Idle}, target : Nat, registry : Registry]

\* op: what was asked; expected: the main the caller observed; anchor: the
\* tag object on its way to the provider.
Operation == [kind : {"acquire", "heartbeat", "release"}, request : Request, lease : Nat]
Writing   == [stage : {"create", "readback"}, op : Operation, expected : Nat,
              anchor : Anchor]

At(p, stage) == call[p] # Idle /\ call[p].stage = stage

\* read: the latest anchored registry, or an empty one for the expected main.
Latest == IF refs = <<>> THEN EmptyRegistry(main) ELSE refs[Len(refs)].registry

Init ==
    /\ main = 0
    /\ clock = 0
    /\ refs = <<>>
    /\ call = [p \in Process |-> Idle]
    /\ granted = {}
    /\ failures = 0

-----------------------------------------------------------------------------
\* The transition the registry allows for an operation.
Allowed(reg, op, expected, now) ==
    CASE op.kind = "acquire"   -> MayAcquire(reg, op.request, expected, now)
      [] op.kind = "heartbeat" -> MayHeartbeat(reg, op.lease, op.request, expected, now)
      [] op.kind = "release"   -> OwnsActive(reg, op.lease, op.request)

Applied(reg, op, expected, now) ==
    CASE op.kind = "acquire"   -> Acquired(reg, op.request, expected, now)
      [] op.kind = "heartbeat" -> Renewed(reg, op.lease, expected, now)
      [] op.kind = "release"   -> Released(reg, op.lease, expected)

Drop(p) == call' = [call EXCEPT ![p] = Idle]

\* acquire, heartbeat and release up to create_tag_object, called for the main
\* the controller observed.  Main is checked around the read, the transition
\* computed on the registry read and validated; a refusal or a drift of main
\* up to here raises and changes nothing.
Read(p, op) ==
    LET new == Applied(Latest, op, main, clock)
    IN  /\ call[p] = Idle
        /\ Latest.revision < MaxRevision
        /\ Allowed(Latest, op, main, clock)
        /\ ValidRegistry(new)
        /\ call' = [call EXCEPT ![p] =
               [stage |-> "create", op |-> op, expected |-> main,
                anchor |-> [object |-> <<p, new.revision>>,
                            prev |-> IF refs = <<>> THEN Idle ELSE refs[Len(refs)].object,
                            target |-> main, registry |-> new]]]
        /\ UNCHANGED <<main, clock, refs, granted, failures>>

\* Mutant: an existing tag ref is moved instead of refused.
CreateRefForced(p) ==
    LET a == call[p].anchor
        n == a.registry.revision
    IN  /\ At(p, "create")
        /\ refs' = IF n \in DOMAIN refs THEN [refs EXCEPT ![n] = a] ELSE Append(refs, a)
        /\ call' = [call EXCEPT ![p].stage = "readback"]
        /\ UNCHANGED <<main, clock, granted, failures>>

\* Mutant: after a conflict the anchor is appended under the next free name.
CreateRefNextName(p) ==
    /\ At(p, "create")
    /\ refs' = Append(refs, call[p].anchor)
    /\ call' = [call EXCEPT ![p].stage = "readback"]
    /\ UNCHANGED <<main, clock, granted, failures>>

\* create_tag_ref: the name of the revision must be free; a conflict raises.
CreateRef(p) ==
    LET a == call[p].anchor
    IN  /\ At(p, "create")
        /\ IF a.registry.revision \in DOMAIN refs
           THEN Drop(p) /\ UNCHANGED refs
           ELSE /\ refs' = Append(refs, a)
                /\ call' = [call EXCEPT ![p].stage = "readback"]
        /\ UNCHANGED <<main, clock, granted, failures>>

\* The readback of the ref and the last check of main.  Only then does an
\* acquire return its lease; otherwise the caller sees an error although the
\* revision is anchored.
Readback(p) ==
    LET c == call[p]
    IN  /\ At(p, "readback")
        /\ granted' = IF /\ refs[c.anchor.registry.revision] = c.anchor
                         /\ main = c.expected
                         /\ c.op.kind = "acquire"
                      THEN granted \cup {<<Len(c.anchor.registry.leases), c.op.request>>}
                      ELSE granted
        /\ Drop(p)
        /\ UNCHANGED <<main, clock, refs, failures>>

\* A provider call fails or its answer is lost, or the process dies.
Fail(p) ==
    /\ failures < MaxFailures
    /\ call[p] # Idle
    /\ Drop(p)
    /\ failures' = failures + 1
    /\ UNCHANGED <<main, clock, refs, granted>>

MoveMain ==
    /\ main < MaxMain
    /\ main' = main + 1
    /\ UNCHANGED <<clock, refs, call, granted, failures>>

Tick ==
    /\ clock < MaxTime
    /\ clock' = clock + 1
    /\ UNCHANGED <<main, refs, call, granted, failures>>

\* Controllers claim for themselves and look up their own lease to renew or
\* release it.
Operations ==
    {[kind |-> "acquire", request |-> q, lease |-> 0] : q \in Request}
    \cup {[kind |-> k, request |-> Latest.leases[i].request, lease |-> i] :
             k \in {"heartbeat", "release"}, i \in DOMAIN Latest.leases}

Next ==
    \/ \E p \in Process, op \in Operations : Read(p, op)
    \/ \E p \in Process : CreateRef(p)
    \/ \E p \in Process : Readback(p)
    \/ \E p \in Process : Fail(p)
    \/ MoveMain
    \/ Tick

Spec == Init /\ [][Next]_vars

-----------------------------------------------------------------------------
TypeOK ==
    /\ main \in Nat /\ clock \in Nat /\ failures \in Nat
    /\ refs \in Seq(Anchor)
    /\ call \in [Process -> Writing \cup {Idle}]
    /\ granted \subseteq (Nat \X Request)

(* Every anchored revision can be read back by everybody: names, revisions,  *)
(* the chain of tag objects and the binding to main agree, although the tags *)
(* come from different processes (the checks of GitHubLeaseStore.read).      *)
ChainVerifies ==
    \A i \in DOMAIN refs :
        /\ refs[i].registry.revision = i
        /\ refs[i].prev = IF i = 1 THEN Idle ELSE refs[i - 1].object
        /\ refs[i].target = refs[i].registry.main

(* A lease whose acquire returned is never lost: it is in the registry that  *)
(* is current now, under the same position and request, whatever other       *)
(* processes wrote since (the compare-and-set of _append_cas).               *)
GrantedNeverLost ==
    \A g \in granted : /\ g[1] \in DOMAIN Latest.leases
                       /\ Latest.leases[g[1]].request = g[2]

\* A scope covers every path that begins with it; two resources share a path
\* when both cover it.
Covers(scope, path) == \A k \in DOMAIN scope : k \in DOMAIN path /\ path[k] = scope[k]
SharePath(a, b) ==
    /\ a.kind = b.kind
    /\ \E path \in {a.scope, b.scope} : Covers(a.scope, path) /\ Covers(b.scope, path)

(* ORCHESTRATION.md: no two writers in one conflict domain.  Of two leases   *)
(* in force neither names an issue or branch of the other, and no path of    *)
(* the repository is covered by both, for any order of claims, renewals and  *)
(* releases (acquire_registry_lease, conflicting_resource_keys).             *)
WritersDisjoint ==
    \A i, k \in Active(Latest) : i # k =>
        LET q == Latest.leases[i].request
            r == Latest.leases[k].request
        IN  /\ q.issue # r.issue /\ q.branch # r.branch
            /\ \A a \in q.resources, b \in r.resources :
                   ~a.global /\ ~b.global /\ ~SharePath(a, b)

\* The leases in force and the last generation, as LeaseService sees them.
ActiveLeases == {[request |-> Latest.leases[i].request,
                  generation |-> Latest.leases[i].generation] : i \in Active(Latest)}
LastIssued   == IF Latest.leases = <<>> THEN 0
                ELSE Latest.leases[Len(Latest.leases)].generation
Disjoint(q, r) == ~Collides(q, r)

Service == INSTANCE LeaseService
             WITH active <- ActiveLeases, issued <- LastIssued, Exclusive <- Disjoint

(* The store implements LeaseService: seen from outside, concurrent calls    *)
(* take effect one at a time and none is lost or applied twice.              *)
ImplementsService == Service!Spec

=============================================================================
