-------------------------- MODULE LeaseStoreProofs --------------------------
(***************************************************************************)
(* Proofs about LeaseStore for any number of processes, requests, leases   *)
(* and revisions: every anchored revision verifies, and a granted lease is *)
(* never lost.                                                             *)
(***************************************************************************)
EXTENDS LeaseStore, FiniteSetTheorems, TLAPS

\* new still holds every lease of old, under the same position and request.
Keeps(old, new) ==
    \A i \in DOMAIN old.leases :
        i \in DOMAIN new.leases /\ new.leases[i].request = old.leases[i].request

Tip == IF refs = <<>> THEN Idle ELSE refs[Len(refs)].object

-----------------------------------------------------------------------------
(* What the registry transitions return.                                   *)

LEMMA AcquiredFacts ==
    ASSUME NEW reg \in Registry, NEW q \in Request, NEW m \in Nat, NEW now \in Nat
    PROVE  LET new == Acquired(reg, q, m, now)
           IN  /\ new \in Registry /\ new.revision = reg.revision + 1 /\ new.main = m
               /\ Keeps(reg, new)
               /\ Len(new.leases) \in DOMAIN new.leases
               /\ new.leases[Len(new.leases)].request = q
<1> DEFINE lease == [request |-> q, generation |-> reg.revision + 1, base |-> m,
                     beat |-> now, expires |-> now + Ttl, status |-> "ACTIVE"]
           new   == Acquired(reg, q, m, now)
<1>1. lease \in Lease /\ lease.request = q
  BY LeaseAssumption DEF Lease, Registry
<1>2. reg.leases \in Seq(Lease) /\ reg.revision \in Nat
  BY DEF Registry
<1>3. new = [revision |-> reg.revision + 1, main |-> m, leases |-> Append(reg.leases, lease)]
  BY DEF Acquired, Revised
<1> HIDE DEF lease, new
<1>4. /\ Append(reg.leases, lease) \in Seq(Lease)
      /\ Len(Append(reg.leases, lease)) = Len(reg.leases) + 1
      /\ Append(reg.leases, lease)[Len(reg.leases) + 1] = lease
      /\ \A i \in DOMAIN reg.leases : Append(reg.leases, lease)[i] = reg.leases[i]
  BY <1>1, <1>2
<1>5. new \in Registry /\ new.revision = reg.revision + 1 /\ new.main = m
  BY <1>2, <1>3, <1>4 DEF Registry
<1>6. Keeps(reg, new)
  BY <1>2, <1>3, <1>4 DEF Keeps
<1>7. Len(new.leases) \in DOMAIN new.leases /\ new.leases[Len(new.leases)].request = q
  BY <1>1, <1>2, <1>3, <1>4
<1>8. QED
  BY <1>5, <1>6, <1>7 DEF new

\* The transitions that change one lease in place.
LEMMA UpdatedFacts ==
    ASSUME NEW reg \in Registry, NEW i \in DOMAIN reg.leases, NEW m \in Nat,
           NEW lease \in Lease, lease.request = reg.leases[i].request
    PROVE  LET new == Revised(reg, m, [reg.leases EXCEPT ![i] = lease])
           IN  /\ new \in Registry /\ new.revision = reg.revision + 1 /\ new.main = m
               /\ Keeps(reg, new)
<1> DEFINE updated == [reg.leases EXCEPT ![i] = lease]
<1>1. reg.leases \in Seq(Lease) /\ reg.revision \in Nat
  BY DEF Registry
<1>2. /\ updated \in Seq(Lease) /\ DOMAIN updated = DOMAIN reg.leases
      /\ \A k \in DOMAIN reg.leases : updated[k] = IF k = i THEN lease ELSE reg.leases[k]
  BY <1>1
<1> HIDE DEF updated
<1>3. Keeps(reg, Revised(reg, m, updated))
  BY <1>2 DEF Keeps, Revised
<1>4. Revised(reg, m, updated) \in Registry
  BY <1>1, <1>2 DEF Revised, Registry
<1>5. QED
  BY <1>3, <1>4 DEF Revised, updated

LEMMA RenewedFacts ==
    ASSUME NEW reg \in Registry, NEW i \in DOMAIN reg.leases, NEW m \in Nat, NEW now \in Nat
    PROVE  LET new == Renewed(reg, i, m, now)
           IN  /\ new \in Registry /\ new.revision = reg.revision + 1 /\ new.main = m
               /\ Keeps(reg, new)
<1>1. reg.leases[i] \in Lease
  BY DEF Registry
<1>2. /\ [reg.leases[i] EXCEPT !.beat = now, !.expires = now + Ttl] \in Lease
      /\ [reg.leases[i] EXCEPT !.beat = now, !.expires = now + Ttl].request
             = reg.leases[i].request
  <2>1. now + Ttl \in Nat
    BY LeaseAssumption
  <2>2. QED
    BY <1>1, <2>1 DEF Lease
<1>3. QED
  BY <1>2, UpdatedFacts DEF Renewed

LEMMA ReleasedFacts ==
    ASSUME NEW reg \in Registry, NEW i \in DOMAIN reg.leases, NEW m \in Nat
    PROVE  LET new == Released(reg, i, m)
           IN  /\ new \in Registry /\ new.revision = reg.revision + 1 /\ new.main = m
               /\ Keeps(reg, new)
<1>1. reg.leases[i] \in Lease
  BY DEF Registry
<1>2. /\ [reg.leases[i] EXCEPT !.status = "RELEASED"] \in Lease
      /\ [reg.leases[i] EXCEPT !.status = "RELEASED"].request = reg.leases[i].request
  BY <1>1 DEF Lease
<1>3. QED
  BY <1>2, UpdatedFacts DEF Released

-----------------------------------------------------------------------------
(* The inductive invariant.  A tag object on its way to the provider        *)
(* continues the log as long as its name is free, and every later revision  *)
(* keeps the leases of an earlier one.                                      *)

CallOK(c) ==
    LET n == c.anchor.registry.revision
    IN  /\ n \in 1..Len(refs) + 1
        /\ c.anchor.target = c.anchor.registry.main
        /\ c.stage = "create" /\ n = Len(refs) + 1 =>
               c.anchor.prev = Tip /\ Keeps(Latest, c.anchor.registry)
        /\ c.stage = "readback" => n \in DOMAIN refs /\ refs[n] = c.anchor
        /\ c.op.kind = "acquire" =>
               LET leases == c.anchor.registry.leases
               IN  /\ Len(leases) \in DOMAIN leases
                   /\ leases[Len(leases)].request = c.op.request

CallsOK  == \A p \in Process : call[p] # Idle => CallOK(call[p])
LogKeeps == \A i \in DOMAIN refs : Keeps(refs[i].registry, Latest)
IndInv   == TypeOK /\ ChainVerifies /\ LogKeeps /\ CallsOK /\ GrantedNeverLost

LEMMA KeepsTransitive ==
    ASSUME NEW a, NEW b, NEW c, Keeps(a, b), Keeps(b, c)
    PROVE  Keeps(a, c)
  BY DEF Keeps

LEMMA LatestFacts ==
    ASSUME TypeOK, ChainVerifies
    PROVE  Latest \in Registry /\ Latest.revision = Len(refs)
<1>1. CASE refs = <<>>
  BY <1>1 DEF TypeOK, Latest, EmptyRegistry, Registry
<1>2. CASE refs # <<>>
  <2>1. Len(refs) \in DOMAIN refs /\ refs[Len(refs)] \in Anchor
    BY <1>2 DEF TypeOK
  <2>2. QED
    BY <1>2, <2>1 DEF Latest, ChainVerifies, Anchor
<1>3. QED
  BY <1>1, <1>2

LEMMA AppliedFacts ==
    ASSUME TypeOK, ChainVerifies, NEW op \in Operations, Allowed(Latest, op, main, clock)
    PROVE  LET new == Applied(Latest, op, main, clock)
           IN  /\ op \in Operation
               /\ new \in Registry /\ new.revision = Latest.revision + 1 /\ new.main = main
               /\ Keeps(Latest, new)
               /\ op.kind = "acquire" =>
                      /\ Len(new.leases) \in DOMAIN new.leases
                      /\ new.leases[Len(new.leases)].request = op.request
<1>1. Latest \in Registry /\ main \in Nat /\ clock \in Nat
  BY LatestFacts DEF TypeOK
<1>2. CASE op \in {[kind |-> "acquire", request |-> q, lease |-> 0] : q \in Request}
  <2>1. op.kind = "acquire" /\ op.request \in Request /\ op \in Operation
    BY <1>2 DEF Operation
  <2>2. QED
    BY <1>1, <2>1, AcquiredFacts DEF Applied
<1>3. CASE op \in {[kind |-> k, request |-> Latest.leases[i].request, lease |-> i] :
                     k \in {"heartbeat", "release"}, i \in DOMAIN Latest.leases}
  <2>1. PICK k \in {"heartbeat", "release"}, i \in DOMAIN Latest.leases :
            op = [kind |-> k, request |-> Latest.leases[i].request, lease |-> i]
    BY <1>3
  <2>2. Latest.leases \in Seq(Lease) /\ i \in Nat /\ Latest.leases[i].request \in Request
    <3>1. Latest.leases \in Seq(Lease)
      BY <1>1 DEF Registry
    <3>2. i \in Nat /\ Latest.leases[i] \in Lease
      BY <2>1, <3>1
    <3>3. QED
      BY <3>1, <3>2 DEF Lease
  <2>3. op \in Operation /\ op.lease = i /\ op.kind = k
    BY <2>1, <2>2 DEF Operation
  <2>4. CASE k = "heartbeat"
    BY <1>1, <2>1, <2>3, <2>4, RenewedFacts DEF Applied
  <2>5. CASE k = "release"
    BY <1>1, <2>1, <2>3, <2>5, ReleasedFacts DEF Applied
  <2>6. QED
    BY <2>4, <2>5
<1>4. QED
  BY <1>2, <1>3 DEF Operations

\* A step that adds no revision and takes no new call.
LEMMA QuietStep ==
    ASSUME IndInv, TypeOK', UNCHANGED <<refs, granted>>,
           \A p \in Process : call'[p] # Idle => call'[p] = call[p]
    PROVE  IndInv'
<1>1. Latest'.leases = Latest.leases
  BY DEF Latest, EmptyRegistry
<1>2. ChainVerifies'
  BY DEF IndInv, ChainVerifies
<1>3. LogKeeps' /\ GrantedNeverLost'
  BY <1>1 DEF IndInv, LogKeeps, Keeps, GrantedNeverLost
<1>4. CallsOK'
  <2>1. SUFFICES ASSUME NEW p \in Process, call'[p] # Idle PROVE CallOK(call[p])'
    BY DEF CallsOK
  <2>2. call'[p] = call[p] /\ CallOK(call[p])
    BY <2>1 DEF IndInv, CallsOK
  <2>3. QED
    BY <1>1, <2>2 DEF CallOK, Tip, Keeps
<1>5. QED
  BY <1>2, <1>3, <1>4 DEF IndInv

LEMMA TypeStep == TypeOK /\ ChainVerifies /\ [Next]_vars => TypeOK'
<1> SUFFICES ASSUME TypeOK, ChainVerifies, [Next]_vars PROVE TypeOK'
  OBVIOUS
<1>1. ASSUME NEW p \in Process, NEW op \in Operations, Read(p, op) PROVE TypeOK'
  <2> DEFINE new == Applied(Latest, op, main, clock)
             a   == [object |-> <<p, new.revision>>,
                     prev |-> IF refs = <<>> THEN Idle ELSE refs[Len(refs)].object,
                     target |-> main, registry |-> new]
  <2>1. op \in Operation /\ new \in Registry /\ new.revision \in Nat
    BY <1>1, AppliedFacts DEF Read, Registry
  <2>2. a.prev \in Object \cup {Idle}
    <3>1. CASE refs = <<>>
      BY <3>1
    <3>2. CASE refs # <<>>
      <4>1. Len(refs) \in DOMAIN refs /\ refs[Len(refs)] \in Anchor
        BY <3>2 DEF TypeOK
      <4>2. refs[Len(refs)].object \in Object
        BY <4>1 DEF Anchor
      <4>3. QED
        BY <3>2, <4>2
    <3>3. QED
      BY <3>1, <3>2
  <2>3. a \in Anchor
    BY <2>1, <2>2 DEF Anchor, Object, TypeOK
  <2>4. [stage |-> "create", op |-> op, expected |-> main, anchor |-> a] \in Writing
    BY <2>1, <2>3 DEF Writing, TypeOK
  <2>5. QED
    BY <1>1, <2>4 DEF Read, TypeOK
<1>2. ASSUME NEW p \in Process, CreateRef(p) PROVE TypeOK'
  <2>1. call[p] \in Writing /\ call[p].anchor \in Anchor
    BY <1>2 DEF CreateRef, At, TypeOK, Writing
  <2>2. [call[p] EXCEPT !.stage = "readback"] \in Writing
    BY <2>1 DEF Writing
  <2>3. refs' \in Seq(Anchor)
    BY <1>2, <2>1 DEF CreateRef, TypeOK
  <2>4. QED
    BY <1>2, <2>2, <2>3 DEF CreateRef, Drop, TypeOK
<1>3. ASSUME NEW p \in Process, Readback(p) PROVE TypeOK'
  <2>1. call[p] \in Writing
    BY <1>3 DEF Readback, At, TypeOK
  <2>2. call[p].op.request \in Request /\ Len(call[p].anchor.registry.leases) \in Nat
    BY <2>1 DEF Writing, Operation, Anchor, Registry
  <2>3. QED
    BY <1>3, <2>2 DEF Readback, Drop, TypeOK
<1>4. ASSUME NEW p \in Process, Fail(p) PROVE TypeOK'
  BY <1>4 DEF Fail, Drop, TypeOK
<1>5. CASE MoveMain
  BY <1>5 DEF MoveMain, TypeOK
<1>6. CASE Tick
  BY <1>6 DEF Tick, TypeOK
<1>7. CASE UNCHANGED vars
  BY <1>7 DEF TypeOK, vars
<1>8. QED
  BY <1>1, <1>2, <1>3, <1>4, <1>5, <1>6, <1>7 DEF Next

LEMMA InvStep == IndInv /\ [Next]_vars => IndInv'
<1> SUFFICES ASSUME IndInv, [Next]_vars PROVE IndInv'
  OBVIOUS
<1>0. TypeOK /\ TypeOK'
  BY TypeStep DEF IndInv
<1>1. ASSUME NEW p \in Process, NEW op \in Operations, Read(p, op) PROVE IndInv'
  <2> DEFINE new == Applied(Latest, op, main, clock)
  <2>1. /\ new \in Registry /\ new.revision = Len(refs) + 1 /\ new.main = main
        /\ Keeps(Latest, new)
        /\ op.kind = "acquire" => /\ Len(new.leases) \in DOMAIN new.leases
                                  /\ new.leases[Len(new.leases)].request = op.request
    BY <1>1, AppliedFacts, LatestFacts DEF Read, IndInv
  <2>2. UNCHANGED <<refs, granted, main>>
    BY <1>1 DEF Read
  <2>3. Latest' = Latest /\ Tip' = Tip
    BY <2>2 DEF Latest, Tip
  <2>4. CallsOK'
    <3>1. SUFFICES ASSUME NEW q \in Process, call'[q] # Idle PROVE CallOK(call[q])'
      BY DEF CallsOK
    <3>2. CASE q = p
      <4> DEFINE c == [stage |-> "create", op |-> op, expected |-> main,
                       anchor |-> [object |-> <<p, new.revision>>, prev |-> Tip,
                                   target |-> main, registry |-> new]]
      <4>1. call'[q] = c
        BY <1>0, <1>1, <3>2 DEF Read, Tip, TypeOK
      <4>2. Len(refs) + 1 \in 1..Len(refs) + 1
        BY <1>0 DEF TypeOK
      <4> HIDE DEF new
      <4>3. CallOK(c)
        BY <2>1, <4>2 DEF CallOK
      <4>4. QED
        BY <2>2, <2>3, <4>1, <4>3 DEF CallOK
    <3>3. CASE q # p
      <4>1. call'[q] = call[q] /\ CallOK(call[q])
        BY <1>0, <1>1, <3>1, <3>3 DEF Read, TypeOK, IndInv, CallsOK
      <4>2. QED
        BY <2>2, <2>3, <4>1 DEF CallOK
    <3>4. QED
      BY <3>2, <3>3
  <2>5. ChainVerifies' /\ LogKeeps' /\ GrantedNeverLost'
    BY <2>2, <2>3 DEF IndInv, ChainVerifies, LogKeeps, GrantedNeverLost
  <2>6. QED
    BY <1>0, <2>4, <2>5 DEF IndInv
<1>2. ASSUME NEW p \in Process, CreateRef(p) PROVE IndInv'
  <2> DEFINE a == call[p].anchor
             n == a.registry.revision
  <2>1. call[p] \in Writing /\ a \in Anchor /\ a.registry \in Registry /\ CallOK(call[p])
    BY <1>0, <1>2 DEF CreateRef, At, TypeOK, Writing, Anchor, IndInv, CallsOK
  <2>2. CASE n \in DOMAIN refs
    BY <1>0, <1>2, <2>2, QuietStep DEF CreateRef, Drop, TypeOK
  <2>3. CASE n \notin DOMAIN refs
    <3>1. /\ refs' = Append(refs, a) /\ UNCHANGED granted
          /\ call' = [call EXCEPT ![p].stage = "readback"]
      BY <1>2, <2>3 DEF CreateRef
    <3>2. refs \in Seq(Anchor) /\ Len(refs) \in Nat
      BY <1>0 DEF TypeOK
    <3>3. n = Len(refs) + 1
      BY <2>1, <2>3, <3>2 DEF CallOK
    <3>4. a.prev = Tip /\ Keeps(Latest, a.registry) /\ a.target = a.registry.main
      BY <1>2, <2>1, <3>3 DEF CallOK, CreateRef, At
    <3>5. /\ Len(refs') = Len(refs) + 1 /\ DOMAIN refs' = 1..Len(refs) + 1
          /\ refs'[Len(refs) + 1] = a /\ refs' # <<>>
          /\ \A i \in DOMAIN refs : refs'[i] = refs[i] /\ i \in DOMAIN refs'
          /\ \A i \in DOMAIN refs' : i \in DOMAIN refs \/ i = Len(refs) + 1
      BY <2>1, <3>1, <3>2
    <3>6. Latest' = a.registry
      BY <3>5 DEF Latest
    <3>7. ChainVerifies'
      <4>1. SUFFICES ASSUME NEW i \in DOMAIN refs'
                     PROVE  /\ refs'[i].registry.revision = i
                            /\ refs'[i].prev = IF i = 1 THEN Idle ELSE refs'[i - 1].object
                            /\ refs'[i].target = refs'[i].registry.main
        BY DEF ChainVerifies
      <4>2. CASE i \in DOMAIN refs
        <5>1. i # 1 => i - 1 \in DOMAIN refs
          BY <3>2, <4>2
        <5>2. QED
          BY <3>5, <4>2, <5>1 DEF IndInv, ChainVerifies
      <4>3. CASE i = Len(refs) + 1
        <5>1. CASE refs = <<>>
          BY <3>2, <3>3, <3>4, <3>5, <4>3, <5>1 DEF Tip
        <5>2. CASE refs # <<>>
          <6>1. Len(refs) \in DOMAIN refs /\ i # 1 /\ i - 1 = Len(refs)
            BY <3>2, <4>3, <5>2
          <6>2. QED
            BY <3>3, <3>4, <3>5, <4>3, <5>2, <6>1 DEF Tip
        <5>3. QED
          BY <5>1, <5>2
      <4>4. QED
        BY <3>5, <4>2, <4>3
    <3>8. LogKeeps'
      <4>1. ASSUME NEW i \in DOMAIN refs PROVE Keeps(refs'[i].registry, a.registry)
        BY <3>4, <3>5, KeepsTransitive DEF IndInv, LogKeeps
      <4>2. Keeps(a.registry, a.registry)
        BY DEF Keeps
      <4>3. QED
        BY <3>5, <3>6, <4>1, <4>2 DEF LogKeeps
    <3>9. GrantedNeverLost'
      BY <3>1, <3>4, <3>6 DEF IndInv, GrantedNeverLost, Keeps
    <3>10. CallsOK'
      <4>1. SUFFICES ASSUME NEW q \in Process, call'[q] # Idle PROVE CallOK(call[q])'
        BY DEF CallsOK
      <4>2. CASE q = p
        <5>1. call'[q] = [call[p] EXCEPT !.stage = "readback"]
          BY <1>0, <3>1, <4>2 DEF TypeOK
        <5>2. call'[q].stage = "readback" /\ call'[q].op = call[p].op /\ call'[q].anchor = a
          BY <2>1, <5>1 DEF Writing
        <5>3. /\ n \in 1..Len(refs') + 1 /\ n \in DOMAIN refs' /\ refs'[n] = a
          BY <3>2, <3>3, <3>5
        <5>4. QED
          BY <2>1, <5>2, <5>3 DEF CallOK
      <4>3. CASE q # p
        <5>1. call'[q] = call[q] /\ CallOK(call[q])
          BY <1>0, <3>1, <4>1, <4>3 DEF TypeOK, IndInv, CallsOK
        <5> DEFINE k == call[q].anchor.registry.revision
        <5>2. k \in 1..Len(refs') + 1 /\ k # Len(refs') + 1
          BY <3>2, <3>5, <5>1 DEF CallOK
        <5>3. call[q].stage = "readback" => k \in DOMAIN refs' /\ refs'[k] = call[q].anchor
          BY <3>5, <5>1 DEF CallOK
        <5>4. QED
          BY <5>1, <5>2, <5>3 DEF CallOK
      <4>4. QED
        BY <4>2, <4>3
    <3>11. QED
      BY <1>0, <3>7, <3>8, <3>9, <3>10 DEF IndInv
  <2>4. QED
    BY <2>2, <2>3
<1>3. ASSUME NEW p \in Process, Readback(p) PROVE IndInv'
  <2> DEFINE c == call[p]
             g == <<Len(c.anchor.registry.leases), c.op.request>>
  <2>1. CallOK(c) /\ c.stage = "readback"
    BY <1>3 DEF Readback, At, IndInv, CallsOK
  <2>2. UNCHANGED <<refs, main>> /\ call' = [call EXCEPT ![p] = Idle]
    BY <1>3 DEF Readback, Drop
  <2>3. Latest' = Latest /\ Tip' = Tip
    BY <2>2 DEF Latest, Tip
  <2>4. GrantedNeverLost'
    <3>1. CASE c.op.kind = "acquire"
      <4>1. Keeps(c.anchor.registry, Latest)
        BY <2>1 DEF CallOK, IndInv, LogKeeps
      <4>2. /\ Len(c.anchor.registry.leases) \in DOMAIN Latest.leases
            /\ Latest.leases[Len(c.anchor.registry.leases)].request = c.op.request
        BY <2>1, <3>1, <4>1 DEF CallOK, Keeps
      <4>3. granted' \subseteq granted \cup {g}
        BY <1>3 DEF Readback
      <4>4. QED
        BY <2>3, <4>2, <4>3 DEF IndInv, GrantedNeverLost
    <3>2. CASE c.op.kind # "acquire"
      BY <1>3, <2>3, <3>2 DEF Readback, IndInv, GrantedNeverLost
    <3>3. QED
      BY <3>1, <3>2
  <2>5. ChainVerifies' /\ LogKeeps'
    BY <2>2, <2>3 DEF IndInv, ChainVerifies, LogKeeps
  <2>6. CallsOK'
    <3>1. SUFFICES ASSUME NEW q \in Process, call'[q] # Idle PROVE CallOK(call[q])'
      BY DEF CallsOK
    <3>2. call'[q] = call[q] /\ CallOK(call[q])
      BY <1>0, <2>2, <3>1 DEF TypeOK, IndInv, CallsOK
    <3>3. QED
      BY <2>2, <2>3, <3>2 DEF CallOK
  <2>7. QED
    BY <1>0, <2>4, <2>5, <2>6 DEF IndInv
<1>4. ASSUME NEW p \in Process, Fail(p) PROVE IndInv'
  BY <1>0, <1>4, QuietStep DEF Fail, Drop, TypeOK
<1>5. CASE MoveMain
  BY <1>0, <1>5, QuietStep DEF MoveMain
<1>6. CASE Tick
  BY <1>0, <1>6, QuietStep DEF Tick
<1>7. CASE UNCHANGED vars
  BY <1>0, <1>7, QuietStep DEF vars
<1>8. QED
  BY <1>1, <1>2, <1>3, <1>4, <1>5, <1>6, <1>7 DEF Next

LEMMA InvHolds == Spec => []IndInv
<1>1. Init => IndInv
  <2>1. Init => TypeOK
    BY DEF Init, TypeOK
  <2>2. Init => ChainVerifies /\ LogKeeps /\ CallsOK /\ GrantedNeverLost
    BY DEF Init, ChainVerifies, LogKeeps, CallsOK, GrantedNeverLost
  <2>3. QED
    BY <2>1, <2>2 DEF IndInv
<1>2. QED
  BY <1>1, InvStep, PTL DEF Spec

\* Every anchored revision passes the checks of GitHubLeaseStore.read, for any
\* number of processes and any interleaving of their provider calls.
THEOREM LogVerifies == Spec => []ChainVerifies
<1>1. IndInv => ChainVerifies
  BY DEF IndInv
<1>2. QED
  BY <1>1, InvHolds, PTL

\* A lease whose acquire returned stays in the registry, for any number of
\* processes (the tag name as compare-and-set of _append_cas).
THEOREM GrantsSurvive == Spec => []GrantedNeverLost
<1>1. IndInv => GrantedNeverLost
  BY DEF IndInv
<1>2. QED
  BY <1>1, InvHolds, PTL
-----------------------------------------------------------------------------
(* The registry in force.  What a call is about to anchor is one transition *)
(* of the registry that is current, seen as LeaseService sees it.           *)

\* Every lease has a generation of its own, in the order of their positions.
GenerationsGrow(reg) ==
    /\ \A i \in DOMAIN reg.leases : reg.leases[i].generation \in 1..reg.revision
    /\ \A i, k \in DOMAIN reg.leases :
           i < k => reg.leases[i].generation < reg.leases[k].generation

SameNames(old, new) ==
    /\ DOMAIN new.leases = DOMAIN old.leases
    /\ \A k \in DOMAIN old.leases :
           /\ new.leases[k].request = old.leases[k].request
           /\ new.leases[k].generation = old.leases[k].generation

Grants(old, new) ==
    /\ Cardinality(Active(old)) < Ceiling
    /\ \E lease \in Lease :
           /\ \A i \in Active(old) : ~Collides(lease.request, old.leases[i].request)
           /\ lease.generation = old.revision + 1
           /\ lease.status = "ACTIVE"
           /\ new.leases = Append(old.leases, lease)

Renews(old, new) == SameNames(old, new) /\ Active(new) = Active(old)

Gives(old, new) ==
    SameNames(old, new) /\ \E i \in Active(old) : Active(new) = Active(old) \ {i}

Follows(old, new) ==
    /\ new.revision = old.revision + 1
    /\ ValidRegistry(new)
    /\ Grants(old, new) \/ Renews(old, new) \/ Gives(old, new)

PendingFollows ==
    \A p \in Process :
        At(p, "create") /\ call[p].anchor.registry.revision = Len(refs) + 1
            => Follows(Latest, call[p].anchor.registry)

RegistryInv == ValidRegistry(Latest) /\ GenerationsGrow(Latest) /\ PendingFollows

LEMMA ActiveFinite ==
    ASSUME NEW reg \in Registry
    PROVE  IsFiniteSet(Active(reg)) /\ Cardinality(Active(reg)) \in Nat
<1>1. Active(reg) \in SUBSET (1..Len(reg.leases)) /\ Len(reg.leases) \in Int
  BY DEF Active, Registry
<1>2. IsFiniteSet(1..Len(reg.leases))
  BY <1>1, FS_Interval
<1>3. IsFiniteSet(Active(reg))
  BY <1>1, <1>2, FS_Subset
<1>4. QED
  BY <1>3, FS_CardinalityType

\* Each transition of the registry is one of the three steps.
LEMMA AppliedFollows ==
    ASSUME TypeOK, ChainVerifies, NEW op \in Operations, Allowed(Latest, op, main, clock)
    PROVE  LET new == Applied(Latest, op, main, clock)
           IN  Grants(Latest, new) \/ Renews(Latest, new) \/ Gives(Latest, new)
<1> DEFINE new == Applied(Latest, op, main, clock)
<1>1. Latest \in Registry /\ main \in Nat /\ clock \in Nat
  BY LatestFacts DEF TypeOK
<1>2. Latest.leases \in Seq(Lease) /\ Latest.revision \in Nat
  BY <1>1 DEF Registry
<1>3. CASE op \in {[kind |-> "acquire", request |-> q, lease |-> 0] : q \in Request}
  <2> DEFINE lease == [request |-> op.request, generation |-> Latest.revision + 1,
                       base |-> main, beat |-> clock, expires |-> clock + Ttl,
                       status |-> "ACTIVE"]
  <2>1. op.kind = "acquire" /\ op.request \in Request
    BY <1>3
  <2>2. lease \in Lease
    BY <1>1, <1>2, <2>1, LeaseAssumption DEF Lease
  <2>3. MayAcquire(Latest, op.request, main, clock) /\ new.leases = Append(Latest.leases, lease)
    BY <2>1 DEF Allowed, Applied, Acquired, Revised
  <2>4. QED
    BY <2>2, <2>3 DEF Grants, MayAcquire
<1>4. CASE op \in {[kind |-> k, request |-> Latest.leases[i].request, lease |-> i] :
                     k \in {"heartbeat", "release"}, i \in DOMAIN Latest.leases}
  <2>1. /\ op.kind \in {"heartbeat", "release"} /\ op.lease \in DOMAIN Latest.leases
        /\ OwnsActive(Latest, op.lease, op.request)
    <3>1. PICK k \in {"heartbeat", "release"}, j \in DOMAIN Latest.leases :
              op = [kind |-> k, request |-> Latest.leases[j].request, lease |-> j]
      BY <1>4
    <3>2. op.kind = k /\ op.lease = j
      BY <3>1
    <3>3. CASE k = "heartbeat"
      BY <3>1, <3>2, <3>3 DEF Allowed, MayHeartbeat
    <3>4. CASE k = "release"
      BY <3>1, <3>2, <3>4 DEF Allowed
    <3>5. QED
      BY <3>1, <3>3, <3>4
  <2> DEFINE i == op.lease
  <2>2. i \in Active(Latest) /\ Latest.leases[i] \in Lease
    BY <1>2, <2>1 DEF OwnsActive, Active
  <2>3. CASE op.kind = "heartbeat"
    <3> DEFINE lease == [Latest.leases[i] EXCEPT !.beat = clock, !.expires = clock + Ttl]
    <3>1. /\ lease.request = Latest.leases[i].request
          /\ lease.generation = Latest.leases[i].generation
          /\ lease.status = Latest.leases[i].status
      BY <2>2 DEF Lease
    <3>2. new.leases = [Latest.leases EXCEPT ![i] = lease]
      BY <2>3 DEF Applied, Renewed, Revised
    <3> HIDE DEF lease, new
    <3>3. SameNames(Latest, new) /\ Active(new) = Active(Latest)
      BY <1>2, <2>1, <3>1, <3>2 DEF SameNames, Active
    <3>4. QED
      BY <3>3 DEF Renews, new
  <2>4. CASE op.kind = "release"
    <3> DEFINE lease == [Latest.leases[i] EXCEPT !.status = "RELEASED"]
    <3>1. /\ lease.request = Latest.leases[i].request
          /\ lease.generation = Latest.leases[i].generation
          /\ lease.status = "RELEASED"
      BY <2>2 DEF Lease
    <3>2. new.leases = [Latest.leases EXCEPT ![i] = lease]
      BY <2>4 DEF Applied, Released, Revised
    <3> HIDE DEF lease, new
    <3>3. SameNames(Latest, new) /\ Active(new) = Active(Latest) \ {i}
      BY <1>2, <2>1, <3>1, <3>2 DEF SameNames, Active
    <3>4. QED
      BY <2>2, <3>3 DEF Gives, new
  <2>5. QED
    BY <2>1, <2>3, <2>4
<1>5. QED
  BY <1>3, <1>4 DEF Operations

\* Every step of the registry uses generations in order.
LEMMA GenerationsKept ==
    ASSUME NEW old \in Registry, NEW new \in Registry, GenerationsGrow(old), Follows(old, new)
    PROVE  GenerationsGrow(new)
<1>1. old.revision \in Nat /\ old.leases \in Seq(Lease) /\ new.revision = old.revision + 1
  BY DEF Registry, Follows
<1>2. CASE SameNames(old, new)
  BY <1>1, <1>2 DEF SameNames, GenerationsGrow
<1>3. CASE Grants(old, new)
  <2>1. PICK lease \in Lease : /\ lease.generation = old.revision + 1
                               /\ new.leases = Append(old.leases, lease)
    BY <1>3 DEF Grants
  <2>2. /\ DOMAIN new.leases = 1..Len(old.leases) + 1 /\ DOMAIN old.leases = 1..Len(old.leases)
        /\ new.leases[Len(old.leases) + 1] = lease
        /\ \A k \in DOMAIN old.leases : new.leases[k] = old.leases[k]
        /\ Len(old.leases) \in Nat
    BY <1>1, <2>1
  <2> DEFINE n == Len(old.leases)
  <2>3. \A k \in 1..n : /\ new.leases[k].generation = old.leases[k].generation
                        /\ new.leases[k].generation \in 1..old.revision
    BY <2>2 DEF GenerationsGrow
  <2>4. n \in Nat /\ new.leases[n + 1].generation = old.revision + 1
    BY <2>1, <2>2
  <2>5. \A k \in 1..n + 1 : k \in 1..n \/ k = n + 1
    BY <2>4
  <2>6. ASSUME NEW k \in 1..n + 1 PROVE new.leases[k].generation \in 1..new.revision
    <3>1. CASE k \in 1..n
      <4>1. new.leases[k].generation \in 1..old.revision
        BY <2>3, <3>1
      <4>2. QED
        BY <1>1, <4>1
    <3>2. CASE k = n + 1
      BY <1>1, <2>4, <3>2
    <3>3. QED
      BY <2>5, <3>1, <3>2
  <2>7. ASSUME NEW i \in 1..n + 1, NEW k \in 1..n + 1, i < k
        PROVE  new.leases[i].generation < new.leases[k].generation
    <3>1. i \in 1..n
      BY <2>4, <2>7
    <3>2. CASE k = n + 1
      BY <1>1, <2>3, <2>4, <3>1, <3>2
    <3>3. CASE k \in 1..n
      BY <2>2, <2>3, <2>7, <3>1, <3>3 DEF GenerationsGrow
    <3>4. QED
      BY <2>5, <3>2, <3>3
  <2>8. QED
    BY <2>2, <2>6, <2>7 DEF GenerationsGrow
<1>4. QED
  BY <1>2, <1>3 DEF Follows, Renews, Gives

LEMMA LatestLeases ==
    ASSUME UNCHANGED refs
    PROVE  Latest'.leases = Latest.leases /\ Latest'.revision = Latest.revision
BY DEF Latest, EmptyRegistry

\* What a registry is worth depends on its leases and its revision only.
LEMMA SameRegistry ==
    ASSUME NEW a, NEW b, a.leases = b.leases, a.revision = b.revision
    PROVE  /\ ValidRegistry(a) => ValidRegistry(b)
           /\ GenerationsGrow(a) => GenerationsGrow(b)
           /\ \A new : Follows(a, new) => Follows(b, new)
<1>1. Active(a) = Active(b)
  BY DEF Active
<1>2. ValidRegistry(a) => ValidRegistry(b)
  BY <1>1 DEF ValidRegistry
<1>3. GenerationsGrow(a) => GenerationsGrow(b)
  BY DEF GenerationsGrow
<1>4. \A new : Follows(a, new) => Follows(b, new)
  BY <1>1 DEF Follows, Grants, Renews, Gives, SameNames
<1>5. QED
  BY <1>2, <1>3, <1>4

\* Only an anchored revision changes the registry, and it is one step of it.
LEMMA WhoChangesRegistry ==
    ASSUME IndInv, RegistryInv, [Next]_vars
    PROVE  \/ UNCHANGED refs
           \/ /\ Follows(Latest, Latest')
              /\ Latest' \in Registry
              /\ Len(refs') = Len(refs) + 1
<1>1. ASSUME NEW p \in Process, CreateRef(p), refs' # refs
      PROVE  /\ Follows(Latest, Latest') /\ Latest' \in Registry
             /\ Len(refs') = Len(refs) + 1
  <2> DEFINE a == call[p].anchor
  <2>1. /\ call[p] \in Writing /\ a \in Anchor /\ CallOK(call[p]) /\ refs \in Seq(Anchor)
        /\ refs' = Append(refs, a) /\ a.registry.revision \notin DOMAIN refs
    BY <1>1 DEF CreateRef, At, IndInv, TypeOK, Writing, CallsOK
  <2>2. a.registry.revision = Len(refs) + 1
    BY <2>1 DEF CallOK
  <2>3. Follows(Latest, a.registry)
    BY <1>1, <2>2 DEF RegistryInv, PendingFollows, CreateRef
  <2>4. Len(refs') = Len(refs) + 1 /\ refs'[Len(refs')] = a /\ refs' # <<>>
    BY <2>1
  <2>5. Latest' = a.registry
    BY <2>4 DEF Latest
  <2>6. QED
    BY <2>1, <2>3, <2>4, <2>5 DEF Anchor
<1>2. QED
  BY <1>1 DEF Next, vars, Read, Readback, Fail, MoveMain, Tick

LEMMA RegistryStep == IndInv /\ RegistryInv /\ [Next]_vars => RegistryInv'
<1> SUFFICES ASSUME IndInv, RegistryInv, [Next]_vars PROVE RegistryInv'
  OBVIOUS
<1>0. TypeOK /\ TypeOK' /\ IndInv' /\ Latest \in Registry /\ Latest.revision = Len(refs)
      /\ Len(refs) \in Nat
  BY TypeStep, InvStep, LatestFacts DEF IndInv, TypeOK
<1>1. ASSUME UNCHANGED refs
      PROVE  /\ ValidRegistry(Latest)' /\ GenerationsGrow(Latest)'
             /\ \A new : Follows(Latest, new) => Follows(Latest', new)
  BY <1>1, LatestLeases, SameRegistry DEF RegistryInv
<1>2. ASSUME NEW p \in Process, NEW op \in Operations, Read(p, op) PROVE PendingFollows'
  <2> DEFINE new == Applied(Latest, op, main, clock)
  <2>1. UNCHANGED <<refs, main>> /\ ValidRegistry(new)
    BY <1>2 DEF Read
  <2>2. Follows(Latest, new)
    BY <1>2, <2>1, AppliedFacts, AppliedFollows DEF Read, IndInv, Follows
  <2>3. SUFFICES ASSUME NEW q \in Process, At(q, "create")',
                        call'[q].anchor.registry.revision = Len(refs) + 1
                 PROVE  Follows(Latest', call'[q].anchor.registry)
    BY <2>1 DEF PendingFollows
  <2>4. CASE q = p
    <3>1. call'[q].anchor.registry = new
      BY <1>0, <1>2, <2>4 DEF Read, TypeOK
    <3>2. QED
      BY <1>1, <2>1, <2>2, <3>1
  <2>5. CASE q # p
    <3>1. call'[q] = call[q]
      BY <1>0, <1>2, <2>5 DEF Read, TypeOK
    <3>2. QED
      BY <1>1, <2>1, <2>3, <3>1 DEF RegistryInv, PendingFollows, At
  <2>6. QED
    BY <2>4, <2>5
<1>3. ASSUME UNCHANGED refs, \A p \in Process : call'[p] # Idle => call'[p].stage # "create"
                                                   \/ call'[p] = call[p]
      PROVE  PendingFollows'
  BY <1>1, <1>3 DEF RegistryInv, PendingFollows, At
<1>4. ASSUME NEW p \in Process, refs' # refs
      PROVE  At(p, "create")' => call'[p].anchor.registry.revision # Len(refs') + 1
  <2>1. Len(refs') = Len(refs) + 1
    BY <1>4, WhoChangesRegistry
  <2>2. PICK q \in Process : CreateRef(q)
    BY <1>4 DEF Next, vars, Read, Readback, Fail, MoveMain, Tick
  <2>3. SUFFICES ASSUME At(p, "create")'
                 PROVE  call'[p].anchor.registry.revision # Len(refs') + 1
    OBVIOUS
  <2>4. call'[p] = call[p]
    <3>1. call' = [call EXCEPT ![q].stage = "readback"]
      BY <1>4, <2>2 DEF CreateRef
    <3>2. call[q] \in Writing
      BY <1>0, <2>2 DEF CreateRef, At, TypeOK
    <3>3. p # q
      BY <1>0, <2>3, <3>1, <3>2 DEF At, TypeOK, Writing
    <3>4. QED
      BY <1>0, <3>1, <3>3 DEF TypeOK
  <2>5. call[p].anchor.registry.revision \in 1..Len(refs) + 1
    BY <2>3, <2>4 DEF At, IndInv, CallsOK, CallOK
  <2>6. QED
    BY <1>0, <2>1, <2>4, <2>5
<1>5. PendingFollows'
  <2>1. CASE refs' # refs
    BY <1>4, <2>1 DEF PendingFollows
  <2>2. ASSUME NEW p \in Process, refs' = refs, CreateRef(p) \/ Readback(p) \/ Fail(p)
        PROVE  PendingFollows'
    <3>1. Drop(p) \/ call' = [call EXCEPT ![p].stage = "readback"]
      BY <2>2 DEF CreateRef, Readback, Fail
    <3>2. call[p] \in Writing
      BY <1>0, <2>2 DEF CreateRef, Readback, Fail, At, TypeOK
    <3>3. [call[p] EXCEPT !.stage = "readback"].stage = "readback"
      BY <3>2 DEF Writing
    <3>4. \A q \in Process : call'[q] # Idle => call'[q].stage # "create"
                                                  \/ call'[q] = call[q]
      BY <1>0, <3>1, <3>3 DEF Drop, TypeOK
    <3>5. QED
      BY <1>3, <2>2, <3>4
  <2>3. CASE UNCHANGED <<refs, call>>
    BY <1>3, <2>3
  <2>4. QED
    BY <1>2, <2>1, <2>2, <2>3 DEF Next, vars, MoveMain, Tick
<1>6. ValidRegistry(Latest)' /\ GenerationsGrow(Latest)'
  <2>1. CASE UNCHANGED refs
    BY <1>1, <2>1
  <2>2. CASE ~UNCHANGED refs
    <3>1. Follows(Latest, Latest') /\ Latest' \in Registry
      BY <2>2, WhoChangesRegistry
    <3>2. ValidRegistry(Latest') /\ GenerationsGrow(Latest')
      BY <1>0, <3>1, GenerationsKept DEF RegistryInv, Follows
    <3>3. QED
      BY <3>2
  <2>3. QED
    BY <2>1, <2>2
<1>7. QED
  BY <1>5, <1>6 DEF RegistryInv

LEMMA RegistryInvHolds == Spec => []RegistryInv
<1>1. Init => RegistryInv
  <2> SUFFICES ASSUME Init PROVE RegistryInv
    OBVIOUS
  <2>1. Latest.leases = <<>> /\ Active(Latest) = {}
    BY DEF Init, Latest, EmptyRegistry, Active
  <2>2. Cardinality(Active(Latest)) = 0
    BY <2>1, FS_EmptySet
  <2>3. ValidRegistry(Latest)
    BY <2>1, <2>2, LeaseAssumption DEF ValidRegistry
  <2>4. GenerationsGrow(Latest)
    BY <2>1 DEF GenerationsGrow
  <2>5. PendingFollows
    BY DEF Init, PendingFollows, At
  <2>6. QED
    BY <2>3, <2>4, <2>5 DEF RegistryInv
<1>2. QED
  BY <1>1, RegistryStep, InvHolds, PTL DEF Spec
\* A scope that covers a path is a prefix of it.
LEMMA CoversIsPrefix ==
    ASSUME NEW a \in Seq(STRING), NEW b \in Seq(STRING), Covers(a, b)
    PROVE  Len(a) <= Len(b) /\ SubSeq(b, 1, Len(a)) = a
<1>1. DOMAIN a = 1..Len(a) /\ DOMAIN b = 1..Len(b) /\ Len(a) \in Nat /\ Len(b) \in Nat
  OBVIOUS
<1>2. Len(a) <= Len(b)
  <2>1. Len(a) = 0 \/ Len(a) \in DOMAIN b
    BY <1>1 DEF Covers
  <2>2. QED
    BY <1>1, <2>1
<1>3. /\ SubSeq(b, 1, Len(a)) \in Seq(STRING) /\ Len(SubSeq(b, 1, Len(a))) = Len(a)
      /\ \A k \in 1..Len(a) : SubSeq(b, 1, Len(a))[k] = b[k]
  BY <1>1, <1>2
<1>4. SubSeq(b, 1, Len(a)) = a
  BY <1>1, <1>3 DEF Covers
<1>5. QED
  BY <1>2, <1>4

\* Of two leases in force neither names an issue or branch of the other and no path
\* is covered by both, for any requests, controllers and interleavings
\* (acquire_registry_lease, conflicting_resource_keys, validate_lease_registry).
THEOREM WritersStayDisjoint == Spec => []WritersDisjoint
<1>1. ASSUME IndInv, RegistryInv PROVE WritersDisjoint
  <2>1. SUFFICES ASSUME NEW i \in Active(Latest), NEW k \in Active(Latest), i # k
                 PROVE  LET q == Latest.leases[i].request
                            r == Latest.leases[k].request
                        IN  /\ q.issue # r.issue /\ q.branch # r.branch
                            /\ \A a \in q.resources, b \in r.resources :
                                   ~a.global /\ ~b.global /\ ~SharePath(a, b)
    BY DEF WritersDisjoint
  <2> DEFINE q == Latest.leases[i].request
             r == Latest.leases[k].request
  <2>2. ~Collides(q, r)
    BY <1>1, <2>1 DEF RegistryInv, ValidRegistry
  <2>3. q \in Request /\ r \in Request
    <3>1. Latest.leases \in Seq(Lease)
      BY <1>1, LatestFacts DEF IndInv, Registry
    <3>2. Latest.leases[i] \in Lease /\ Latest.leases[k] \in Lease
      BY <3>1 DEF Active
    <3>3. QED
      BY <3>2 DEF Lease
  <2>4. ASSUME NEW a \in q.resources, NEW b \in r.resources
        PROVE  ~a.global /\ ~b.global /\ ~SharePath(a, b)
    <3>1. ~ResourceOverlap(a, b)
      BY <2>2 DEF Collides, ConflictingResources
    <3>2. a.scope \in Seq(STRING) /\ b.scope \in Seq(STRING)
      BY <2>3, ScopeAssumption
    <3>3. a.kind = b.kind => ~Covers(a.scope, b.scope) /\ ~Covers(b.scope, a.scope)
      BY <3>1, <3>2, CoversIsPrefix DEF ResourceOverlap, ScopeOverlap
    <3>4. QED
      BY <3>1, <3>3 DEF ResourceOverlap, SharePath
  <2>5. QED
    BY <2>2, <2>4 DEF Collides
<1>2. QED
  BY <1>1, InvHolds, RegistryInvHolds, PTL

-----------------------------------------------------------------------------
(* The refinement: every step of the store is a step of LeaseService or     *)
(* changes nothing of what it shows.                                        *)

ActiveOf(reg) == {[request |-> reg.leases[i].request,
                   generation |-> reg.leases[i].generation] : i \in Active(reg)}
LastOf(reg)   == IF reg.leases = <<>> THEN 0 ELSE reg.leases[Len(reg.leases)].generation

LEMMA ActiveOfCardinality ==
    ASSUME NEW reg \in Registry
    PROVE  Cardinality(ActiveOf(reg)) <= Cardinality(Active(reg))
           /\ Cardinality(ActiveOf(reg)) \in Nat
<1> DEFINE f == [i \in Active(reg) |-> [request |-> reg.leases[i].request,
                                       generation |-> reg.leases[i].generation]]
<1>1. f \in Surjection(Active(reg), ActiveOf(reg))
  BY DEF Surjection, ActiveOf
<1>2. IsFiniteSet(Active(reg))
  BY ActiveFinite
<1>3. QED
  BY <1>1, <1>2, FS_Surjection, FS_CardinalityType

LEMMA RenewIsInvisible ==
    ASSUME NEW old \in Registry, NEW new \in Registry, Renews(old, new)
    PROVE  ActiveOf(new) = ActiveOf(old) /\ LastOf(new) = LastOf(old)
<1>1. /\ old.leases \in Seq(Lease) /\ new.leases \in Seq(Lease)
      /\ Active(old) \subseteq DOMAIN old.leases
  BY DEF Registry, Active
<1>2. ActiveOf(new) = ActiveOf(old)
  BY <1>1 DEF Renews, SameNames, ActiveOf
<1>3. LastOf(new) = LastOf(old)
  <2>1. Len(new.leases) = Len(old.leases)
    BY <1>1 DEF Renews, SameNames
  <2>2. old.leases # <<>> => Len(old.leases) \in DOMAIN old.leases
    BY <1>1
  <2>3. new.leases = <<>> <=> old.leases = <<>>
    BY <1>1, <2>1
  <2>4. QED
    BY <2>1, <2>2, <2>3 DEF Renews, SameNames, LastOf
<1>4. QED
  BY <1>2, <1>3

LEMMA GivesIsRelease ==
    ASSUME NEW old \in Registry, NEW new \in Registry, GenerationsGrow(old), Gives(old, new)
    PROVE  /\ \E lease \in ActiveOf(old) : ActiveOf(new) = ActiveOf(old) \ {lease}
           /\ LastOf(new) = LastOf(old)
<1>1. /\ old.leases \in Seq(Lease) /\ new.leases \in Seq(Lease)
      /\ Active(old) \subseteq DOMAIN old.leases /\ DOMAIN old.leases \subseteq Nat
      /\ \A k \in DOMAIN old.leases : old.leases[k].generation \in Nat
  <2>1. old.leases \in Seq(Lease) /\ new.leases \in Seq(Lease)
    BY DEF Registry
  <2>2. \A k \in DOMAIN old.leases : k \in Nat /\ old.leases[k] \in Lease
    BY <2>1
  <2>3. \A k \in DOMAIN old.leases : old.leases[k].generation \in Nat
    BY <2>2 DEF Lease
  <2>4. QED
    BY <2>1, <2>2, <2>3 DEF Active
<1>2. PICK i \in Active(old) : Active(new) = Active(old) \ {i}
  BY DEF Gives
<1> DEFINE View(k) == [request |-> old.leases[k].request,
                       generation |-> old.leases[k].generation]
<1>3. ActiveOf(new) = {View(k) : k \in Active(old) \ {i}}
  BY <1>1, <1>2 DEF ActiveOf, Gives, SameNames
<1>4. \A k \in Active(old) : k # i => View(k) # View(i)
  <2>1. SUFFICES ASSUME NEW k \in Active(old), k # i
                 PROVE  old.leases[k].generation # old.leases[i].generation
    BY Zenon
  <2>2. k < i \/ i < k
    BY <1>1, <2>1
  <2>3. old.leases[k].generation < old.leases[i].generation
        \/ old.leases[i].generation < old.leases[k].generation
    BY <1>1, <2>2 DEF GenerationsGrow
  <2>4. QED
    BY <1>1, <2>3
<1>5. ActiveOf(old) = {View(k) : k \in Active(old)} /\ View(i) \in ActiveOf(old)
  BY DEF ActiveOf
<1> HIDE DEF View
<1>6. ActiveOf(new) = ActiveOf(old) \ {View(i)}
  BY <1>3, <1>4, <1>5
<1>7. LastOf(new) = LastOf(old)
  <2>1. Len(new.leases) = Len(old.leases)
    BY <1>1 DEF Gives, SameNames
  <2>2. old.leases # <<>> => Len(old.leases) \in DOMAIN old.leases
    BY <1>1
  <2>3. new.leases = <<>> <=> old.leases = <<>>
    BY <1>1, <2>1
  <2>4. QED
    BY <2>1, <2>2, <2>3 DEF Gives, SameNames, LastOf
<1>8. QED
  BY <1>5, <1>6, <1>7

LEMMA GrantsIsAcquire ==
    ASSUME NEW old \in Registry, NEW new \in Registry, GenerationsGrow(old), Grants(old, new)
    PROVE  /\ Cardinality(ActiveOf(old)) < Ceiling
           /\ LastOf(new) > LastOf(old)
           /\ \E q \in Request :
                  /\ \A lease \in ActiveOf(old) : ~Collides(q, lease.request)
                  /\ ActiveOf(new) = ActiveOf(old)
                                     \cup {[request |-> q, generation |-> LastOf(new)]}
<1>1. /\ old.leases \in Seq(Lease) /\ old.revision \in Nat
      /\ Len(old.leases) \in Nat /\ DOMAIN old.leases = 1..Len(old.leases)
  BY DEF Registry
<1>2. PICK lease \in Lease :
          /\ \A i \in Active(old) : ~Collides(lease.request, old.leases[i].request)
          /\ lease.generation = old.revision + 1
          /\ lease.status = "ACTIVE"
          /\ new.leases = Append(old.leases, lease)
  BY DEF Grants
<1> DEFINE n == Len(old.leases) + 1
<1>3. /\ DOMAIN new.leases = 1..n /\ Len(new.leases) = n /\ new.leases # <<>>
      /\ new.leases[n] = lease
      /\ \A k \in DOMAIN old.leases : new.leases[k] = old.leases[k]
  BY <1>1, <1>2
<1>4. Active(new) = Active(old) \cup {n}
  BY <1>1, <1>2, <1>3 DEF Active
<1>5. LastOf(new) = lease.generation
  BY <1>3 DEF LastOf
<1>6. ActiveOf(new) = ActiveOf(old) \cup {[request |-> lease.request,
                                            generation |-> lease.generation]}
  <2>1. n \notin Active(old) /\ Active(old) \subseteq DOMAIN old.leases
    BY <1>1 DEF Active
  <2> HIDE DEF n
  <2>2. QED
    BY <1>3, <1>4, <2>1 DEF ActiveOf
<1>7. LastOf(new) > LastOf(old)
  <2>1. old.leases = <<>> \/ Len(old.leases) \in DOMAIN old.leases
    BY <1>1
  <2>2. LastOf(old) \in 0..old.revision
    BY <1>1, <2>1 DEF LastOf, GenerationsGrow
  <2>3. QED
    BY <1>1, <1>2, <1>5, <2>2
<1>8. Cardinality(ActiveOf(old)) < Ceiling
  <2>1. Cardinality(Active(old)) < Ceiling /\ Ceiling \in Nat
    BY LeaseAssumption DEF Grants
  <2>2. QED
    BY <2>1, ActiveFinite, ActiveOfCardinality
<1>9. \A x \in ActiveOf(old) : ~Collides(lease.request, x.request)
  BY <1>2 DEF ActiveOf
<1>10. lease.request \in Request
  BY DEF Lease
<1>11. QED
  BY <1>5, <1>6, <1>7, <1>8, <1>9, <1>10

\* The store implements LeaseService: for any number of controllers, concurrent calls
\* take effect one at a time, and none is lost or applied twice.
THEOREM StoreImplementsService == Spec => ImplementsService
<1>1. ActiveLeases = ActiveOf(Latest) /\ LastIssued = LastOf(Latest)
  BY DEF ActiveLeases, LastIssued, ActiveOf, LastOf
<1>2. Init => Service!Init
  <2> SUFFICES ASSUME Init PROVE Service!Init
    OBVIOUS
  <2>1. Latest.leases = <<>>
    BY DEF Init, Latest, EmptyRegistry
  <2>2. ActiveLeases = {} /\ LastIssued = 0
    BY <1>1, <2>1 DEF ActiveOf, LastOf, Active
  <2>3. QED
    BY <2>2 DEF Service!Init
<1>3. IndInv /\ RegistryInv /\ [Next]_vars => [Service!Next]_<<ActiveLeases, LastIssued>>
  <2> SUFFICES ASSUME IndInv, RegistryInv, [Next]_vars
               PROVE  [Service!Next]_<<ActiveLeases, LastIssued>>
    OBVIOUS
  <2>1. ActiveLeases' = ActiveOf(Latest') /\ LastIssued' = LastOf(Latest')
    BY DEF ActiveLeases, LastIssued, ActiveOf, LastOf, Active
  <2>2. CASE UNCHANGED refs
    <3>1. ActiveOf(Latest') = ActiveOf(Latest) /\ LastOf(Latest') = LastOf(Latest)
      BY <2>2, LatestLeases DEF ActiveOf, LastOf, Active
    <3>2. QED
      BY <1>1, <2>1, <3>1
  <2>3. CASE ~UNCHANGED refs
    <3>1. Follows(Latest, Latest') /\ Latest \in Registry /\ Latest' \in Registry
          /\ GenerationsGrow(Latest)
      BY <2>3, WhoChangesRegistry, LatestFacts DEF IndInv, RegistryInv
    <3>2. CASE Renews(Latest, Latest')
      BY <1>1, <2>1, <3>1, <3>2, RenewIsInvisible
    <3>3. CASE Gives(Latest, Latest')
      <4>1. \E lease \in ActiveLeases :
               ActiveLeases' = ActiveLeases \ {lease} /\ LastIssued' = LastIssued
        BY <1>1, <2>1, <3>1, <3>3, GivesIsRelease
      <4>2. QED
        BY <4>1 DEF Service!Next, Service!Release
    <3>4. CASE Grants(Latest, Latest')
      <4>1. /\ Cardinality(ActiveLeases) < Ceiling
            /\ LastIssued' > LastIssued
            /\ \E q \in Request :
                   /\ \A lease \in ActiveLeases : Disjoint(q, lease.request)
                   /\ ActiveLeases' = ActiveLeases
                                      \cup {[request |-> q, generation |-> LastIssued']}
        BY <1>1, <2>1, <3>1, <3>4, GrantsIsAcquire DEF Disjoint
      <4>2. Service!Cardinality(ActiveLeases) = Cardinality(ActiveLeases)
        BY Zenon DEF Service!Cardinality, Cardinality
      <4>3. QED
        BY <4>1, <4>2 DEF Service!Next, Service!Acquire
    <3>5. QED
      BY <3>1, <3>2, <3>3, <3>4 DEF Follows
  <2>4. QED
    BY <2>2, <2>3
<1>4. QED
  BY <1>2, <1>3, InvHolds, RegistryInvHolds, PTL DEF Spec, ImplementsService, Service!Spec
=============================================================================
