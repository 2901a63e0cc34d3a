---------------------------- MODULE LeaseService ----------------------------
(***************************************************************************)
(* What the lease registry promises its clients, whatever the provider     *)
(* calls in between: writers get exclusive leases one at a time, each      *)
(* under a generation that was never used before, and a lease stays until  *)
(* it is released.  Renewals are invisible at this level.                  *)
(***************************************************************************)
EXTENDS Naturals, FiniteSets

CONSTANTS Request, Ceiling,
          Exclusive(_, _)   \* two requests that may be leased at the same time

VARIABLES active,   \* leases in force: [request, generation]
          issued    \* the greatest generation issued so far

Init == active = {} /\ issued = 0

Acquire(q) ==
    /\ Cardinality(active) < Ceiling
    /\ \A lease \in active : Exclusive(q, lease.request)
    /\ issued' > issued
    /\ active' = active \cup {[request |-> q, generation |-> issued']}

Release(lease) ==
    /\ active' = active \ {lease}
    /\ UNCHANGED issued

Next == (\E q \in Request : Acquire(q)) \/ (\E lease \in active : Release(lease))

Spec == Init /\ [][Next]_<<active, issued>>
=============================================================================
