---------------------------- MODULE MCLocalWork ----------------------------
(***************************************************************************)
(* LocalWork for TLC: two workers and two issues, the second of which      *)
(* comes later in the roadmap and does not depend on the first.            *)
(***************************************************************************)
EXTENDS LocalWork, TLC

CONSTANTS first, second

Issues == {first, second}
Ranks == [i \in Issues |-> IF i = first THEN 1 ELSE 2]
NoDeps == [i \in Issues |-> {}]
Nobody == {}

\* The first issue's workspace goes through everything; the second's is made
\* and ends, and its agent commits what it writes at once.  The third tick, when
\* a retry runs out, is for one lease.
Depth ==
    /\ tree[second] # "dirty"
    /\ registry[second] # None => registry[second].status \in {"ACTIVE", "COMPLETED"}
    /\ queue.issues[second].state \in {"READY", "IN_PROGRESS", "RECOVERY"}
    /\ clock = 2 => Cardinality(queue.leases) <= 1

WorkerSymmetry == Permutations(Worker)
=============================================================================
