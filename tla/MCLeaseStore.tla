---------------------------- MODULE MCLeaseStore ----------------------------
(***************************************************************************)
(* LeaseStore for TLC: three writers of which the first two want nested    *)
(* source scopes and the third another one, as controllers would claim     *)
(* them under a policy that allows two writers.                            *)
(***************************************************************************)
EXTENDS LeaseStore, TLC

Ask(id, scope) ==
    [worker |-> id, issue |-> id, roadmap |-> id, branch |-> id,
     resources |-> {[kind |-> "source", scope |-> scope, global |-> FALSE]}]

Writers == {Ask("w1", <<"app">>), Ask("w2", <<"app", "api">>), Ask("w3", <<"docs">>)}

ProcessSymmetry == Permutations(Process)
=============================================================================
