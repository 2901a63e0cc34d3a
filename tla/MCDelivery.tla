----------------------------- MODULE MCDelivery -----------------------------
(***************************************************************************)
(* Delivery for TLC: one piece of work driven by a durable run and one     *)
(* that was claimed through a comment, both under the repository-global    *)
(* writer domain (_stage1_resources).                                      *)
(***************************************************************************)
EXTENDS Delivery

CONSTANT MaxDepth

Work(id) ==
    [worker |-> id, issue |-> id, roadmap |-> id, branch |-> id,
     resources |-> {[kind |-> "provider", scope |-> <<"global">>, global |-> TRUE]}]

Works == {Work("run"), Work("hosted")}
Apart == {{w} : w \in Works}
Runs  == {Work("run")}

\* Agents push more, or time passes, or requests pile up.  Where a lease ages the agent
\* pushes source only, and where main has moved one commit beside a comment: what a
\* commit holds is looked at apart from how old a lease and its base are.
PushedBy(w) == IF branch[w] = None THEN <<>> ELSE SelectSeq(HeadOf(w), LAMBDA c : c.by = 0)
Depth ==
    \A w \in Works :
        /\ clock + Len(PushedBy(w)) + 2 * Len(comments) <= MaxDepth
        /\ main > 0 /\ comments # <<>> => Len(PushedBy(w)) <= 1
        /\ clock > 0 => \A c \in ToSet(PushedBy(w)) : c.kind = "source"

ProcessSymmetry == Permutations(Process)
=============================================================================
