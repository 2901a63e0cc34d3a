------------------------------ MODULE MCRoadmap -----------------------------
(***************************************************************************)
(* Roadmap for TLC; processes and texts are interchangeable.               *)
(***************************************************************************)
EXTENDS Roadmap, TLC

Occupying(lease) == [issue |-> "work", lease |-> lease, workspace |-> "workspace"]

Fair == [main |-> TRUE, cost |-> TRUE, fresh |-> TRUE, pulls |-> 1, occupied |-> {}]

\* One fact at a time is not as it should be.
FactsSeen == {Fair, [Fair EXCEPT !.main = FALSE], [Fair EXCEPT !.cost = FALSE],
              [Fair EXCEPT !.fresh = FALSE], [Fair EXCEPT !.pulls = 2]} \cup
             {[Fair EXCEPT !.occupied = {Occupying(l)}] : l \in {"lease", "foreign"}}

\* Two of an edit, a mishap and a compensation.
FewSurprises == edits + mishaps + undos <= 2

SagaSymmetry == Permutations(Process) \cup Permutations(Text)
=============================================================================
