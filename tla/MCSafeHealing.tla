---------------------------- MODULE MCSafeHealing ----------------------------
(***************************************************************************)
(* SafeHealing for TLC: two recipes for one symptom and a second symptom.  *)
(***************************************************************************)
EXTENDS SafeHealing, TLC

CONSTANTS tests, build, fix, workaround, id1, id2

Recipes  == {fix, workaround}
Symptoms == {tests, build}
Ids      == {id1, id2}
ForTests == [r \in Recipes |-> tests]

\* The recipes share a budget of transitions.
Transitions == Len(registry[fix].history) + Len(registry[workaround].history) <= MaxHistory

ReporterSymmetry == Permutations(Reporter)
=============================================================================
