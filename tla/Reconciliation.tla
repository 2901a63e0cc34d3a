--------------------------- MODULE Reconciliation ---------------------------
(***************************************************************************)
(* reconciliation.reconcile_snapshot: what a project snapshot says of the  *)
(* issues a provider lists.  An issue is its labels as states, the marker  *)
(* and the form in its body; facts are the other readings of the call.     *)
(* An issue that is refused is left out of the work items, and only the    *)
(* conflict it leaves behind tells that it is there.                       *)
(***************************************************************************)
EXTENDS Naturals, FiniteSets

CONSTANT NoMarker

Timed     == {"IN_PROGRESS", "REVIEW"}
Working   == Timed \cup {"VERIFICATION", "RECOVERY"}
Evidenced == Working \cup {"DONE"}

\* append_issue: a sound form, small enough, and a marker of the same state.
Accepted(i, state) ==
    /\ i.form.sound
    /\ ~(i.form.split /\ state \in Timed \cup {"READY", "VERIFICATION"})
    /\ state \in Evidenced =>
          i.marker # NoMarker /\ i.marker.roadmap = i.form.roadmap /\ i.marker.state = state

StateOf(i) == CHOOSE s \in i.states : TRUE

\* Open issues without a label of the machine are planning content.
Live(listed) ==
    {i \in listed : i.open /\ Cardinality(i.states) = 1 /\ Accepted(i, StateOf(i))}

Item(i, state) ==
    [number |-> i.number, roadmap |-> i.form.roadmap, state |-> state,
     deps |-> IF state = "DONE" THEN {} ELSE i.form.deps,
     resolved |-> state = "DONE" \/ i.form.resolved, marker |-> i.marker]

\* Closed issues only count as evidence for what a live one depends on.
EvidenceOf(listed, roadmap) ==
    {i \in listed : /\ ~i.open /\ i.marker # NoMarker
                    /\ i.marker.state = "DONE" /\ i.marker.roadmap = roadmap}

Owed(live) == UNION {i.form.deps : i \in live} \ {i.form.roadmap : i \in live}

Items(listed) ==
    LET live == Live(listed) IN
    {Item(i, StateOf(i)) : i \in live} \cup
    {Item(i, "DONE") : i \in {j \in listed :
        /\ \E r \in Owed(live) : EvidenceOf(listed, r) = {j}
        /\ Accepted(j, "DONE")}}

\* validate_roadmap_graph: every edge ends, and no set feeds on itself.
GraphSound(items) ==
    LET known   == {i.roadmap : i \in items}
        deps(r) == UNION {i.deps : i \in {j \in items : j.roadmap = r}}
    IN  /\ \A i \in items : i.deps \subseteq known
        /\ \A group \in SUBSET known \ {{}} : \E r \in group : deps(r) \cap group = {}

Unique(items) == \A i, j \in items : i.roadmap = j.roadmap => i = j

ResolvedIn(items, item) ==
    \A d \in item.deps : \E i \in items : i.roadmap = d /\ i.state = "DONE"

ActiveItems(items) == {i \in items : i.state \in Working}

\* One runtime workspace at most, and the active item names it.
WorkspaceAgrees(items, occupied) ==
    /\ Cardinality(occupied) <= 1
    /\ \A w \in occupied : \A i \in ActiveItems(items) :
          i.marker.lease = w.lease /\ i.marker.workspace = w.workspace

\* Mutant: an issue whose contract is refused is only left out.
CleanOverRefused(listed, items, facts) ==
    /\ facts.main /\ Unique(items) /\ GraphSound(items)
    /\ \A i \in items : i.resolved = ResolvedIn(items, i)
    /\ Cardinality(ActiveItems(items)) <= 1

\* No error but that of the cost guard.
Clean(listed, items, facts) ==
    LET live == Live(listed) IN
    /\ facts.main
    /\ \A i \in listed : i.open /\ i.states # {} => i \in live
    /\ \A i \in listed : ~i.open /\ i.states # {} => i \in EvidenceOf(listed, i.form.roadmap)
    /\ \A r \in Owed(live) : /\ Cardinality(EvidenceOf(listed, r)) <= 1
                             /\ \A i \in EvidenceOf(listed, r) : Accepted(i, "DONE")
    /\ \A i \in items : i.state \in Timed => facts.fresh
    /\ Unique(items)
    /\ GraphSound(items)
    /\ \A i \in items : i.resolved = ResolvedIn(items, i)
    /\ Cardinality(ActiveItems(items)) <= 1
    /\ ActiveItems(items) # {} => facts.pulls <= 1
    /\ WorkspaceAgrees(items, facts.occupied)

Snapshot(listed, facts) ==
    LET items == Items(listed)
        clean == Clean(listed, items, facts)
    IN  [items |-> items, conflicts |-> ~clean, verified |-> clean /\ facts.cost]
=============================================================================
