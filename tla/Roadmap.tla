------------------------------ MODULE Roadmap -------------------------------
(***************************************************************************)
(* The saga of RemoteSaga seen by a reconciler.  At any moment a job or an *)
(* operator lists the issues, makes a snapshot of them and selects what to *)
(* do next, through orch_next.py or the command line.  Both only read, so  *)
(* they are functions of the state: what is said here of the snapshot of a *)
(* state holds whenever it is taken.  Beside the issue of the saga there   *)
(* is one that is ready, what it depends on, and perhaps a twin.           *)
(***************************************************************************)
EXTENDS RemoteSaga, Reconciliation

CONSTANT Facts   \* what else the reconciler may have read, with its issues

RoadmapId == {"work", "next", "past"}

NX == INSTANCE NextAction WITH
          Issue <- RoadmapId, Autonomous <- RoadmapId, RecoveryType <- {},
          Rank <- [i \in RoadmapId |-> IF i = "work" THEN 0 ELSE IF i = "next" THEN 1 ELSE 2],
          Deps <- [i \in RoadmapId |-> IF i = "next" THEN {"past"} ELSE {}],
          HeartbeatTimeout <- 45, None <- NoMarker

-----------------------------------------------------------------------------
(* orchestrate_event.py: which label an event of the pull request asks for. *)

Event == [trust : {"ALLOW", "HUMAN_REQUIRED", "BLOCK"}, owner : BOOLEAN, contract : BOOLEAN,
          lease : BOOLEAN, pull : {"open", "draft", "closed", "merged"},
          checks : BOOLEAN, reviews : BOOLEAN, attested : BOOLEAN]

\* main, for a successful run on the head: the state it moves the issue to.
EventTarget(e, state) ==
    CASE \/ e.trust = "BLOCK" \/ ~e.contract \/ state \notin Timed
         \/ e.trust = "HUMAN_REQUIRED" /\ ~e.owner            -> "none"
      [] OTHER ->
         CASE ~e.lease \/ e.pull = "closed"                   -> "RECOVERY"
           [] e.lease /\ e.pull = "draft"                     -> "none"
           [] e.lease /\ e.pull = "open"                      ->
                 IF ~e.checks THEN "RECOVERY" ELSE IF e.attested THEN "REVIEW" ELSE "none"
           [] e.lease /\ e.pull = "merged"                    ->
                 IF e.checks /\ e.reviews /\ state = "REVIEW"
                 THEN "VERIFICATION" ELSE "RECOVERY"

\* set_label goes on only to another state, along an edge of the machine.
Moves ==
    {m \in Timed \X Working :
        /\ \E e \in Event : EventTarget(e, m[1]) = m[2]
        /\ m[1] # m[2] /\ NX!Transition(m[1], m[2], TRUE)}

-----------------------------------------------------------------------------
(* What the provider lists.                                                 *)

\* past counts closed issues with evidence for the dependency; the ready issue
\* may be too large or deny that its dependency is resolved.
Backlog == [past : 0 .. 2, form : {"fit", "split", "unresolved"}, twin : BOOLEAN]

Form(roadmap, deps, resolved, split) ==
    [roadmap |-> roadmap, sound |-> TRUE, deps |-> deps, resolved |-> resolved, split |-> split]

StateOfLabel(label, move) ==
    CASE label = "from" -> move[1] [] label = "target" -> move[2] [] label = "other" -> "BLOCKED"

Marker(roadmap, state) ==
    [roadmap |-> roadmap, state |-> state, lease |-> "lease", workspace |-> "workspace"]

Listing(labels, marker, move, b) ==
    {[number |-> 1, open |-> TRUE, states |-> {StateOfLabel(l, move) : l \in labels},
      marker |-> Marker("work", IF marker = "from" THEN move[1] ELSE move[2]),
      form |-> Form("work", {}, TRUE, FALSE)],
     [number |-> 2, open |-> TRUE, states |-> {"READY"}, marker |-> NoMarker,
      form |-> Form("next", {"past"}, b.form # "unresolved", b.form = "split")]} \cup
    {[number |-> n, open |-> FALSE, states |-> {}, marker |-> Marker("past", "DONE"),
      form |-> Form("past", {}, TRUE, FALSE)] : n \in 3 .. 2 + b.past} \cup
    {[number |-> 5, open |-> TRUE, states |-> {"READY"}, marker |-> NoMarker,
      form |-> Form("work", {}, TRUE, FALSE)] : n \in IF b.twin THEN {5} ELSE {}}

\* The marker of an issue tells it from one without.
ASSUME MarkerAssumption == \A r \in RoadmapId, s \in Evidenced : Marker(r, s) # NoMarker

Workspace == [issue : {"work"}, lease : {"lease", "foreign"}, workspace : {"workspace"}]

ASSUME FactsAssumption ==
    Facts \subseteq [main : BOOLEAN, cost : BOOLEAN, fresh : BOOLEAN, pulls : Nat,
                     occupied : SUBSET Workspace]

-----------------------------------------------------------------------------
(* The two selections.                                                      *)

ItemOf(s, roadmap) == CHOOSE i \in s.items : i.roadmap = roadmap

IssuesOf(s) ==
    [r \in {i.roadmap : i \in s.items} |->
        LET i == ItemOf(s, r) IN
        [state |-> i.state,
         lease |-> IF i.marker = NoMarker THEN NoMarker ELSE i.marker.lease,
         workspace |-> IF i.marker = NoMarker THEN NoMarker ELSE i.marker.workspace]]

LeaseOn(roadmap, lease, workspace, now) ==
    [id |-> lease, issue |-> roadmap, status |-> "ACTIVE", expires |-> now + 1, beat |-> now,
     workspace |-> workspace, tree |-> "ACTIVE"]

\* _runtime_queue: the leases of the workspaces, or those the markers project.
ProjectedLeases(s, facts) ==
    IF facts.occupied # {}
    THEN {LeaseOn(w.issue, w.lease, w.workspace, 0) : w \in facts.occupied}
    ELSE {LeaseOn(i.roadmap, i.marker.lease, i.marker.workspace, 0) :
             i \in {j \in s.items : j.state \in Timed}}

\* _default_policy: the command line asks the health of the control plane.
LocalHealth(s) == [base |-> TRUE, control |-> ~s.conflicts /\ s.verified]

SelectLocally(s, facts) ==
    NX!AuthorizeNextAction([issues |-> IssuesOf(s), leases |-> ProjectedLeases(s, facts)],
                           LocalHealth(s), 0)

\* orch_next.py refuses a snapshot that is not ACTIVE.
SelectFromProvider(s) ==
    IF s.verified
    THEN NX!AuthorizeNextAction([issues |-> IssuesOf(s), leases |-> {}],
                                [base |-> TRUE, control |-> TRUE], 0)
    ELSE NX!Outcome("NONE", NoMarker)

Selections(labels, marker, b) ==
    UNION {LET s == Snapshot(Listing(labels, marker, move, b), f)
           IN  {SelectLocally(s, f), SelectFromProvider(s)} : move \in Moves, f \in Facts}

\* What a selection may claim, with which labels and marker on the issue of the
\* saga and beside which backlog.
Claims ==
    UNION {{[labels |-> l, marker |-> m, backlog |-> b, claimed |-> o.issue] :
               o \in {x \in Selections(l, m, b) : x.action = "CLAIM_ONE_READY"}} :
           l \in SUBSET Label, m \in {"from", "to"}, b \in Backlog}

ClaimableNow == {c \in Claims : c.labels = issue.labels /\ c.marker = issue.body.marker}

-----------------------------------------------------------------------------
(* ADWS.md: one active item.  An issue that is being moved is never lost    *)
(* from sight: as long as no human edits it and nothing is compensated, no  *)
(* snapshot taken between any two requests, of two racing calls or after a  *)
(* crash, lets another issue be claimed, although halfway its labels and    *)
(* marker contradict each other and it is in no snapshot at all.            *)
MidSagaNeverIdle == edits = 0 /\ undos = 0 => ClaimableNow = {}

(* reconciliation.py: whatever humans leave on an issue, another one is     *)
(* claimed only when no label says that it is being worked on, the ready    *)
(* one only when its dependency has exactly one closed issue as evidence,   *)
(* and the roadmap entry itself only through a second issue.                *)
ClaimOnlyWhenFree ==
    \A claim \in ClaimableNow :
        /\ issue.labels \cap {"from", "target"} = {}
        /\ claim.claimed = "next" => claim.backlog.past = 1 /\ claim.backlog.form = "fit"
        /\ claim.claimed = "work" => claim.backlog.twin
=============================================================================
