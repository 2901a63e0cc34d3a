---------------------------- MODULE RuntimeLedger ----------------------------
(***************************************************************************)
(* The runtime ledger of .adwf/lib/github_runtime_store.py: checkpoints of *)
(* a run as comments of one issue, each anchored by a tag of its own.      *)
(* Listings of issues lag, so the issue that counts is the one a protected *)
(* root tag names.  A site's call is a record with its stage; between any  *)
(* two stages others act and calls fail.  The protection of the tags is    *)
(* the provider's; that its readback fails is a failure of the call.  The  *)
(* public projection of a journal drops free text only, nothing kept here. *)
(***************************************************************************)
EXTENDS Naturals, Sequences, FiniteSets, FiniteSetsExt, SequencesExt

(***************************************************************************)
(* The resume decision.  Whether a durable run may go on:                  *)
(* orch_provider_context compiles what the provider says of it and         *)
(* orch_resume.decide_resume decides.  The default branch is Trunk; a run  *)
(* that has a work branch works on the branch named like the run.  Whether *)
(* a checkpoint is stale is decided here on main alone.  Malformed records *)
(* are refused before any of this and are left out.                        *)
(***************************************************************************)
CONSTANTS Run, Work, Trunk, None

RunStatus   == {"RUNNING", "RETRY_WAIT", "RECOVERY", "HUMAN_REQUIRED", "COMPLETE", "BLOCKED"}
ActiveRuns  == {"RUNNING", "RETRY_WAIT", "RECOVERY", "HUMAN_REQUIRED"}

\* A durable journal, as far as the provider side looks at it.
RunJournal  == [run : Run, issue : Work, rev : Nat, status : RunStatus, prepared : BOOLEAN]

\* An active lease of the provider registry; its worker is a run's runtime.
WorkLease   == [id : Nat, worker : Run, issue : Work, branch : Run \cup {Trunk},
                base : Nat, fresh : BOOLEAN]

\* A SessionContinuityCheckpoint: the work, the lease and the main it saw.
Checkpoint  == [issue : Work, lease : Nat \cup {None}, branch : Run \cup {Trunk},
                main : Nat, wait : BOOLEAN]

WorkBranch(j) == IF j.prepared THEN j.run ELSE Trunk

\* _execution_boundary; a run in RETRY_WAIT waits for its CI here.
ExecutionState(j) ==
    CASE j.status = "RETRY_WAIT" -> "WAITING_CI"
      [] j.status \in {"HUMAN_REQUIRED", "RECOVERY", "COMPLETE"} -> j.status
      [] OTHER -> "RUNNING"

\* _fresh_compatible_lease; at most one lease is active.
CompatibleLeases(j, main, leases) ==
    {l \in leases : /\ l.issue = j.issue
                    /\ l.branch = WorkBranch(j)
                    /\ l.base = main
                    /\ l.fresh}

\* _checkpoint: the latest checkpoint of the ledger, whoever wrote it, must be
\* about this run's work.
CheckpointBinds(j, checkpoint) == checkpoint # None => checkpoint.issue = j.issue

\* compile_provider_context, for reads that succeed.  The registry was
\* anchored for the main `seen`.
ProviderContext(j, main, work, leases, seen, checkpoint, external) ==
    LET fit == CompatibleLeases(j, main, leases) IN
    [main |-> main, branch |-> WorkBranch(j), issue |-> j.issue, worker |-> j.run,
     leases |-> leases, seen |-> seen,
     execLease |-> IF fit = {} THEN None ELSE (CHOOSE l \in fit : TRUE).id,
     exec |-> ExecutionState(j),
     checkpoint |-> checkpoint,
     terminal |-> work # "open",
     external |-> IF j.status = "RETRY_WAIT" THEN external ELSE None]

-----------------------------------------------------------------------------
\* decide_resume, from the checkpoint on.
DecideAtBoundary(c) ==
    LET waiting == c.exec = "WAITING_CI" \/ (c.checkpoint # None /\ c.checkpoint.wait) IN
    CASE c.exec \in {"COMPLETE", "RECOVERY"}   -> "RECONCILE"
      [] c.exec = "HUMAN_REQUIRED"             -> "BLOCK"
      [] c.exec \in {"RUNNING", "WAITING_CI"} /\ waiting /\ c.external = None -> "RECONCILE"
      [] c.exec \in {"RUNNING", "WAITING_CI"} /\ waiting /\ c.external = "pending" -> "YIELD"
      [] OTHER -> "RESUME_EXISTING"

DecideOnCheckpoint(c, l) ==
    LET k == c.checkpoint IN
    IF k = None THEN DecideAtBoundary(c)
    ELSE IF k.issue # c.issue \/ (k.lease # None /\ k.lease # l.id) THEN "BLOCK"
    ELSE IF k.branch # c.branch \/ k.main # c.main THEN "RECONCILE"
    ELSE DecideAtBoundary(c)

DecideOnLease(c, l) ==
    IF c.seen # c.main \/ ~l.fresh THEN "RECONCILE"
    ELSE IF l.issue # c.issue \/ l.branch # c.branch \/ l.base # c.main THEN "BLOCK"
    ELSE IF l.worker # c.worker THEN "RECONCILE"
    ELSE IF c.execLease # l.id THEN "BLOCK"
    ELSE DecideOnCheckpoint(c, l)

\* Mutant: a lease another worker holds for the same work is good enough.
DecideForAnyWorker(c) ==
    IF Cardinality(c.leases) > 1 THEN "BLOCK"
    ELSE IF c.terminal \/ c.leases = {} THEN "RECONCILE"
    ELSE LET l == CHOOSE l \in c.leases : TRUE IN DecideOnLease([c EXCEPT !.worker = l.worker], l)

\* decide_resume.  The execution state is always compiled, so a run without an
\* active lease is reconciled and ACQUIRE_NEW is out of reach.
DecideResume(c) ==
    IF Cardinality(c.leases) > 1 THEN "BLOCK"
    ELSE IF c.terminal \/ c.leases = {} THEN "RECONCILE"
    ELSE DecideOnLease(c, CHOOSE l \in c.leases : TRUE)

-----------------------------------------------------------------------------
(* The ledger.                                                               *)

CONSTANTS Site,         \* the checkouts that use the ledger
          MaxLedgers    \* bound: ledger issues

VARIABLES
    root,      \* the ledger-root tag: an index of ledgers, or 0
    ledgers,   \* the ledger issues in the order of creation
    tags,      \* the event anchors, by the stamp of the event
    acked,     \* history: stamps of the events whose append returned APPENDED
    call       \* what each site is doing

ledgerVars == <<root, ledgers, tags, acked>>

ASSUME LedgerAssumption == None \notin RunJournal /\ MaxLedgers \in Nat

Stamp == Site \X Nat

\* A comment.  The stamp stands for its event hash and comment id, prev for
\* those of the event it follows.
Event  == [stamp : Stamp, sequence : Nat, prev : Stamp \cup {None}, state : RunJournal,
           checkpoint : Checkpoint \cup {None}]
Ledger == [open : BOOLEAN, comments : Seq(Event)]

LedgerInit == root = 0 /\ ledgers = <<>> /\ tags = {} /\ acked = {}

LedgerTypeOK ==
    /\ root \in 0 .. Len(ledgers)
    /\ ledgers \in Seq(Ledger) /\ Len(ledgers) <= MaxLedgers
    /\ tags \subseteq Stamp /\ acked \subseteq tags

At(p, stage) == call[p].stage = stage
Goto(p, c)   == call' = [call EXCEPT ![p] = c]

-----------------------------------------------------------------------------
\* verify_remote_events: one chain from the first comment on.
Chained(events) ==
    \A i \in DOMAIN events :
        /\ events[i].sequence = i
        /\ events[i].prev = IF i = 1 THEN None ELSE events[i - 1].stamp

\* The anchors found under the ledger's prefix, and those the events call for.
\* They are read whenever there is an event.
Anchored(events) ==
    events # <<>> => tags = {events[i].stamp : i \in DOMAIN events}

\* Mutant: comments are trusted without their anchors.
VerifiedByChain(events) == Chained(events)

\* _read_issue_events raises nothing.
Verified(events) == Chained(events) /\ Anchored(events)

OpenLedgers == {i \in DOMAIN ledgers : ledgers[i].open}

\* read: the ledger a reader uses, 0 for none; nothing when it raises.
LedgerRead(visible) ==
    IF root # 0 THEN {root}
    ELSE IF visible = {} THEN {0}
    ELSE IF Cardinality(visible) = 1 THEN visible ELSE {}

CommentsOf(i) == IF i = 0 THEN <<>> ELSE ledgers[i].comments

\* What a read returns in a given listing: a set with the events, or empty.
Readable(visible) == {CommentsOf(i) : i \in {j \in LedgerRead(visible) : Verified(CommentsOf(j))}}

\* restore_latest_session_continuity: the newest checkpoint in the ledger.
LatestCheckpoint(events) ==
    LET with == {i \in DOMAIN events : events[i].checkpoint # None} IN
    IF with = {} THEN None ELSE events[Max(with)].checkpoint

\* restore_latest: the run whose issue is no longer open comes back blocked.
Restored(state, work) ==
    IF state.status \in ActiveRuns /\ work[state.issue] # "open"
    THEN [state EXCEPT !.status = "BLOCKED", !.rev = @ + 1]
    ELSE state

-----------------------------------------------------------------------------
(* append; done is what the site does when the call is over.                  *)

\* _checkpoint_state_binding_errors is empty.
BindingHolds(state, checkpoint) == checkpoint # None => checkpoint.issue = state.issue

Appending(stage, state, checkpoint) ==
    [stage |-> stage, state |-> state, checkpoint |-> checkpoint]

\* ensure_issue: the root, or else a candidate from a listing, or a new one.
\* Here and below a call that raises is over too.
EnsureIssue(p, done) ==
    LET c == call[p] IN
    /\ At(p, "append")
    /\ IF root # 0 THEN Goto(p, [c EXCEPT !.stage = "read"])
       ELSE \E visible \in SUBSET OpenLedgers :
                IF visible = {} THEN Goto(p, [c EXCEPT !.stage = "create"])
                ELSE IF Cardinality(visible) > 1 THEN Goto(p, done)
                ELSE Goto(p, [stage |-> "elect", state |-> c.state, checkpoint |-> c.checkpoint,
                              candidate |-> CHOOSE i \in visible : TRUE, created |-> FALSE])
    /\ UNCHANGED ledgerVars

CreateLedger(p) ==
    LET c == call[p] IN
    /\ At(p, "create")
    /\ Len(ledgers) < MaxLedgers
    /\ ledgers' = Append(ledgers, [open |-> TRUE, comments |-> <<>>])
    /\ Goto(p, [stage |-> "elect", state |-> c.state, checkpoint |-> c.checkpoint,
                candidate |-> Len(ledgers) + 1, created |-> TRUE])
    /\ UNCHANGED <<root, tags, acked>>

\* _elect_root: the root tag can be created once.  A loser closes the issue it
\* created; one that lost with a candidate it found raises.
Elect(p, done) ==
    LET c == call[p] IN
    /\ At(p, "elect")
    /\ root' = IF root = 0 THEN c.candidate ELSE root
    /\ Goto(p, IF root' = c.candidate THEN Appending("read", c.state, c.checkpoint)
               ELSE IF c.created THEN [c EXCEPT !.stage = "close"] ELSE done)
    /\ UNCHANGED <<ledgers, tags, acked>>

CloseCandidate(p) ==
    LET c == call[p] IN
    /\ At(p, "close")
    /\ ledgers' = [ledgers EXCEPT ![c.candidate].open = FALSE]
    /\ Goto(p, Appending("read", c.state, c.checkpoint))
    /\ UNCHANGED <<root, tags, acked>>

\* How many comments there are; a stamp is new with every comment.
Published == Cardinality(UNION {{i} \X DOMAIN ledgers[i].comments : i \in DOMAIN ledgers})

\* The last event does not already say it.
News(events, c) ==
    \/ events = <<>>
    \/ Last(events).state # c.state
    \/ c.checkpoint # None /\ Last(events).checkpoint # c.checkpoint

\* The events are read and verified and the next one is made; UNCHANGED when
\* there is nothing to add.  An invalid ledger raises.
ReadLedger(p, done) ==
    LET c      == call[p]
        events == CommentsOf(root)
        event  == [stamp |-> <<p, Published>>, sequence |-> Len(events) + 1,
                   prev |-> IF events = <<>> THEN None ELSE Last(events).stamp,
                   state |-> c.state, checkpoint |-> c.checkpoint]
    IN  /\ At(p, "read")
        /\ Goto(p, IF Verified(events) /\ News(events, c) THEN [stage |-> "comment", event |-> event] ELSE done)
        /\ UNCHANGED ledgerVars

AddComment(p) ==
    /\ At(p, "comment")
    /\ ledgers' = [ledgers EXCEPT ![root].comments = Append(@, call[p].event)]
    /\ Goto(p, [call[p] EXCEPT !.stage = "tag"])
    /\ UNCHANGED <<root, tags, acked>>

AddTag(p, done) ==
    /\ At(p, "tag")
    /\ tags' = tags \cup {call[p].event.stamp}
    /\ acked' = acked \cup {call[p].event.stamp}
    /\ Goto(p, done)
    /\ UNCHANGED <<root, ledgers>>

AppendStep(p, done) ==
    \/ EnsureIssue(p, done) \/ CreateLedger(p) \/ Elect(p, done) \/ CloseCandidate(p)
    \/ ReadLedger(p, done) \/ AddComment(p) \/ AddTag(p, done)

\* The provider no longer shows a comment: it was deleted.
LoseComment(i, k) ==
    /\ k \in DOMAIN ledgers[i].comments
    /\ ledgers' = [ledgers EXCEPT ![i].comments = RemoveAt(@, k)]
    /\ UNCHANGED <<root, tags, acked, call>>

-----------------------------------------------------------------------------
\* One ledger holds the events, and whoever reads it finds every checkpoint
\* that was acknowledged, whatever a lagging listing shows; or is told that
\* the ledger is invalid.  (The root anchor exists so that "eventually
\* consistent Issue listings cannot create a second authoritative ledger".)
AcknowledgedIsRead ==
    \A visible \in SUBSET OpenLedgers : \A events \in Readable(visible) :
        acked \subseteq {events[i].stamp : i \in DOMAIN events}

\* Action property: in the ledger a run only goes forward.  A later event of
\* the run has a larger revision or repeats the latest state, and a run that
\* ended is not taken up again.
RunGoesForward ==
    [][\A i \in DOMAIN ledgers' :
           LET old == IF i \in DOMAIN ledgers THEN ledgers[i].comments ELSE <<>>
               new == ledgers'[i].comments
           IN  Len(new) > Len(old) =>
                   \A k \in DOMAIN old :
                       old[k].state.run = Last(new).state.run =>
                           \/ /\ old[k].state.rev < Last(new).state.rev
                              /\ old[k].state.status \in ActiveRuns
                           \/ old[k].state = Last(new).state]_ledgers
=============================================================================
