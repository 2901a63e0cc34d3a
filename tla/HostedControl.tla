---------------------------- MODULE HostedControl ----------------------------
(***************************************************************************)
(* The sites that carry a run on: jobs of .github/workflows/adwf-control   *)
(* .yml and the private Execution Node host.  A job starts on an empty     *)
(* checkout, restores the latest checkpoint from the ledger, consumes an   *)
(* agent's result, runs one cycle of run_active_supervisor and persists    *)
(* what it has, also when an earlier step failed.  The host repeats the    *)
(* cycle on a disk of its own; runs that ended there may be put on record.  Meanwhile main *)
(* moves, issues are closed, leases come, go and become stale.             *)
(***************************************************************************)
EXTENDS RuntimeLedger

CONSTANTS Job, Host,     \* the sites
          Serial,        \* the workflow's concurrency group is in force
          Rank,          \* the order of the roadmap
          Handovers,     \* bound: events with a --session-checkpoint
          Offered,       \* the statuses phases and agents bring runs to
          LoseAll,       \* the only comment of a ledger may be lost too
          MaxMain, MaxLeases, MaxRevision, MaxFailures  \* bounds

ASSUME HostedAssumption ==
    /\ Site = Job \cup Host /\ Job \cap Host = {}
    /\ {MaxMain, MaxLeases, MaxRevision, MaxFailures, Handovers} \subseteq Nat
    /\ {Serial, LoseAll} \subseteq BOOLEAN
    /\ Offered \subseteq RunStatus
    /\ Rank \in [Work -> Nat]

VARIABLES
    disk,      \* the journals of each site
    marker,    \* github-runtime-restore.json of each site
    main,
    work,      \* the roadmap issues at the provider
    lease,     \* the active lease of the registry, or None
    leases,    \* how many leases there were
    seen,      \* the main the registry was anchored for
    ticked,    \* history: <<lease, run>> for which the supervisor ran
    failures

worldVars == <<main, work, lease, leases, seen, failures>>
vars == <<ledgerVars, call, disk, marker, worldVars, ticked>>

Off  == [stage |-> "off"]
NoRuns == [r \in Run |-> None]

\* The selector of the roadmap; its issues do not depend on each other here,
\* and each may be worked on alone.
Selector == INSTANCE NextAction WITH
    Issue <- Work, Autonomous <- Work, RecoveryType <- {}, Deps <- [i \in Work |-> {}],
    HeartbeatTimeout <- 0

Init ==
    /\ LedgerInit
    /\ call = [p \in Site |-> Off]
    /\ disk = [p \in Site |-> NoRuns]
    /\ marker = [p \in Site |-> None]
    /\ main = 0
    /\ work = [i \in Work |-> "open"]
    /\ lease = None /\ leases = 0 /\ seen = 0
    /\ ticked = {}
    /\ failures = 0

\* A step that only concerns the site: its call, disk and marker.
Aside == UNCHANGED <<ledgerVars, worldVars>>

\* The checkout of a job goes with the job; the host keeps its disk.
Leave(p) ==
    IF p \in Job
    THEN disk' = [disk EXCEPT ![p] = NoRuns] /\ marker' = [marker EXCEPT ![p] = None]
    ELSE UNCHANGED <<disk, marker>>

Active(p) == {r \in Run : disk[p][r] # None /\ disk[p][r].status \in ActiveRuns}
TheRun(p) == disk[p][CHOOSE r \in Active(p) : TRUE]
Put(p, j) == disk' = [disk EXCEPT ![p][j.run] = j]

-----------------------------------------------------------------------------
\* The workflow starts: a fresh checkout, one at a time.
StartJob(p) ==
    /\ p \in Job /\ call[p] = Off
    /\ Serial => \A q \in Job : call[q] = Off
    /\ Goto(p, [stage |-> "restore"])
    /\ Aside /\ UNCHANGED <<disk, marker, ticked>>

\* The next round of run_host_loop.
StartCycle(p) ==
    /\ p \in Host /\ call[p] = Off
    /\ Goto(p, [stage |-> "cycle"])
    /\ Aside /\ UNCHANGED <<disk, marker, ticked>>

\* Mutant: the checkpoint the ledger was opened with is restored.
RestoreFirst(events) == Head(events).state

LatestState(events) == Last(events).state

\* github_runtime_sync --restore: the ledger is read.
RestoreRead(p) ==
    /\ At(p, "restore")
    /\ \E visible \in SUBSET OpenLedgers :
           IF Readable(visible) = {} THEN Goto(p, [stage |-> "persist"])
           ELSE \E events \in Readable(visible) :
                    Goto(p, IF events = <<>> THEN [stage |-> "inbox"]
                            ELSE [stage |-> "restoring", state |-> LatestState(events)])
    /\ Aside /\ UNCHANGED <<disk, marker, ticked>>

\* The work item is read back and journal and marker are written, over
\* whatever was there.
RestoreWrite(p) ==
    /\ At(p, "restoring")
    /\ Put(p, Restored(call[p].state, work))
    /\ marker' = [marker EXCEPT ![p] = call[p].state.run]
    /\ Goto(p, [stage |-> "inbox"])
    /\ Aside /\ UNCHANGED ticked

\* What a phase makes of a run: the next revision, with a work branch or not.
Advances(j) ==
    {[run |-> j.run, issue |-> j.issue, rev |-> j.rev + 1, status |-> s, prepared |-> b] :
        s \in Offered, b \in {j.prepared, TRUE}}

\* consume_agent_result and runtime_event_adapter: an agent's result or a CI
\* event ticks the one active run, whoever holds a lease; or there was none.
ConsumeResult(p) ==
    /\ At(p, "inbox")
    /\ \/ UNCHANGED disk
       \/ /\ Cardinality(Active(p)) = 1
          /\ TheRun(p).rev < MaxRevision
          /\ \E j \in Advances(TheRun(p)) : Put(p, j)
    /\ Goto(p, [stage |-> "cycle"])
    /\ Aside /\ UNCHANGED <<marker, ticked>>

-----------------------------------------------------------------------------
(* run_active_supervisor.                                                    *)

AfterCycle(p) == IF p \in Job THEN [stage |-> "persist"] ELSE Off

\* No active run: github_reconcile takes a snapshot of the roadmap.
Snapshot(p) ==
    /\ At(p, "cycle")
    /\ Active(p) = {}
    /\ Goto(p, [stage |-> "snapshot", main |-> main,
                open |-> {i \in Work : work[i] = "open"}])
    /\ Aside /\ UNCHANGED <<disk, marker, ticked>>

ReadyQueue(open) ==
    [issues |-> [i \in open |-> [state |-> "READY", lease |-> None, workspace |-> None]],
     leases |-> {}]

Healthy == [base |-> TRUE, control |-> TRUE]

\* bootstrap_next_run: the registry is read for the main of the snapshot; no
\* writer may be active; the selector picks the issue of the new run, whose id
\* is a new one.
Bootstrap(p) ==
    LET c    == call[p]
        pick == Selector!AuthorizeNextAction(ReadyQueue(c.open), Healthy, 0)
    IN  /\ At(p, "snapshot")
        /\ IF main = c.main /\ lease = None /\ pick.action = "CLAIM_ONE_READY"
           THEN \E r \in Run :
                    /\ \A q \in Site : /\ disk[q][r] = None
                                       /\ At(q, "restoring") => call[q].state.run # r
                    /\ \A i \in DOMAIN ledgers : \A k \in DOMAIN ledgers[i].comments :
                           ledgers[i].comments[k].state.run # r
                    /\ Put(p, [run |-> r, issue |-> pick.issue, rev |-> 0,
                               status |-> "RUNNING", prepared |-> FALSE])
                    /\ Goto(p, [stage |-> "cycle"])
           ELSE Goto(p, AfterCycle(p)) /\ UNCHANGED disk
        /\ Aside /\ UNCHANGED <<marker, ticked>>

\* compile_provider_context and decide_resume.  More than one active run, a
\* ledger that cannot be read or a checkpoint of other work ends the cycle.
Decide(p) ==
    LET j == TheRun(p) IN
    /\ At(p, "cycle")
    /\ Cardinality(Active(p)) = 1
    /\ \E visible \in SUBSET OpenLedgers, external \in {"pending", "done"} :
           LET resumes(events) ==
                   LET checkpoint == LatestCheckpoint(events)
                       context == ProviderContext(j, main, work[j.issue],
                           IF lease = None THEN {} ELSE {lease}, seen, checkpoint, external)
                   IN  CheckpointBinds(j, checkpoint) /\ DecideResume(context) = "RESUME_EXISTING"
           IN  Goto(p, IF \E events \in Readable(visible) : resumes(events)
                       THEN [stage |-> "tick", run |-> j.run, lease |-> lease.id]
                       ELSE AfterCycle(p))
    /\ Aside /\ UNCHANGED <<disk, marker, ticked>>

\* RuntimeSupervisor.tick.
Tick(p) ==
    LET j == disk[p][call[p].run] IN
    /\ At(p, "tick")
    /\ j.rev < MaxRevision
    /\ \E k \in Advances(j) : Put(p, k)
    /\ ticked' = ticked \cup {<<call[p].lease, j.run>>}
    /\ Goto(p, AfterCycle(p))
    /\ Aside /\ UNCHANGED marker

-----------------------------------------------------------------------------
\* _select_persist_state: the active run, or the ended run that was restored.
PersistState(p) ==
    IF Cardinality(Active(p)) = 1 THEN {TheRun(p)}
    ELSE IF Active(p) = {} /\ marker[p] # None THEN {disk[p][marker[p]]} ELSE {}

Handed == FoldLeft(LAMBDA n, g : n + Cardinality({k \in DOMAIN g.comments :
                                        g.comments[k].checkpoint # None}), 0, ledgers)

CheckpointOf(j) ==
    [issue |-> j.issue, branch |-> WorkBranch(j), main |-> main, wait |-> FALSE,
     lease |-> IF lease # None /\ lease.worker = j.run THEN lease.id ELSE None]

\* github_runtime_sync --persist.
Persist(p) ==
    /\ At(p, "persist")
    /\ IF PersistState(p) = {} THEN Goto(p, Off) /\ Leave(p)
       ELSE LET j == CHOOSE j \in PersistState(p) : TRUE IN
            /\ \E k \in {None} \cup (IF Handed < Handovers THEN {CheckpointOf(j)} ELSE {}) :
                   BindingHolds(j, k) /\ Goto(p, Appending("append", j, k))
            /\ UNCHANGED <<disk, marker>>
    /\ Aside /\ UNCHANGED ticked

\* github_runtime_sync --persist --run-id: a run that ended on the host is put
\* on record by hand.
PersistByHand(p) ==
    /\ p \in Host /\ call[p] = Off
    /\ \E r \in Run : /\ disk[p][r] # None /\ disk[p][r].status = "COMPLETE"
                     /\ Goto(p, Appending("append", disk[p][r], None))
    /\ Aside /\ UNCHANGED <<disk, marker, ticked>>

PersistStep(p) ==
    /\ AppendStep(p, Off)
    /\ IF call'[p] = Off THEN Leave(p) ELSE UNCHANGED <<disk, marker>>
    /\ UNCHANGED <<worldVars, ticked>>

\* A step of the job fails, and the workflow goes on to its always() steps; a
\* cycle of the host fails and is over.
FailStep(p) ==
    /\ call[p].stage \in {"restore", "restoring", "inbox", "cycle", "snapshot", "tick"}
    /\ failures < MaxFailures
    /\ failures' = failures + 1
    /\ Goto(p, AfterCycle(p))
    /\ UNCHANGED <<ledgerVars, main, work, lease, leases, seen, disk, marker, ticked>>

\* The job is cancelled, times out or raises while it persists; its checkout
\* is gone.  The host's process dies; its disk stays.
Die(p) ==
    /\ call[p] # Off
    /\ failures < MaxFailures
    /\ failures' = failures + 1
    /\ Goto(p, Off) /\ Leave(p)
    /\ UNCHANGED <<ledgerVars, main, work, lease, leases, seen, ticked>>

-----------------------------------------------------------------------------
(* The world.                                                                *)

Elsewhere == UNCHANGED <<ledgerVars, call, disk, marker, ticked>>

MoveMain ==
    /\ main < MaxMain
    /\ main' = main + 1
    /\ Elsewhere /\ UNCHANGED <<work, lease, leases, seen, failures>>

\* An issue is closed, and may be opened again.
SetIssue(i) ==
    /\ work' = [work EXCEPT ![i] = IF @ = "open" THEN "closed" ELSE "open"]
    /\ failures < MaxFailures /\ failures' = failures + 1
    /\ Elsewhere /\ UNCHANGED <<main, lease, leases, seen>>

\* The runs at work, on a disk or as the ledger has them.
RunsAtWork ==
    (UNION {{disk[p][r] : r \in Active(p)} : p \in Site})
    \cup {Last(g.comments).state : g \in {g \in ToSet(ledgers) : g.comments # <<>>}}

\* The lease store grants a lease to the runtime of a run, for its issue and
\* the main of now, on the branch it works on.
AcquireLease(j) ==
    /\ lease = None /\ leases < MaxLeases
    /\ leases' = leases + 1
    /\ seen' = main
    /\ lease' = [id |-> leases + 1, worker |-> j.run, issue |-> j.issue,
                 branch |-> WorkBranch(j), base |-> main, fresh |-> TRUE]
    /\ Elsewhere /\ UNCHANGED <<main, work, failures>>

\* The heartbeat is late, or renews the lease and anchors the main of now; or
\* the lease is released.
LeaseGoesOn ==
    /\ lease # None
    /\ \/ lease.fresh /\ lease' = [lease EXCEPT !.fresh = FALSE] /\ UNCHANGED seen
       \/ lease' = None /\ seen' = main
       \/ lease.fresh /\ seen # main /\ seen' = main /\ UNCHANGED lease
    /\ Elsewhere /\ UNCHANGED <<main, work, leases, failures>>

Lose ==
    /\ failures < MaxFailures /\ failures' = failures + 1
    /\ \E i \in DOMAIN ledgers : \E k \in DOMAIN ledgers[i].comments :
           /\ LoseAll \/ Len(ledgers[i].comments) > 1
           /\ LoseComment(i, k)
    /\ UNCHANGED <<disk, marker, main, work, lease, leases, seen, ticked>>

SiteStep(p) ==
    \/ StartJob(p) \/ StartCycle(p) \/ RestoreRead(p) \/ RestoreWrite(p) \/ ConsumeResult(p)
    \/ Snapshot(p) \/ Bootstrap(p) \/ Decide(p) \/ Tick(p) \/ Persist(p)
    \/ PersistByHand(p) \/ PersistStep(p) \/ FailStep(p) \/ Die(p)

Next ==
    \/ \E p \in Site : SiteStep(p)
    \/ \E j \in RunsAtWork : AcquireLease(j)
    \/ \E i \in Work : SetIssue(i)
    \/ MoveMain \/ LeaseGoesOn \/ Lose

Spec == Init /\ [][Next]_vars

-----------------------------------------------------------------------------
\* The supervisor only ever runs one run for a lease: a job and the host may
\* both have started a run for the same issue, and the lease decides between
\* them, however the facts a cycle decided on have changed since.
OneRunPerLease == \A a, b \in ticked : a[1] = b[1] => a[2] = b[2]

\* What a site is doing: the job's steps, and those of an append.
SiteCall ==
    [stage : {"off", "restore", "inbox", "cycle", "persist"}]
    \cup [stage : {"restoring"}, state : RunJournal]
    \cup [stage : {"snapshot"}, main : Nat, open : SUBSET Work]
    \cup [stage : {"tick"}, run : Run, lease : Nat]
    \cup [stage : {"append", "create", "read"}, state : RunJournal, checkpoint : Checkpoint \cup {None}]
    \cup [stage : {"elect", "close"}, state : RunJournal, checkpoint : Checkpoint \cup {None},
           candidate : 1 .. Len(ledgers), created : BOOLEAN]
    \cup [stage : {"comment", "tag"}, event : Event]

TypeOK ==
    /\ LedgerTypeOK
    /\ call \in [Site -> SiteCall]
    /\ disk \in [Site -> [Run -> RunJournal \cup {None}]]
    /\ marker \in [Site -> Run \cup {None}]
    /\ {main, leases, seen} \subseteq Nat
    /\ work \in [Work -> {"open", "closed"}]
    /\ lease \in WorkLease \cup {None}
    /\ ticked \subseteq Nat \X Run
    /\ \A p \in Site : Cardinality(Active(p)) <= 1
=============================================================================
