# A TLA+ model of the AI Development Framework (ADWF)

ADWF drives AI agents through a durable development pipeline: an owner asks for
something, a controller advances one run phase by phase, writers hold leases,
issues move through labels, and nothing is merged without evidence and the
permission of a policy engine. The code is under `.adwf/lib`, `.adwf/scripts`
and `.adwf/adwf.py`. There is no daemon. Controllers are short processes started
by CI events, by a schedule, by the portal or from the command line. All state is
in files under `.adwf-runtime`, in the file trees of consumer projects and at the
provider (issues, tags, comments, refs, checks), so almost everything that can go
wrong goes wrong between two processes or between two steps of one process that
died.

This project models the parts where that matters, checks them with TLC and
proves the most important results with TLAPS.

## Inventory

| Part | State | Operations | What is hard | What makes it correct |
|---|---|---|---|---|
| Permission engine (`policy.py`) | none | `evaluate_permission` | staged early returns: a stage that answers too early hides a stricter one | losing a fact never loosens the answer; owner-only actions need the owner |
| Durable orchestrator (`durable_orchestrator.py`) | one journal per run: phase, status, subject, preview, acceptance, events, revision | `new_run`, `advance_run`, `save`, `list_active` | compare-and-set between processes, duplicate results, moving heads, recovery jumps, deadlines | results applied once, acceptance bound to its commit, one active run, runs end |
| Entry points, supervisor (`owner_intent_service.py`, `orch_next.py`, `adwf.py`, `runtime_supervisor.py`, `owner_authority.py`, `trusted_context.py`) | lock and inbox files | start, tick, accept | check-then-create, facts read before they are used | one run is created; decisions rest on facts for the exact commit |
| Lease registry and store (`lease_registry.py`, `github_lease_store.py`) | an append-only chain of tags | acquire, heartbeat, release | several controllers, main that moves, calls that fail after they took effect | no granted lease is lost, writers are disjoint, the chain stays readable |
| Remote saga (`remote_saga.py`, `orchestrate_event.py`) | a journal file, the remote issue | run, resume, compensate a label transition | three requests without a transaction, human edits, crashes | what is left can be resumed, unknown issues stay untouched |
| Reconciliation and selection (`reconciliation.py`, `issue_contract.py`, `gitlab_reconcile.py`, `orchestration.py`) | none; reads issues and leases | snapshot, queue, next action | labels and marker disagree while a saga is on its way; dependencies closed by the wrong evidence | a second issue is claimed only when nothing is at work |
| Gateways and executors (`provider_ops_gateway.py`, `provider_claim_gateway.py`, `provider_source_ingest_gateway.py`, `action_executors.py`) | refs, pull requests, issues, leases, answers | claim, write source, materialize, reconcile, release, merge, clean up | check, change and read back are separate calls; comments are delivered again | answers are true, only checked heads merge, projections stay generated |
| Runtime ledger and hosted control (`github_runtime_store.py`, `run_active_supervisor.py`, `execution_node_host.py`, `orch_resume.py`) | checkpoints as comments with tags; disks of jobs and host | restore, tick, persist, resume | comment and tag are two calls, listings lag, a job's disk is gone afterwards | acknowledged checkpoints are read, runs do not go backwards, one run per lease |
| Local queue and workspaces (`leases.py`, `workspaces.py`, `orchestration.py`, `adwf.py`) | `queue.json`, `workspaces.json`, git worktrees | claim, reconcile, create, retry, complete, clean up | three stores, two locks, git in between | one writer, nothing unsaved is removed |
| Managed surface (`managed_surface*.py`) | consumer files, staging, quarantine, journals | plan, apply, recover, detach | a crash between any two file operations | consumer bytes survive, the status is true, recovery ends |
| Consumer upgrade (`consumer_upgrade_*.py`) | the same, plus sidecars that prove the revision | apply, project, recover, roll back | two transactions that must not contradict each other | the old bytes survive, the proof follows the files |
| Healing and incidents (`healing.py`, `incidents.py`) | recipe registry, circuit, incident log | record, evaluate, promote, quarantine | late outcomes, two reporters, torn lines | a false heal is final, one record per symptom |
| Trusted gate (`trust.py`, `publish_trusted_gate.py`, `github_rulesets.py`) | two status contexts on two transports per commit | evaluate, publish, merge | separate readings, re-runs, dead jobs, force-pushes | a protected change merges only when authorised |
| Evidence, health, policy compiler, packs, portal, agents | snapshots and documents | validation, rendering | little concurrency | their verdicts enter the model as facts |

How they interact: an entry point creates a journal under a lock; a supervisor
loads it, asks an executor for a step result, compiles a trusted context, asks the
permission engine and saves the next journal with a compare-and-set. Executors and
gateways act at the provider under a lease from the store; a workflow job restores
the run from the ledger before the tick and persists it afterwards. The event
controller moves the issue with the saga, the reconciler turns issues into the
snapshot the next run is selected from, and the trusted gate decides what merges.

`PROJECT.json` lists every component with its status, and under `hazards` each
place in the code that is hard to test, with the properties that watch it.

## Modules

| Module | Models |
|---|---|
| `Policy`, `PolicyDecay` | `evaluate_permission` as sets of reasons per stage; a context that loses facts one at a time |
| `JournalStep` | the pure part of `durable_orchestrator.py`: validation and the next journal |
| `DurableOrchestrator` | processes that start, observe, advance and save runs; crashes, deadlines, policy changes, the owner |
| `LeaseRegistry`, `LeaseService`, `LeaseStore` | the registry as operators; the abstract service; the tag chain with its compare-and-set |
| `RemoteSaga` | the saga and `set_label`, request by request |
| `Reconciliation`, `Roadmap` | `reconcile_snapshot`; the saga's issue beside others, as every reconciler and selector would see it at any moment |
| `Provider`, `ProviderOps`, `WorkExecutors`, `Delivery` | GitHub as the gateways see it; the trusted operations; claims and phase executors; all of them together with agents and people |
| `RuntimeLedger`, `HostedControl` | the resume decision, root, comments and anchors; jobs and a private host that carry runs on |
| `NextAction`, `Workspaces`, `LocalWork` | what to do next; worktrees under the registry lock; the local commands over both |
| `SurfaceAdoption`, `SurfaceDetach`, `ManagedSurface` | adoption and its undo; detach and its undo; both with edits, deaths and promises |
| `Upgrade`, `UpgradeTransaction`, `ConnectedUpgrade` | the disk; apply, rollback and recovery of files; the projection of the sidecars around them |
| `Healing`, `SafeHealing` | recipes, breaker and decisions; the incident log and both together |
| `TrustedGate` | classification of a change; pull requests, controller jobs and the ruleset |
| `MC...` | sets, bounds and symmetries of the runs |
| `DurableOrchestratorProofs` (with the permission engine), `LeaseStoreProofs`, `RemoteSagaProofs`, `DeliveryProofs`, `LocalWorkProofs` (with the managed surface), `HostedControlProofs`, `RecoveryProofs` (healing and the upgrade), `TrustedGateProofs` | theorems and their proofs |

Composition: `DurableOrchestrator` extends `JournalStep`, which extends `Policy`:
a delivered result is decided by the modelled engine and not by a coin.
`LeaseStore` extends `LeaseRegistry` and instantiates `LeaseService`. `Roadmap`
extends `RemoteSaga` and `Reconciliation` and selects with an instance of
`NextAction`. `Delivery` extends `ProviderOps` and `WorkExecutors`, both over
`Provider`, which uses the operators of `LeaseRegistry` and takes the store as one
value with a compare-and-set, which is what `LeaseStore` was shown to provide.

### State and actions against the code

*DurableOrchestrator.* `journal[r]` is the file of run `r`, with the fields that
some guard reads. `held[p]` is what a process carries between its steps: a start that
found no active run, a step result, that result with its compiled context, or a
computed journal. The actions are `StartDiscover`/`StartSave` (`start_or_queue`,
`bootstrap_next_run`, `orchestration-start`, then `new_run`), `Observe`
(`RuntimeSupervisor.tick` up to the result; a tick that is told to wait changes
nothing), `OwnerAccept` (`accept_and_continue`), `Compile`/`CompileRefused`
(`_advance` up to `advance_run`: the trusted inputs are refreshed and the context is
compiled, from the journal the tick loaded), `BlockExpired` (the deadline check, which
is the first thing `advance_run` does with the journal it loads itself), `Advance` and
`AdvanceLegacy` (`advance_run` up to `save`, by the supervisor and by the CLI),
`AdvanceRefused` (its early returns and errors, among them a context that is not bound
to the journal loaded now) and `Save`. A SHA, a digest or a policy hash is a model
value. An idempotency key is the pair of phase and revision it is hashed from. In mode
`legacy` (the CLI) the caller supplies the facts; in mode `trusted` they are read back.

*LeaseStore.* `refs` is the list of tag refs, each naming a tag object with its
registry. `Read` is `acquire`, `heartbeat` or `release` up to the creation of the
tag object; `CreateRef` is the compare-and-set; `Readback` the rest. `Fail` is a
failed call or a dead process at any of these points. A lease is named by its
position in the list, which only grows.

*RemoteSaga, Roadmap.* `issue` is the remote issue with its machine labels, its
body (a text and the state marker) and a revision that stands for the ETag.
`held[p]` is a call with its own copy of the plan and the issue it read last.
`Write` is one request; `Refresh`, `Verify` and `Finish` are the readback. There is
one saga, because everything its key is made from stays fixed. Reconciliation and
selection only read, so `Snapshot` and `Selections` are functions of the state:
what is checked of them holds whenever a snapshot is taken.

*Delivery.* `main`, `branch`, `pull`, `issue`, `reg`, `green` and `comments` are the
provider; `call[p]` is one delivery of a comment or one tick with its stage and what
it has read; `answers` is what was posted back. Each operation is split where the
code calls the provider: examine, recheck, change, confirm. A commit is the history
it stands for. What an executor did at the provider (`OpenPr`, `Merge`, `CloseIssue`)
and what the journal says of it (`Result`) are two steps, and a tick can die between
them.

*HostedControl.* `disk[p]` holds the journals of a site, `ledgers`, `tags` and
`root` the provider's records, `acked` the checkpoints somebody was told of. A job
goes through restore, consume, cycle and persist; every step may fail and later
steps still run, as `if: always()` says.

*LocalWork.* `queue` is `queue.json`, `registry` `workspaces.json`, `tree` the
worktrees. A claim decides on the queue it read before the lock. `MoveIssue` stands
for whoever keeps `queue.json` up to date.

*ManagedSurface, ConnectedUpgrade.* `target` is the tree, `stage`, `linked`,
`quarantine` and `snapshot` the files a transaction keeps, `adoption`, `detach`,
`journal`, `projection` and `sidecar` the JSON files. Each write, link, rename or
unlink is one action, and `held[w]` is the call's copy of the journal, which is lost
when it dies. Bytes are the package's, or the consumer's. Putting a moved file back is
staging, link and unlink, and the staging file (`restage`) stays when a recovery dies
before its unlink. The consumer may write at any moment, between a check and the act it
allows too: `late` remembers the files it changed there, and `Overtaken` names those the
next unlink, rename or replacement of a running call will lose.

*SafeHealing.* `record_heal_outcome` is pure: it answers with a registry and a circuit,
and its caller saves the two files in either order (`SaveOutcome`) and may die between
them (`CallerDies`). Evaluations see whatever is on the disk by then.

*TrustedGate.* `gate[c]` holds both contexts of commit `c` on both transports,
`job` the controller job with what it has read. Posting takes six requests in the
order of `_publish` after the failing sentinels.

## Runs

All runs pass. Every property has a mutant in `PROJECT.json`, a plausible bug in
the mapped code that makes the run fail.

| Run | Shows | Bounds and why they are enough |
|---|---|---|
| `policy_decay` | the engine only gets stricter; owner-only actions need the owner | one action per autonomy class, an unknown action and class, three lost facts: the engine has four stages, so three losses reach every order of stages |
| `orchestrator` | no merge without an owner decision for its commit; acceptance bound to its commit; saved journals load again | A2, one run, two SHAs, two policies, one retry, two surprises (failed, refused or repeated step, moved head, a policy that changed, a deadline that passed), 18 revisions: the whole pipeline and the start of a second cycle |
| `race` | results applied once, one active run, a run whose results keep coming ends | two processes, two runs, one crash, two revisions: every pair of steps of the compare-and-set. One policy hash (see *policy block* below) |
| `lease_store` | the chain verifies, grants survive, writers are disjoint, `LeaseService` is implemented | two controllers, three requests of which two nest, three revisions |
| `roadmap` | half-done transitions can be resumed and never look idle; no snapshot allows a second claim; unknown issues are left alone; final statuses follow a readback | two processes, two of: one edit, one mishap, one compensation; one fact of the snapshot wrong at a time |
| `surface` | committed, rolled back and restored say what is true; consumer bytes survive; everything settles | two files, one edit at any moment, two deaths: a recovery may die too; no plan made beside an adoption that is not rolled back (`MaxOverlaps` = 0) |
| `upgrade` | the bytes of A survive; files, proof and status agree; consumer bytes survive; everything settles | two plans that together hold every kind of entry, a profile, two sidecars, one edit at any moment, one death |
| `delivery` | answers are true; projections are generated; only checked heads merge; a closed issue has no lease | two pieces of work that compete for one lease, two comments, two commits, main and clock move once; `Depth` bounds them together: beside a lease that ages commits hold sources only, beside a main that moved and a comment there is one of them |
| `healing` | one record per symptom; a false heal is final, also between the two saves of an outcome; a quarantined recipe needs a new certification | two reporters, two symptoms, two recipes, seven transitions: a full life cycle with a return from quarantine |
| `local_work` | one writer and one worktree; unsaved work stays; a lease ends only by right | two workers, two issues, one slot, two leases, two minutes |
| `hosted` | one run per lease; acknowledged checkpoints are read; runs go forward | one job at a time beside a host, two runs of one issue, three checkpoints, one failure; the host's part is bounded by `Depth` |
| `gate` | protected changes merge only when authorised; a dead job leaves the gate closed; green means judged | two pull requests, two pushes, two jobs, one mishap, five kinds of trees |

The constraints of the `MC` modules say which combinations of bounded events are
left out; within them everything is explored. Symmetry is used over values the
specifications only compare, never in a run with a liveness property.
`AuthorsPause` in `gate` is a partial-order reduction done by hand: posting reads
nothing authors can change.

Deadlock is not checked: finished runs, exhausted bounds and idle processes are
legitimate ends.

Fairness. `race`: a process that has begun an operation goes on with it (`Goes`: one of
its steps is always possible, an error counts as one), and deadlines pass. Nothing is
assumed of the executors, the agents and the owner: a tick may be told to wait for ever,
and nobody is assumed to accept, to succeed, to have a context that compiles or to win a
save. `RunsFinish` therefore speaks of runs for which results with a compiled context
keep coming to `advance_run`; these end, whatever else happens.
`surface`, `upgrade`: a running call goes on until it ends or dies, and operators
keep trying to recover what is open; the recovery commands exist for that and say
so in their status. The number of deaths is bounded, as it must be.

## Where code and documents disagree, and other limits

Each of these was met while modelling and is excluded by a named bound or an
explicit condition of a property, never by a changed action.

Orchestrator
* Portal (`owner-intent.lock`) and roadmap bootstrap (`orch-next.lock`) use
  different locks and can both create a run (`owner_intent_service.py:49`,
  `ORCHESTRATION.md:3`); `SingleActiveRun` is checked for one entry point.
* *Policy block.* A policy refusal stores `BLOCK`, neither active nor final
  (`durable_orchestrator.py:401`); another run starts, the first reactivates.
* A result after the merge that reports a new head (a repair, or a cleanup or next
  step, which `_normalize_result` does not hold to the merge revision) saves a journal
  that `validate_journal` rejects (line 440); `SavedJournalsLoad` excepts exactly this
  (`MovedAfterMerge`).
* At A3 a repair of a failed merge returns to MERGE with a head the owner never
  accepted (line 440, `ORCHESTRATION.md:13`); `orchestrator` runs at A2.
* The deadline is looked at in `advance_run` only, behind the result and the trusted
  context (`runtime_supervisor.py:94`, `:114`): a run that waits for its owner, its agent
  or its checks, or whose context does not compile, stays active past its deadline.
* `list_active` skips a damaged journal (`AUTOMATIC_ORCHESTRATION.md:36` says it
  blocks); `orchestration-start` with the id of an existing run replaces its journal.

Leases
* A heartbeat reads the clock before it creates its tag; delayed in between, it
  renews a lease that is stale by then.

Saga and selection
* After a crash behind ADD the issue has two machine labels and `set_label` refuses
  it for ever (`orchestrate_event.py:251`); `V1_3_IMPLEMENTATION_REPORT.md:75` says
  that the same key is resumed.
* A compensation classifies the issue only before its first request, records nothing
  before it, and can, beside a running transition, remove the last machine label. The
  issue then vanishes from snapshots without an error, so `MidSagaNeverIdle` is
  stated without compensations (no code but tests calls `compensate_transition`).
* The saga key has no revision: a transition of the same lease that is due a second
  time is answered from the journal.
* A refused issue is absent from every snapshot; only the conflict it leaves behind
  blocks another claim. A clean snapshot stays selectable for its TTL.

Delivery
* The cleanup releases the lease before it closes the issue
  (`action_executors.py:391`), and its retry asks for the lease that is gone (:155);
  one that dies in between is never finished. A tick that dies between the merge and the
  record of its result leaves the run in MERGE: the next one looks for an open pull
  request and finds none (:328). So does a cleanup between the closing and its record.
* `release` reads the registry again without an expected revision: a heartbeat
  between check and release makes the released lease fresh. `AnswersAreTrue` speaks of
  the lease and not of its heartbeat.
* A claim delivered twice can be granted a second lease; a lease whose base main has
  left, or whose issue is closed, cannot be released through the gateway. A push
  between the recheck and the release is noticed only afterwards.

Runtime ledger
* Anchors are verified only `if events` (`github_runtime_store.py:208`): a ledger
  whose comments are all gone reads as new, so `hosted` never removes all of them.
* A crash between comment and tag makes the ledger unreadable for good; overlapping
  appenders do the same, so jobs are serial as the workflow's group makes them.
* No writer acquires a lease for `adwf-runtime:<run>`; a session checkpoint of one
  issue blocks others, and one taken before main moved leads to RECONCILE for ever.

Local work
* Claims check the roadmap order before the lock only. A crash between `git worktree
  add` or `remove` and the save cannot be recovered. A late recovery moves an issue
  that was claimed again. `heartbeat` does not extend `expires_at`.

Managed surface and upgrade
* A resumed apply overwrites `CREATED` by `STAGING`
  (`managed_surface_transaction.py:648`): a second crash there blocks the recovery.
* What the consumer writes behind the last check before an unlink or a rename is lost: at
  the rollback of an adoption (`managed_surface_transaction.py:523`), where a file is put
  back from the quarantine (:1289), and at the unlinks and replacements of an upgrade.
  The runs let the consumer write there; `ConsumerBytesSurvive` excepts exactly this
  (`Overtaken`).
* A second plan made beside an adoption that is not rolled back takes its files for
  pre-existing, and nothing prevents it. `overlaps` counts such plans, `StatusIsTrue` of
  the managed surface speaks of histories without one, and no property covers them.
* A recovery of a detach that dies between the link and the unlink of its staging file
  leaves that file behind: later recoveries find the consumer's path in order.
* The locks are per transaction (`managed_surface_transaction.py:227`, `:827`): when the
  readback after `COMMITTED` fails, the adoption rolls back while another operator may
  have begun to detach it, and the recovery of that detach puts a file of a rolled-back
  adoption back. Two processes in `ManagedSurface` show it.
* After a detach the same plan gives `COMMITTED_TARGET_DRIFT` for ever; a torn
  staging file blocks its transaction, and so does a blocked detach entry.
* The projection takes no lock: with two operators sidecars can prove B over files of
  A. A rollback that dies leaves `COMMITTED` without its snapshot; a staging file
  written before it was announced stays; recovery over foreign sidecars leaves the
  projection at `RECOVERY_REQUIRED`.

Healing
* A torn last line makes the incident log unreadable; `healing-evaluate` without
  `--circuit` uses an empty breaker; registry and circuit are saved without a lock.

Gate
* `governance-gate` alone can be green on a commit nobody classified; only both
  contexts together protect. An admin's `APPROVED` counts after a later
  `CHANGES_REQUESTED`. An invalid base policy blocks every pull request, its repair
  included.

## Proofs

All theorems hold for every value of the constants that satisfies the named
assumptions: any number of processes, runs, sites, leases, commits and recipes, and
any bounds. What the assumptions ask is what the code gives: bounds are numbers,
`None`, the idle value and a missing marker are not data, a validated scope is a path
(`ScopeAssumption`), the roadmap order is a number per issue (`Rank`).

Most properties speak of what is stored, but a process reads, computes and writes in
different steps, so hardly any is inductive alone. The strengthening is nearly always
a statement about the calls on their way: what they carry still fits what is stored,
or the compare-and-set, lock or ETag will refuse it.

* Permission engine (last part of `DurableOrchestratorProofs`): `DecayNeverLoosens`,
  `ApprovalIsLimited`, `OwnerIsAsked`. A stage that refuses keeps refusing when a fact
  is lost (`StagesStayClosed`); the first refusing stage decides; the fourth refuses
  every owner-only action.
* `DurableOrchestratorProofs`: `TypeCorrect`, `AcceptanceAlwaysBound`,
  `PreviewAlwaysBound`, `AtMostOnce`, `JournalsLoad`; `HistoryNeverRewritten` without
  CLI starts, which overwrite; `MergesAreAccepted` for trusted facts below the
  autonomy of a merge; `OneRunAtATime` where all starts share a lock and no run is
  left with the status `BLOCK` (the two documented holes). `IndInv` says that every
  copy a process is about to save is itself sound and continues the journal of the
  revision it was computed from. `JournalsLoad` needs, beside it, that every rule of
  the validator survives one more event. `MergesOwned` and `Alone` are the extra
  invariants of the last two: logs on their way are owned too, and a start in progress
  holds the lock while nothing is active.
* `LeaseStoreProofs`: `LogVerifies`, `GrantsSurvive`, `WritersStayDisjoint`,
  `StoreImplementsService`. `IndInv`: a call that has read revision n carries an
  anchor that continues the n-th ref and keeps all its leases; the free tag name gives
  the chain. `RegistryInv`: the registry in force is valid, generations grow with the
  positions, and what is about to be anchored is one grant, renewal or release of it.
  The refinement follows: a `CreateRef` that finds its name free is that step of
  `LeaseService`, everything else stutters.
* `RemoteSagaProofs`: `SagaTypeCorrect`, `HumanTextSurvives`, `UnknownIsLeftAlone`,
  `TransitionsResume`, `ReadbackDecides`. `IndInv` says that a snapshot with the
  current revision is the current issue, and that a transition at a request has
  classified its snapshot; with the ETag both hold of the issue at the moment of the
  request. `OwnInv` (for `TransitionsResume`): all calls have the plan made of one
  original body, and the new label is there wherever a call is past adding it.
  `MidSagaIsBusy` and `ClaimsNeedEvidence` add what the reconciler makes of such an
  issue: a claim needs a clean snapshot (`SelectionFacts`), and a clean snapshot shows
  an issue with one of the two labels as work (`CleanShowsWork`). They hold for any
  other facts and for every move the event controller can ask for.
* `DeliveryProofs`: `AnswersTrue`, `ProjectionsFromSources`, `OnlyCheckedMerged`,
  `ClosedAfterRelease`, for any number of comments, processes, commits and leases.
  `IndInv` has what each call on its way knows of the provider at its stage
  (`CallsKnow`): a registry it has computed follows the one in force only if it was
  computed from it; a run at its merge has seen the checks of its subject green; a
  comment about to materialize has a head whose lineage it examined. Beside it stand
  what a request may rely on (`RequestsOK`: its head is a prefix of the branch, for
  branches only grow, and a lease of the revision it names is as it was seen), one active
  lease (`SoleHolder`) and the truth of the answers already given (`AnswersOK`), which
  stays because a released lease never changes (`Keeps`). Who closes an issue has to
  know more than its release: `ClosedIsOver` says that the run has ended or its pull
  request was merged, which its journal may not know yet (`RunsOK`), and a claim
  that is still on its way carries an older main than the one the merge made, so it
  can take no lease for finished work. `TrustedIsNotHand` takes the shortest
  prefix of a trusted lineage whose projections are by hand: no commit can end it.
  `NoneAssumption` says that `None` is neither a branch nor a pull request.
* `LocalWorkProofs`: `TypeCorrect`, `OneWriterAtWork`, `UnsavedWorkStays`,
  `LeasesLostByRight`. Leases are numbered without gaps, one at most is declared
  active, and a claim on its way owns its number (`QueueInv`); one command at most is
  between git and the registry, it holds the lock, and its worktree is counted before
  it is recorded (`WsInv`).
* `LocalWorkProofs`, the managed surface: `SurfaceBytesSurvive`, for any manifest and any
  number of plans (overlapping ones too), deaths, failures and edits at any moment, for
  one operator, as in the run. `Calm` says that what a call has seen of a file
  still holds when the call acts on it, unless the consumer changed the file in between
  (`late`), and that what it has seen of a quarantined file holds in any case.
  `SurfaceStatusTrue`, for the same, and for histories without a plan made beside an
  adoption that is not rolled back (`overlaps = 0`, part of the property). With two
  processes the property fails, see above. A status is written long after the files it speaks of, and a later adoption
  or detach works on the same files, so `StatusInv` relates every journal to the disk:
  a staged file is announced in its journal, a file made by an adoption is owned by it
  until it is over (`Tracks`, `MakersOK`), a committed adoption is the only one that
  still counts (`OneCommitted`) and its files are in place or were moved away by a
  detach that holds the evidence (`AllInPlace`), and what a detach claims of its
  quarantine is so (`DetachOK`). `KnowsOK` says what the one call in progress knows at
  each of its writes (`ApplyKnows`, `UndoKnows`, `MoveKnows`, `RestoreKnows`); without
  it no write of a status could be justified. Files the consumer touched are out of
  every claim. It rests on `ConsumerAssumption` (the consumer is not a transaction)
  and on bytes of others not being the names of planned actions.
* `HostedControlProofs`: `TypeCorrect`, `LeaseRunsOnce`, and `AcknowledgedRead` as
  long as a ledger keeps one comment (`~LoseAll`, see above). A lease and a run are
  bound together when the lease is granted, when a cycle decides on it and when the
  supervisor ticks; `BoundOnce` says that all bindings agree and that later leases have
  other numbers. `Anchors`: where an anchor exists or is about to be made, the root
  ledger has an event, so it is read with its anchors and cannot pass as new.
  `RunsGoForward` (`~Serial` breaks it: two jobs would go on from one state) says that a
  run is never set back in the ledger. `ForwardInv`: only the root ledger has comments,
  each goes on from the earlier ones of its run (`InOrder`), and whatever a site has of
  a run, on its disk or between read and write of a restore, goes on from all of them
  (`Forward`). A comment of one site could overtake what another site has; it does not,
  because of two jobs one is off and its checkout gone (`OneJob`), and what anyone else
  has of a host's run is exactly what the host has, ended (`HostsOwn`). An append
  carries a journal that still lies on the disk (`CallsFit`).
* `RecoveryProofs`, healing: `BurntStaysOut`, `ActiveWasCertified`, `StoreTellsOneStory`.
  A recipe with a reported false heal has a count in the circuit; promoted recipes have
  a certification that no quarantine follows; a reporter holds the lock and appends
  what it built from the log as it is.
* `RecoveryProofs`, the upgrade: `UpgradeTypes`, `SourceKept`, `JournalTrue` for any
  number of operators, `StatusTrue` and `BytesSurvive` for one. `CoreInv` says what is
  on the disk: each file the consumer left alone has bytes a plan can have given it
  (`TargetOK`), with its copy in the quarantine while it is away, a journal that says
  it is rolled back, or committed with its snapshot, is right about every file (`Fresh`,
  `DiskOK`), and what the one call in the transaction's lock knows of the files before
  and behind its position (`LockKnows`). It is inductive because that lock is held from the first write to the
  last; a consumer edit only takes its path out of what is claimed. `JournalTrue` states
  the part of `StatusIsTrue` that rests on it. The projection takes no lock of its own,
  so the sidecars need `Alone`, that all calls are made by one process, one after
  another: `ProofInv` says that the copies and the recorded sources of untouched sidecars
  are those of A, that a sidecar at B has a committed journal behind it, and how far a
  projection or its undo has come (`ProofKnows`). `BytesSurvive` holds
  whenever the consumer acts: `CalmInv` says that what was seen still holds when it is
  acted on, unless the consumer changed it since (`late`), and that a projection's record
  of its sources is what was copied. `Alone` is a bound of the run `upgrade` too; there
  are any number of paths, sidecars, plans, edits and failures.
* `TrustedGateProofs`: `SentinelHolds`, `GreenIsJudged`, `MergesAreAuthorized`. `JobOK`
  says what a job has read and what it has posted so far; `Judged` is stable because
  commits, the tips they contain and vouchers only grow; with the ruleset's strictness
  the base that was judged is the main of the merge (`TipsInOrder`).

Only model-checked: liveness (`RunsFinish`, `Settles`), which is outside the prover, as
is `ENABLED`. Every safety invariant and every action property of the runs is stated
by a theorem.

## Plan

Done: all parts of the inventory but the last row have a model and a run, and every
safety property of the twelve runs has a theorem. Left are the parts listed under
"Not modelled", and the cases in which an assumption of a theorem is a bound of its run
(`Alone`, `OneOperator`, `~LoseAll`, `Serial`) or a condition of its property
(`overlaps = 0`): the cases without it are the limits described above.

## Not modelled

Rendering, dashboards, project packs, schema validation, HTTP, the adapters around
external agents and the migration scripts keep no state that several steps share.
Healing levels H4 and H6 verify documents. Hashes are treated as injective: a digest
is the value it was made from. Wall-clock skew between machines is not modelled; all
processes of a module share one clock.

## Running

    tlc -workers 2 -config LeaseStore.cfg MCLeaseStore
    tlapm LeaseStoreProofs.tla

The module and configuration of every run are listed in `PROJECT.json`.
