------------------------- MODULE DurableOrchestrator -------------------------
(***************************************************************************)
(* The durable run journals of .adwf/lib/durable_orchestrator.py and the   *)
(* processes that create and advance them at the same time: portal and CLI *)
(* starts (owner_intent_service, orch_next, adwf.py), supervisors that     *)
(* observe a run and deliver a step result (runtime_supervisor), and the   *)
(* owner's acceptance (owner_authority).  A process reads a journal, works *)
(* on its copy and saves the copy with a compare-and-set on the revision;  *)
(* it can crash between any two of these steps.                            *)
(***************************************************************************)
EXTENDS JournalStep

CONSTANTS Run,          \* run identifiers
          Process,      \* operating system processes
          Idle,         \* a process that holds nothing
          NoRun,        \* a journal file that does not exist
          Profiles,     \* the run profiles that are started
          Entries,      \* entry points in use: "owner_intent", "orch_next", "cli"
          Offered,      \* step results the adapters deliver
          Facts,        \* control facts the decisions are taken on
          Modes,        \* "trusted" (supervisor) and "legacy" (CLI step)
          MaxRevision,  \* bound: journal revisions explored
          MaxCrashes    \* bound: process crashes explored

ASSUME OrchestratorAssumption ==
    /\ Profiles \subseteq Profile
    /\ Entries \subseteq {"owner_intent", "orch_next", "cli"}
    /\ Offered \subseteq StepResult
    /\ Facts \subseteq [autonomy : Int, maxRisk : Int, fact : [Fact -> BOOLEAN]]
    /\ Modes \subseteq {"trusted", "legacy"}
    /\ MaxRevision \in Nat /\ MaxCrashes \in Nat
    /\ NoRun \notin Journal
    /\ None \notin Process

VARIABLES
    journal,     \* .adwf-runtime/orchestration/<run>.json
    held,        \* what each process carries between two of its steps
    lockOf,      \* owner-intent.lock and orch-next.lock: the holder or None
    expired,     \* runs whose deadline_at has passed
    policyHash,  \* hash of the effective policy in force
    decisions,   \* owner decisions at the provider: the accepted preview of a SHA
    crashes

vars == <<journal, held, lockOf, expired, policyHash, decisions, crashes>>

Lock == {"owner_intent", "orch_next"}

\* What a process holds: a start that found no active run, a step result with what
\* the journal said when it was asked for, that result with its trusted context on
\* the way to advance_run, or a computed journal on its way to save.
AskedContext == [action : Action, autonomy : Int, risk : Rank, maxRisk : Int,
                 workType : STRING \cup ExemptWorkTypes, fact : [Fact -> BOOLEAN]]
Seen      == [subject : ShaOrNone, preview : DigestOrNone, profile : Profile]
Starting  == [op : {"start"}, entry : Entries, profile : Profiles]
Reporting == [op : {"report"}, run : Run, key : Key, res : StepResult, seen : Seen]
Compiled  == [op : {"compiled"}, run : Run, key : Key, res : StepResult,
              context : AskedContext, policy : PolicyHash]
Saving    == [op : {"save"}, run : Run, base : Nat, next : Journal]
Held      == Starting \cup Reporting \cup Compiled \cup Saving \cup {Idle}

Exists(r)    == journal[r] # NoRun
Holds(p, op) == held[p] # Idle /\ held[p].op = op

\* list_active: existing, valid, and in an active status.
ListActive == {r \in Run : /\ Exists(r)
                           /\ Validates(journal[r])
                           /\ journal[r].status \in ActiveStatuses}

Init ==
    /\ journal = [r \in Run |-> NoRun]
    /\ held = [p \in Process |-> Idle]
    /\ lockOf = [l \in Lock |-> None]
    /\ expired = {}
    /\ policyHash \in PolicyHash
    /\ decisions = [s \in Sha |-> None]
    /\ crashes = 0

-----------------------------------------------------------------------------
\* Mutant: the start does not wait for its lock.
StartDiscoverUnlocked(p, entry, profile) ==
    /\ held[p] = Idle
    /\ ListActive = {}
    /\ lockOf' = [l \in Lock |-> IF l = entry THEN p ELSE lockOf[l]]
    /\ held' = [held EXCEPT ![p] = [op |-> "start", entry |-> entry, profile |-> profile]]
    /\ UNCHANGED <<journal, expired, policyHash, decisions, crashes>>

\* start_or_queue, bootstrap_next_run and orchestration-start up to the
\* list_active of new_run.  The first two hold their own lock; the CLI none.
\* With an active run they queue the brief or refuse, and change no journal.
StartDiscover(p, entry, profile) ==
    /\ held[p] = Idle
    /\ entry \in Lock => lockOf[entry] = None
    /\ ListActive = {}
    /\ lockOf' = [l \in Lock |-> IF l = entry THEN p ELSE lockOf[l]]
    /\ held' = [held EXCEPT ![p] = [op |-> "start", entry |-> entry, profile |-> profile]]
    /\ UNCHANGED <<journal, expired, policyHash, decisions, crashes>>

\* The save of new_run: no expected revision.  A generated run id is fresh;
\* only a CLI request may name an existing run.
StartSave(p, r) ==
    /\ Holds(p, "start")
    /\ held[p].entry # "cli" => ~Exists(r)
    /\ LET new == NewJournal(held[p].profile, policyHash)
       IN  journal' = [journal EXCEPT ![r] =
               IF Exists(r) THEN [new EXCEPT !.revision = journal[r].revision + 1]
                            ELSE new]
    /\ lockOf' = [l \in Lock |-> IF lockOf[l] = p THEN None ELSE lockOf[l]]
    /\ held' = [held EXCEPT ![p] = Idle]
    /\ expired' = expired \ {r}
    /\ UNCHANGED <<policyHash, decisions, crashes>>

\* The step a result is delivered for: the key of the phase and revision that were
\* loaded, and what the trusted context will be compiled from.
Report(j, r, res) ==
    [op |-> "report", run |-> r, key |-> <<j.phase, j.revision>>, res |-> res,
     seen |-> [subject |-> j.subject, preview |-> j.preview, profile |-> j.profile]]

\* RuntimeSupervisor.tick: load the run, derive the key of its phase and revision,
\* and obtain a result for it from an executor or the agent inbox.  A tick that is
\* told to wait (ExecutorWait) changes nothing, whatever the deadline says.
Observe(p, r, res) ==
    /\ held[p] = Idle
    /\ Exists(r) /\ Validates(journal[r])
    /\ journal[r].status \notin FinalStatuses
    /\ journal[r].revision < MaxRevision \/ r \in expired
    /\ res.phase = journal[r].phase
    /\ held' = [held EXCEPT ![p] = Report(journal[r], r, res)]
    /\ UNCHANGED <<journal, lockOf, expired, policyHash, decisions, crashes>>

\* accept_and_continue: exactly one active run, waiting for the owner on this
\* subject and preview; the decision is recorded at the provider, then the
\* PASS for the observed key is delivered.
OwnerAccept(p, r) ==
    LET j   == journal[r]
        res == [phase |-> "OWNER_ACCEPTANCE", outcome |-> "PASS", sha |-> j.subject,
                digest |-> j.preview, mergeSha |-> None, evidence |-> FALSE,
                transient |-> FALSE, exact |-> TRUE, acceptedDigest |-> j.preview,
                refs |-> {}]
    IN  /\ held[p] = Idle
        /\ ListActive = {r}
        /\ j.phase = "OWNER_ACCEPTANCE"
        /\ j.subject # None /\ j.preview # None
        /\ j.revision < MaxRevision
        /\ decisions' = [decisions EXCEPT ![j.subject] = j.preview]
        /\ held' = [held EXCEPT ![p] = Report(j, r, res)]
        /\ UNCHANGED <<journal, lockOf, expired, policyHash, crashes>>

-----------------------------------------------------------------------------
\* The subject and preview a trusted context is compiled for: those of the result, or
\* else those of the journal tick loaded.
ContextSha(h)     == IF h.res.sha = None THEN h.seen.subject ELSE h.res.sha
ContextPreview(h) == IF h.res.digest = None THEN h.seen.preview ELSE h.res.digest

\* Mutant: any owner decision counts, whichever commit it names.
OwnerExactAnySha(h) == \E s \in Sha : decisions[s] # None

\* compile_trusted_context: the decision read back for exactly this subject
\* and preview.
OwnerExact(h) ==
    /\ ContextSha(h) \in Sha
    /\ decisions[ContextSha(h)] # None
    /\ decisions[ContextSha(h)] = ContextPreview(h)

OperationalWorkType(phase, profile) ==
    IF phase = "RECOVERY" THEN "recovery"
    ELSE IF phase \in {"CI", "REVIEW", "PREVIEW", "OBSERVE"} THEN "verification"
    ELSE profile.workType

\* compile_trusted_context: only health, gates and evidence come from the
\* assurance snapshot; every other fact is fixed or read back.
TrustedFact(h, f) ==
    [n \in Fact |->
        IF n \in {"humanApproved", "ownerExact"} THEN OwnerExact(h)
        ELSE IF n \in {"package", "config", "controlPlane", "product", "gatesPass",
                       "evidenceFresh"} THEN f.fact[n]
        ELSE n \in GoodFacts]

TrustedContext(h, f) ==
    [action   |-> ActionByPhase[h.key[1]],  autonomy |-> f.autonomy,
     risk     |-> h.seen.profile.risk,      maxRisk  |-> f.maxRisk,
     workType |-> OperationalWorkType(h.key[1], h.seen.profile),
     fact     |-> TrustedFact(h, f)]

\* RuntimeSupervisor._advance up to advance_run: the trusted inputs are refreshed and the
\* context is compiled from the journal tick loaded; it needs a subject.
Compile(p, f) ==
    LET h == held[p]
    IN  /\ "trusted" \in Modes
        /\ Holds(p, "report")
        /\ ContextSha(h) # None
        /\ held' = [held EXCEPT ![p] =
               [op |-> "compiled", run |-> h.run, key |-> h.key, res |-> h.res,
                context |-> TrustedContext(h, f), policy |-> policyHash]]
        /\ UNCHANGED <<journal, lockOf, expired, policyHash, decisions, crashes>>

\* The trusted inputs are not ready, do not match the subject or the policy in force, or
\* the context has no subject: _advance raises before advance_run looks at the deadline.
CompileRefused(p) ==
    /\ "trusted" \in Modes
    /\ Holds(p, "report")
    /\ held' = [held EXCEPT ![p] = Idle]
    /\ UNCHANGED <<journal, lockOf, expired, policyHash, decisions, crashes>>

\* What advance_run is called with: a compiled context, or the result of a CLI step.
Called(p) == Holds(p, "compiled") \/ ("legacy" \in Modes /\ Holds(p, "report"))

\* advance_run has loaded a journal it may change.
Loaded(p) == LET r == held[p].run
             IN  Exists(r) /\ Validates(journal[r]) /\ journal[r].status \notin FinalStatuses

Computed(p, next) ==
    held' = [held EXCEPT ![p] = [op |-> "save", run |-> held[p].run,
                                 base |-> journal[held[p].run].revision, next |-> next]]

\* Mutant: a run past its deadline is left as it is.
IgnoreDeadline(p) ==
    /\ Called(p) /\ Loaded(p)
    /\ held[p].run \in expired
    /\ held' = [held EXCEPT ![p] = Idle]
    /\ UNCHANGED <<journal, lockOf, expired, policyHash, decisions, crashes>>

\* advance_run of a run past its deadline: blocked, whatever the result says.
BlockExpired(p) ==
    /\ Called(p) /\ Loaded(p)
    /\ held[p].run \in expired
    /\ Computed(p, [journal[held[p].run] EXCEPT !.status = "BLOCKED"])
    /\ UNCHANGED <<journal, lockOf, expired, policyHash, decisions, crashes>>

\* The checks of advance_run before the policy is asked.
Accepted(p) ==
    LET h == held[p]
        j == journal[h.run]
    IN  Loaded(p) /\ h.run \notin expired /\ ~Applied(j, h.key) /\ Normalizes(j, h.res)

\* The context must be bound to the step and the policy of the journal loaded now.
ContextBound(h, j) ==
    /\ h.context.action = ActionByPhase[j.phase]
    /\ h.context.risk = j.profile.risk
    /\ h.context.workType = OperationalWorkType(j.phase, j.profile)
    /\ h.policy = j.policy

\* evaluate_with_effective_policy: the policy in force may be another by now.
TrustedDecision(h) ==
    EvaluatePermission([h.context EXCEPT !.fact["hashMatches"] = h.policy = policyHash])

\* advance_run up to save, with a compiled context.
Advance(p) ==
    LET h == held[p]
        j == journal[h.run]
    IN  /\ Holds(p, "compiled")
        /\ Accepted(p) /\ ContextBound(h, j)
        /\ Computed(p, AdvanceRun(j, h.key, h.res, TrustedDecision(h)))
        /\ UNCHANGED <<journal, lockOf, expired, policyHash, decisions, crashes>>

\* _control_context: the caller supplies the facts; at the owner gate the
\* result itself says whether the owner approved.
LegacyFact(j, res, f) ==
    [n \in Fact |->
        IF n = "hashMatches" THEN policyHash = j.policy
        ELSE IF n = "zeroCost" THEN TRUE
        ELSE IF n = "humanApproved" /\ j.phase = "OWNER_ACCEPTANCE"
             THEN res.outcome = "PASS"
        ELSE IF n = "ownerExact" /\ j.phase = "OWNER_ACCEPTANCE" THEN res.exact
        ELSE f.fact[n]]

LegacyContext(j, res, f) ==
    [action |-> ActionByPhase[j.phase], autonomy |-> f.autonomy, risk |-> j.profile.risk,
     maxRisk |-> f.maxRisk, workType |-> j.profile.workType, fact |-> LegacyFact(j, res, f)]

\* advance_run up to save, for a CLI step: the context is made of the journal loaded.
AdvanceLegacy(p, f) ==
    LET h == held[p]
        j == journal[h.run]
    IN  /\ "legacy" \in Modes /\ Holds(p, "report")
        /\ Accepted(p)
        /\ Computed(p, AdvanceRun(j, h.key, h.res,
                                  EvaluatePermission(LegacyContext(j, h.res, f))))
        /\ UNCHANGED <<journal, lockOf, expired, policyHash, decisions, crashes>>

\* advance_run returns the loaded state or raises: a final run, a result already applied,
\* a result that does not normalize, a context bound to another step or policy, a journal
\* that no longer validates.
AdvanceRefused(p) ==
    LET h == held[p]
    IN  /\ Called(p)
        /\ ~Loaded(p) \/ h.run \notin expired
        /\ ~(Accepted(p) /\ (Holds(p, "compiled") => ContextBound(h, journal[h.run])))
        /\ held' = [held EXCEPT ![p] = Idle]
        /\ UNCHANGED <<journal, lockOf, expired, policyHash, decisions, crashes>>

\* OrchestrationJournal.save with expected_revision: a revision conflict
\* raises and the copy is dropped.
SaveMatches(h) == Exists(h.run) /\ journal[h.run].revision = h.base

Save(p) ==
    LET h == held[p]
    IN  /\ Holds(p, "save")
        /\ journal' = IF SaveMatches(h)
                      THEN [journal EXCEPT ![h.run] =
                               [h.next EXCEPT !.revision = journal[h.run].revision + 1]]
                      ELSE journal
        /\ held' = [held EXCEPT ![p] = Idle]
        /\ UNCHANGED <<lockOf, expired, policyHash, decisions, crashes>>

-----------------------------------------------------------------------------
\* A process dies; the operating system releases its file locks.
Crash(p) ==
    /\ crashes < MaxCrashes
    /\ held[p] # Idle
    /\ held' = [held EXCEPT ![p] = Idle]
    /\ lockOf' = [l \in Lock |-> IF lockOf[l] = p THEN None ELSE lockOf[l]]
    /\ crashes' = crashes + 1
    /\ UNCHANGED <<journal, expired, policyHash, decisions>>

\* The deadline of a run passes.
Expire(r) ==
    /\ Exists(r) /\ r \notin expired
    /\ expired' = expired \cup {r}
    /\ UNCHANGED <<journal, held, lockOf, policyHash, decisions, crashes>>

\* The owner installs another effective policy.
ChangePolicy(h) ==
    /\ h # policyHash
    /\ policyHash' = h
    /\ UNCHANGED <<journal, held, lockOf, expired, decisions, crashes>>

Next ==
    \/ \E p \in Process, e \in Entries, f \in Profiles : StartDiscover(p, e, f)
    \/ \E p \in Process, r \in Run : StartSave(p, r)
    \/ \E p \in Process, r \in Run, res \in Offered : Observe(p, r, res)
    \/ \E p \in Process, r \in Run : OwnerAccept(p, r)
    \/ \E p \in Process, f \in Facts : Compile(p, f) \/ AdvanceLegacy(p, f)
    \/ \E p \in Process : CompileRefused(p) \/ BlockExpired(p) \/ Advance(p)
                           \/ AdvanceRefused(p)
    \/ \E p \in Process : Save(p)
    \/ \E p \in Process : Crash(p)
    \/ \E r \in Run : Expire(r)
    \/ \E h \in PolicyHash : ChangePolicy(h)

Spec == Init /\ [][Next]_vars

\* A process that has begun an operation goes on with it (while it holds something, one
\* of its steps is possible), and deadlines pass.  Nothing is assumed of the executors: a
\* phase may wait for its owner, its agent or its checks for ever.
Goes(p) ==
    \/ \E r \in Run : StartSave(p, r)
    \/ \E f \in Facts : Compile(p, f) \/ AdvanceLegacy(p, f)
    \/ CompileRefused(p) \/ BlockExpired(p) \/ Advance(p) \/ AdvanceRefused(p) \/ Save(p)

Fairness ==
    /\ \A p \in Process : WF_vars(Goes(p))
    /\ WF_vars(\E r \in Run : Expire(r))

FairSpec == Spec /\ Fairness

-----------------------------------------------------------------------------
TypeOK ==
    /\ journal \in [Run -> Journal \cup {NoRun}]
    /\ held \in [Process -> Held]
    /\ lockOf \in [Lock -> Process \cup {None}]
    /\ expired \subseteq Run
    /\ policyHash \in PolicyHash
    /\ decisions \in [Sha -> DigestOrNone]
    /\ crashes \in Nat

(* The event log of a run is append-only whatever the interleaving of the    *)
(* processes that loaded it: a save that changes a journal extends the event *)
(* log of the revision it replaces by at most one event and counts one       *)
(* revision (the compare-and-set of OrchestrationJournal.save).              *)
Extends(new, old) ==
    /\ new.revision = old.revision + 1
    /\ Len(new.events) \in {Len(old.events), Len(old.events) + 1}
    /\ \A i \in DOMAIN old.events : new.events[i] = old.events[i]

HistoryAppendOnly ==
    [][\A r \in Run : Exists(r) =>
          journal'[r] = journal[r] \/ Extends(journal'[r], journal[r])]_vars

(* A step result is applied at most once, although the same key may be       *)
(* delivered by several processes and redelivered after a crash              *)
(* (the duplicate lookup of advance_run).                                    *)
UniqueKeys(j) ==
    \A i, k \in DOMAIN j.events : j.events[i].key = j.events[k].key => i = k

AppliedAtMostOnce == \A r \in Run : Exists(r) => UniqueKeys(journal[r])

(* An owner acceptance stands only for the subject it was given for: it is   *)
(* the current candidate, or the candidate whose merge revision is now the   *)
(* subject.  A new commit makes it stale, wherever in the pipeline, in       *)
(* recovery or in a later cycle it arrives (advance_run).                    *)
AcceptsSubject(j) == j.accepted # None => j.subject \in {j.accepted, j.delivery}

AcceptanceBound == \A r \in Run : Exists(r) => AcceptsSubject(journal[r])

HasEvent(j, phase, sha) ==
    \E i \in DOMAIN j.events : /\ j.events[i].phase = phase
                               /\ j.events[i].outcome = "PASS"
                               /\ j.events[i].decision = "ALLOW"
                               /\ j.events[i].sha = sha

(* A preview digest in the journal belongs to the commit under work: before  *)
(* the merge revision is the subject, a preview of exactly this commit was   *)
(* recorded and allowed (advance_run).                                       *)
PreviewsSubject(j) ==
    j.preview # None /\ j.subject # j.delivery => HasEvent(j, "PREVIEW", j.subject)

PreviewBound == \A r \in Run : Exists(r) => PreviewsSubject(journal[r])

(* Below autonomy A3 no merge is recorded as allowed for a commit the owner  *)
(* did not accept at the provider, however the run came to its MERGE phase.  *)
MergeAcceptedByOwner ==
    \A r \in Run, s \in Sha :
        Exists(r) /\ HasEvent(journal[r], "MERGE", s) => decisions[s] # None

(* ORCHESTRATION.md: one active Writer in the whole project.  However starts *)
(* and steps interleave, list_active never reports two runs.                 *)
SingleActiveRun == \A r, q \in ListActive : r = q

\* Within one cycle, a result after the merge has named another commit: a repair, or a
\* cleanup or next step, none of which _normalize_result holds to the merge revision.
MovedAfterMerge(j) ==
    \E i, k \in DOMAIN j.events :
        /\ i < k
        /\ j.events[i].phase = "MERGE" /\ j.events[i].outcome = "PASS"
        /\ j.events[i].decision = "ALLOW"
        /\ j.events[k].phase \in {"RECOVERY", "CLEANUP", "NEXT"}
        /\ j.events[k].decision = "ALLOW"
        /\ j.events[k].sha \notin {None, j.delivery}
        /\ \A m \in i..k : j.events[m].phase # "RECONCILE"

(* durable_orchestrator.py: after a restart the state is restored from the   *)
(* journal.  Every journal that was saved can be loaded again, except after  *)
(* a result that moved the head of what is already merged: that one cannot.  *)
SavedJournalsLoad ==
    \A r \in Run : Exists(r) => Validates(journal[r]) \/ MovedAfterMerge(journal[r])

(* The budgets and the deadline of new_run: no run goes on for ever.  A run for which    *)
(* results keep coming to advance_run (a context compiled for each of them) reaches      *)
(* COMPLETE or BLOCKED, whatever retries, repairs, refusals, conflicts and crashes happen *)
(* on the way.  A run that waits for its owner or its agent, or whose context does not    *)
(* compile, never gets to the deadline check and may stay active past its deadline.       *)
Delivered(r) == \E p \in Process : Holds(p, "compiled") /\ held[p].run = r

RunsFinish ==
    \A r \in Run : []<>Delivered(r) => <>(Exists(r) /\ journal[r].status \in FinalStatuses)
=============================================================================
