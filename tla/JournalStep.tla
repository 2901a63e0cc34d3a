----------------------------- MODULE JournalStep -----------------------------
(***************************************************************************)
(* The pure part of .adwf/lib/durable_orchestrator.py: what a run journal  *)
(* holds, when it validates, which step results advance_run accepts and    *)
(* the journal it computes from an accepted one.  Hash chain, timestamps,  *)
(* blockers and the issue binding are data no guard reads and are left out.*)
(***************************************************************************)
EXTENDS Policy, Sequences

CONSTANTS Sha,          \* commit identities
          Digest,       \* preview digests
          PolicyHash,   \* hashes of effective policies
          None,         \* the absent value of a journal field
          MaxAttempts,  \* retry budget of a phase (max_attempts)
          MaxCycles     \* cycle budget of a run (max_cycles)

ASSUME BudgetAssumption == MaxAttempts \in 0..10 /\ MaxCycles \in 1..1000

Phase == {"RECONCILE", "AUTHORIZE", "CLAIM", "WORKSPACE", "EXECUTE", "OPEN_PR",
          "CI", "REVIEW", "PREVIEW", "OWNER_ACCEPTANCE", "MERGE", "PROMOTE",
          "OBSERVE", "DONE", "CLEANUP", "NEXT", "RECOVERY"}

ASSUME NoneAssumption == None \notin Sha \cup Digest \cup Phase

\* NEXT_PHASE; NEXT and RECOVERY have no successor.
NextPhase(p) ==
    CASE p = "RECONCILE" -> "AUTHORIZE"     [] p = "AUTHORIZE" -> "CLAIM"
      [] p = "CLAIM"     -> "WORKSPACE"     [] p = "WORKSPACE" -> "EXECUTE"
      [] p = "EXECUTE"   -> "OPEN_PR"       [] p = "OPEN_PR"   -> "CI"
      [] p = "CI"        -> "REVIEW"        [] p = "REVIEW"    -> "PREVIEW"
      [] p = "PREVIEW"   -> "OWNER_ACCEPTANCE"
      [] p = "OWNER_ACCEPTANCE" -> "MERGE"
      [] p = "MERGE"     -> "PROMOTE"       [] p = "PROMOTE"   -> "OBSERVE"
      [] p = "OBSERVE"   -> "DONE"          [] p = "DONE"      -> "CLEANUP"
      [] p = "CLEANUP"   -> "NEXT"          [] OTHER           -> p

ActionByPhase ==
    [p \in Phase |->
        CASE p \in {"RECONCILE", "NEXT"}     -> "reconcile"
          [] p = "AUTHORIZE"                 -> "plan"
          [] p = "CLAIM"                     -> "claim"
          [] p \in {"WORKSPACE", "EXECUTE"}  -> "edit"
          [] p = "OPEN_PR"                   -> "open_pr"
          [] p = "CI"                        -> "test"
          [] p = "REVIEW"                    -> "review"
          [] p = "PREVIEW"                   -> "verify"
          [] p = "OWNER_ACCEPTANCE"          -> "owner_accept"
          [] p = "MERGE"                     -> "merge"
          [] p = "PROMOTE"                   -> "promote"
          [] p = "OBSERVE"                   -> "observe"
          [] p = "DONE"                      -> "close_issue"
          [] p = "CLEANUP"                   -> "cleanup"
          [] p = "RECOVERY"                  -> "repair"]

EvidencePhases       == {"CI", "REVIEW", "PREVIEW", "MERGE", "PROMOTE", "OBSERVE", "DONE"}
ShaPhases            == {"OPEN_PR", "CI", "REVIEW", "PREVIEW", "OWNER_ACCEPTANCE", "MERGE",
                         "PROMOTE", "OBSERVE", "DONE"}
DeliveryResultPhases == {"PROMOTE", "OBSERVE", "DONE"}
DeliveryStatePhases  == {"PROMOTE", "OBSERVE", "DONE", "CLEANUP", "NEXT"}

Outcomes == {"PASS", "FAIL", "BLOCK", "HUMAN_REQUIRED", "RETRY", "CHANGES_REQUESTED",
             "ROADMAP_COMPLETE", "NEXT_READY"}

ActiveStatuses == {"RUNNING", "RETRY_WAIT", "RECOVERY", "HUMAN_REQUIRED"}
FinalStatuses  == {"COMPLETE", "BLOCKED"}
Statuses       == ActiveStatuses \cup FinalStatuses \cup {"BLOCK"}

\* The provider references a step result may add to a journal.
Ref == {"branch", "pr", "attestation"}

ShaOrNone    == Sha \cup {None}
DigestOrNone == Digest \cup {None}
Profile      == [risk : Rank, workType : STRING, productImpact : BOOLEAN]

\* The idempotency key of a step: the phase and the revision it was asked for
\* (runtime_supervisor._key hashes them with the run id).
Key == Phase \X Nat

\* A step result as an adapter returns it.  evidence is TRUE when it carries
\* evidence_refs or a not_applicable_reason; exact is owner_acceptance_exact.
StepResult == [phase : Phase, outcome : Outcomes, sha : ShaOrNone, digest : DigestOrNone,
               mergeSha : ShaOrNone, evidence : BOOLEAN, transient : BOOLEAN,
               exact : BOOLEAN, acceptedDigest : DigestOrNone, refs : SUBSET Ref]

Event == [key : Key, phase : Phase, outcome : Outcomes, sha : ShaOrNone,
          decision : Decisions]

Journal == [phase : Phase, status : Statuses, cycle : Nat, subject : ShaOrNone,
            preview : DigestOrNone, accepted : ShaOrNone, delivery : ShaOrNone,
            refs : SUBSET Ref, policy : PolicyHash, profile : Profile,
            attempts : [Phase -> Nat], lastFailed : Phase \cup {None},
            events : Seq(Event), revision : Nat]

-----------------------------------------------------------------------------
\* The journal new_run writes.
NewJournal(profile, policy) ==
    [phase |-> "RECONCILE", status |-> "RUNNING", cycle |-> 0, subject |-> None,
     preview |-> None, accepted |-> None, delivery |-> None, refs |-> {},
     policy |-> policy, profile |-> profile, attempts |-> [p \in Phase |-> 0],
     lastFailed |-> None, events |-> <<>>, revision |-> 0]

\* validate_journal: the findings that a journal written by save can have.
Validates(j) ==
    j.phase \in DeliveryStatePhases => j.delivery # None /\ j.subject = j.delivery

\* Mutant: results are not deduplicated.
AppliedNever(j, key) == FALSE

\* The duplicate lookup of advance_run.
Applied(j, key) == \E i \in DOMAIN j.events : j.events[i].key = key

\* The subject a normalized result is bound to.
ResultSha(j, res) ==
    IF res.phase \in ShaPhases /\ res.sha = None THEN j.subject ELSE res.sha

\* _normalize_result raises unless every clause holds.
Normalizes(j, res) ==
    /\ res.phase = j.phase
    /\ res.phase \in ShaPhases => ResultSha(j, res) # None
    /\ res.phase = "MERGE" /\ res.outcome = "PASS" => res.mergeSha # None
    /\ res.phase \in DeliveryResultPhases =>
           j.delivery # None /\ ResultSha(j, res) = j.delivery
    /\ res.outcome = "PASS" /\ res.phase \in EvidencePhases => res.evidence
    /\ res.outcome = "RETRY" => res.transient
    /\ res.outcome \in {"ROADMAP_COMPLETE", "NEXT_READY"} => res.phase = "NEXT"
    /\ res.outcome = "CHANGES_REQUESTED" => res.phase = "OWNER_ACCEPTANCE"
    /\ res.phase = "PREVIEW" /\ res.outcome = "PASS" /\ j.profile.productImpact
           => res.digest # None
    /\ res.phase = "OWNER_ACCEPTANCE" /\ res.outcome = "PASS"
           => res.exact /\ res.acceptedDigest = j.preview

-----------------------------------------------------------------------------
\* Mutant: a new subject keeps the acceptance of the old one.
RebindKeepsAcceptance(j, sha) ==
    IF sha = None THEN j
    ELSE IF j.subject \in {None, sha} THEN [j EXCEPT !.subject = sha]
    ELSE [j EXCEPT !.subject = sha, !.preview = None]

\* A new subject invalidates what was bound to the old one.
Rebind(j, sha) ==
    IF sha = None THEN j
    ELSE IF j.subject \in {None, sha} THEN [j EXCEPT !.subject = sha]
    ELSE [j EXCEPT !.subject = sha, !.preview = None, !.accepted = None,
                   !.refs = @ \ {"attestation"}]

\* The references each phase is allowed to record.
RefsOf(p) == CASE p \in {"CLAIM", "EXECUTE", "RECOVERY"} -> {"branch"}
               [] p = "OPEN_PR" -> {"pr"}
               [] p = "PREVIEW" -> {"attestation"}
               [] OTHER -> {}

\* Mutant: the merge revision does not become the subject.
RecordMetadataKeepsHead(j, res) ==
    LET passed(p) == j.phase = p /\ res.outcome = "PASS"
    IN  [j EXCEPT !.refs     = @ \cup (res.refs \cap RefsOf(j.phase)),
                  !.delivery = IF passed("MERGE") THEN res.mergeSha ELSE @,
                  !.preview  = IF passed("PREVIEW") THEN res.digest ELSE @,
                  !.accepted = IF passed("OWNER_ACCEPTANCE") THEN j.subject ELSE @]

\* What the metadata of a result adds: references, and on PASS the merge
\* revision, the preview digest and the accepted subject.
RecordMetadata(j, res) ==
    LET passed(p) == j.phase = p /\ res.outcome = "PASS"
    IN  [j EXCEPT !.refs     = @ \cup (res.refs \cap RefsOf(j.phase)),
                  !.delivery = IF passed("MERGE") THEN res.mergeSha ELSE @,
                  !.subject  = IF passed("MERGE") THEN res.mergeSha ELSE @,
                  !.preview  = IF passed("PREVIEW") THEN res.digest ELSE @,
                  !.accepted = IF passed("OWNER_ACCEPTANCE") THEN j.subject ELSE @]

EnterRecovery(j) ==
    [j EXCEPT !.lastFailed = j.phase, !.phase = "RECOVERY", !.status = "RECOVERY"]

\* Where a PASS leads.
PassTarget(j) ==
    IF j.phase = "REVIEW" /\ ~j.profile.productImpact THEN "MERGE"
    ELSE IF j.phase = "RECOVERY"
         THEN IF j.lastFailed = None THEN "RECONCILE" ELSE j.lastFailed
    ELSE NextPhase(j.phase)

Pass(j) ==
    [j EXCEPT !.phase = PassTarget(j), !.status = "RUNNING",
              !.lastFailed = IF j.phase = "RECOVERY" THEN None ELSE @]

Fail(j) == IF j.phase = "RECOVERY" THEN [j EXCEPT !.status = "BLOCKED"]
                                   ELSE EnterRecovery(j)

Retry(j) ==
    LET counted == [j EXCEPT !.attempts[j.phase] = @ + 1]
    IN  IF counted.attempts[j.phase] > MaxAttempts
        THEN EnterRecovery(counted)
        ELSE [counted EXCEPT !.status = "RETRY_WAIT"]

ChangesRequested(j) ==
    [j EXCEPT !.phase = "EXECUTE", !.status = "RUNNING", !.preview = None,
              !.accepted = None]

NextReady(j) ==
    IF j.cycle + 1 >= MaxCycles
    THEN [j EXCEPT !.cycle = @ + 1, !.status = "BLOCKED"]
    ELSE [j EXCEPT !.cycle = @ + 1, !.phase = "RECONCILE", !.status = "RUNNING",
                   !.subject = None, !.preview = None, !.accepted = None,
                   !.delivery = None, !.refs = {}, !.attempts = [p \in Phase |-> 0]]

Route(j, outcome) ==
    CASE outcome = "PASS"              -> Pass(j)
      [] outcome = "FAIL"              -> Fail(j)
      [] outcome = "RETRY"             -> Retry(j)
      [] outcome = "CHANGES_REQUESTED" -> ChangesRequested(j)
      [] outcome = "HUMAN_REQUIRED"    -> [j EXCEPT !.status = "HUMAN_REQUIRED"]
      [] outcome = "BLOCK"             -> [j EXCEPT !.status = "BLOCKED"]
      [] outcome = "ROADMAP_COMPLETE"  -> [j EXCEPT !.phase = "NEXT", !.status = "COMPLETE"]
      [] outcome = "NEXT_READY"        -> NextReady(j)

\* _append_event, then the refusal of the policy or the transition itself.
AdvanceRun(j, key, res, decision) ==
    LET event    == [key |-> key, phase |-> j.phase, outcome |-> res.outcome,
                     sha |-> ResultSha(j, res), decision |-> decision]
        appended == [j EXCEPT !.events = Append(@, event)]
    IN  IF decision # "ALLOW"
        THEN [appended EXCEPT !.status = decision]
        ELSE Route(RecordMetadata(Rebind(appended, ResultSha(j, res)), res), res.outcome)
=============================================================================
