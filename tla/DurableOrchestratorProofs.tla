---------------------- MODULE DurableOrchestratorProofs ----------------------
(***************************************************************************)
(* The orchestrator's safety for any number of runs, processes, commits,   *)
(* results, facts and revisions.  A process works on a private copy of a   *)
(* journal, so the inductive invariant speaks about the copies on their    *)
(* way to save as well as about the saved journals.  The last part is about *)
(* the permission engine that decides each step, asked with fewer facts.   *)
(***************************************************************************)
EXTENDS DurableOrchestrator, PolicyDecay, TLAPS

-----------------------------------------------------------------------------
(* The stages of advance_run keep the shape of a journal and its history.  *)

Event0(j, key, res, decision) ==
    [key |-> key, phase |-> j.phase, outcome |-> res.outcome,
     sha |-> ResultSha(j, res), decision |-> decision]

Appended(j, key, res, decision) ==
    [j EXCEPT !.events = Append(@, Event0(j, key, res, decision))]

LEMMA EvaluateType == \A c : EvaluatePermission(c) \in Decisions
  BY DEF EvaluatePermission, Decisions

LEMMA AppendedType ==
    ASSUME NEW j \in Journal, NEW key \in Key, NEW res \in StepResult,
           NEW decision \in Decisions
    PROVE  /\ ResultSha(j, res) \in ShaOrNone
           /\ Event0(j, key, res, decision) \in Event
           /\ Appended(j, key, res, decision) \in Journal
<1>1. ResultSha(j, res) \in ShaOrNone
  BY DEF ResultSha, Journal, StepResult
<1>2. Event0(j, key, res, decision) \in Event
  BY <1>1 DEF Event0, Event, Journal, StepResult
<1>3. Append(j.events, Event0(j, key, res, decision)) \in Seq(Event)
  BY <1>2 DEF Journal
<1>4. QED
  BY <1>1, <1>2, <1>3 DEF Appended, Journal

LEMMA RebindType ==
    ASSUME NEW j \in Journal, NEW sha \in ShaOrNone
    PROVE  /\ Rebind(j, sha) \in Journal
           /\ Rebind(j, sha).events = j.events
           /\ Rebind(j, sha).revision = j.revision
           /\ Rebind(j, sha).phase = j.phase
           /\ Rebind(j, sha).delivery = j.delivery
  BY DEF Rebind, Journal, ShaOrNone, DigestOrNone

LEMMA RecordMetadataType ==
    ASSUME NEW j \in Journal, NEW res \in StepResult
    PROVE  /\ RecordMetadata(j, res) \in Journal
           /\ RecordMetadata(j, res).events = j.events
           /\ RecordMetadata(j, res).revision = j.revision
           /\ RecordMetadata(j, res).phase = j.phase
  BY DEF RecordMetadata, Journal, StepResult

LEMMA PassTargetType ==
    ASSUME NEW j \in Journal
    PROVE  PassTarget(j) \in Phase
<1>1. \A p \in Phase : NextPhase(p) \in Phase
  BY DEF NextPhase, Phase
<1>2. j.phase \in Phase /\ j.lastFailed \in Phase \cup {None}
  BY DEF Journal
<1>3. "MERGE" \in Phase /\ "RECONCILE" \in Phase
  BY DEF Phase
<1>4. QED
  BY <1>1, <1>2, <1>3 DEF PassTarget

LEMMA RouteType ==
    ASSUME NEW j \in Journal, NEW outcome \in Outcomes
    PROVE  /\ Route(j, outcome) \in Journal
           /\ Route(j, outcome).events = j.events
           /\ Route(j, outcome).revision = j.revision
<1> DEFINE Keeps(k) == k \in Journal /\ k.events = j.events /\ k.revision = j.revision
<1>1. {"RECOVERY", "EXECUTE", "NEXT", "RECONCILE"} \subseteq Phase
  BY DEF Phase
<1>2. Keeps(Pass(j))
  BY PassTargetType DEF Pass, Journal, Statuses, ActiveStatuses
<1>3. Keeps(EnterRecovery(j))
  BY <1>1 DEF EnterRecovery, Journal, Statuses, ActiveStatuses
<1>4. Keeps(Fail(j))
  BY <1>3 DEF Fail, Journal, Statuses, FinalStatuses
<1>5. Keeps(Retry(j))
  <2> DEFINE counted == [j EXCEPT !.attempts[j.phase] = @ + 1]
  <2>1. j.attempts \in [Phase -> Nat] /\ j.phase \in Phase
    BY DEF Journal
  <2>2. [j.attempts EXCEPT ![j.phase] = @ + 1] \in [Phase -> Nat]
    BY <2>1
  <2>3. Keeps(counted)
    BY <2>2 DEF Journal
  <2>4. Keeps(EnterRecovery(counted))
    BY <2>3, <1>1 DEF EnterRecovery, Journal, Statuses, ActiveStatuses
  <2>5. Keeps([counted EXCEPT !.status = "RETRY_WAIT"])
    BY <2>3 DEF Journal, Statuses, ActiveStatuses
  <2>6. QED
    BY <2>4, <2>5 DEF Retry
<1>6. Keeps(ChangesRequested(j))
  BY <1>1 DEF ChangesRequested, Journal, Statuses, ActiveStatuses, ShaOrNone, DigestOrNone
<1>7. Keeps([j EXCEPT !.status = "HUMAN_REQUIRED"])
  BY DEF Journal, Statuses, ActiveStatuses
<1>8. Keeps([j EXCEPT !.status = "BLOCKED"])
  BY DEF Journal, Statuses, FinalStatuses
<1>9. Keeps([j EXCEPT !.phase = "NEXT", !.status = "COMPLETE"])
  BY <1>1 DEF Journal, Statuses, FinalStatuses
<1>10. Keeps(NextReady(j))
  <2>1. j.cycle + 1 \in Nat /\ [p \in Phase |-> 0] \in [Phase -> Nat]
    BY DEF Journal
  <2>2. Keeps([j EXCEPT !.cycle = @ + 1, !.status = "BLOCKED"])
    BY <2>1 DEF Journal, Statuses, FinalStatuses
  <2>3. Keeps([j EXCEPT !.cycle = @ + 1, !.phase = "RECONCILE", !.status = "RUNNING",
                        !.subject = None, !.preview = None, !.accepted = None,
                        !.delivery = None, !.refs = {},
                        !.attempts = [p \in Phase |-> 0]])
    BY <2>1, <1>1 DEF Journal, Statuses, ActiveStatuses, ShaOrNone, DigestOrNone
  <2>4. QED
    BY <2>2, <2>3 DEF NextReady
<1>11. QED
  BY <1>2, <1>4, <1>5, <1>6, <1>7, <1>8, <1>9, <1>10 DEF Route, Outcomes

\* advance_run as the composition of its stages.
LEMMA AdvanceStages ==
    ASSUME NEW j \in Journal, NEW key \in Key, NEW res \in StepResult,
           NEW decision \in Decisions
    PROVE  AdvanceRun(j, key, res, decision) =
               IF decision # "ALLOW"
               THEN [Appended(j, key, res, decision) EXCEPT !.status = decision]
               ELSE Route(RecordMetadata(Rebind(Appended(j, key, res, decision),
                                                ResultSha(j, res)), res), res.outcome)
  BY DEF AdvanceRun, Appended, Event0

\* The computed journal is well formed and one event longer.
LEMMA AdvanceType ==
    ASSUME NEW j \in Journal, NEW key \in Key, NEW res \in StepResult,
           NEW decision \in Decisions
    PROVE  /\ AdvanceRun(j, key, res, decision) \in Journal
           /\ AdvanceRun(j, key, res, decision).revision = j.revision
           /\ AdvanceRun(j, key, res, decision).events =
                  Append(j.events, Event0(j, key, res, decision))
<1> DEFINE a == Appended(j, key, res, decision)
           b == Rebind(a, ResultSha(j, res))
           c == RecordMetadata(b, res)
<1>1. /\ ResultSha(j, res) \in ShaOrNone /\ a \in Journal
      /\ a.events = Append(j.events, Event0(j, key, res, decision))
      /\ a.revision = j.revision
  BY AppendedType DEF Appended, Journal
<1>2. CASE decision # "ALLOW"
  <2>1. decision \in Statuses
    BY <1>2 DEF Decisions, Statuses, ActiveStatuses
  <2>2. /\ [a EXCEPT !.status = decision] \in Journal
        /\ [a EXCEPT !.status = decision].events = a.events
        /\ [a EXCEPT !.status = decision].revision = a.revision
    BY <1>1, <2>1 DEF Journal
  <2>3. AdvanceRun(j, key, res, decision) = [a EXCEPT !.status = decision]
    BY <1>2 DEF AdvanceRun, Appended, Event0
  <2>4. QED
    BY <1>1, <2>2, <2>3
<1>3. CASE decision = "ALLOW"
  <2>1. b \in Journal /\ b.events = a.events /\ b.revision = a.revision
    BY <1>1, RebindType
  <2>2. c \in Journal /\ c.events = b.events /\ c.revision = b.revision
    BY <2>1, RecordMetadataType
  <2>3. res.outcome \in Outcomes
    BY DEF StepResult
  <2>4. /\ Route(c, res.outcome) \in Journal
        /\ Route(c, res.outcome).events = c.events
        /\ Route(c, res.outcome).revision = c.revision
    BY <2>2, <2>3, RouteType
  <2>5. QED
    BY <1>1, <1>3, <2>1, <2>2, <2>4, AdvanceStages
<1>4. QED
  BY <1>2, <1>3

-----------------------------------------------------------------------------
(* Acceptance and preview stay bound to the subject through every stage.   *)

SubjectKnown(j) == j.preview # None \/ j.accepted # None => j.subject # None
Bound(j) == SubjectKnown(j) /\ AcceptsSubject(j) /\ PreviewsSubject(j)

\* The fields Bound reads.
SameBinding(j, k) == /\ k.subject = j.subject /\ k.delivery = j.delivery
                     /\ k.preview = j.preview /\ k.accepted = j.accepted

\* An event once recorded stays recorded.
LEMMA EventStays ==
    ASSUME NEW j \in Journal, NEW k \in Journal, NEW e \in Event,
           k.events = j.events \/ k.events = Append(j.events, e),
           NEW phase, NEW sha, HasEvent(j, phase, sha)
    PROVE  HasEvent(k, phase, sha)
<1>1. j.events \in Seq(Event)
  BY DEF Journal
<1>2. PICK i \in DOMAIN j.events : /\ j.events[i].phase = phase
                                   /\ j.events[i].outcome = "PASS"
                                   /\ j.events[i].decision = "ALLOW"
                                   /\ j.events[i].sha = sha
  BY DEF HasEvent
<1>3. i \in DOMAIN k.events /\ k.events[i] = j.events[i]
  BY <1>1, <1>2
<1>4. QED
  BY <1>2, <1>3 DEF HasEvent

\* A journal with the same binding and no event less is as bound as before.
LEMMA BoundStays ==
    ASSUME NEW j \in Journal, NEW k \in Journal, NEW e \in Event, Bound(j),
           k.events = j.events \/ k.events = Append(j.events, e),
           SameBinding(j, k) \/ (k.preview = None /\ k.accepted = None)
    PROVE  Bound(k)
<1>1. HasEvent(j, "PREVIEW", j.subject) => HasEvent(k, "PREVIEW", j.subject)
  BY EventStays
<1>2. QED
  BY <1>1 DEF Bound, SubjectKnown, AcceptsSubject, PreviewsSubject, SameBinding

LEMMA RebindBound ==
    ASSUME NEW j \in Journal, NEW sha \in ShaOrNone, Bound(j)
    PROVE  /\ Bound(Rebind(j, sha))
           /\ sha # None => Rebind(j, sha).subject = sha
<1> DEFINE k == Rebind(j, sha)
<1>1. k \in Journal /\ k.events = j.events
  BY RebindType
<1>2. \/ SameBinding(j, k)
      \/ k.preview = None /\ k.accepted = None
  BY DEF Bound, SubjectKnown, SameBinding, Rebind, Journal
<1>3. sha # None => k.subject = sha
  BY DEF Rebind, Journal
<1>4. Bound(k)
  <2>1. HasEvent(j, "PREVIEW", j.subject) => HasEvent(k, "PREVIEW", j.subject)
    BY <1>1 DEF HasEvent
  <2>2. QED
    BY <1>2, <2>1 DEF Bound, SubjectKnown, AcceptsSubject, PreviewsSubject, SameBinding
<1>5. QED
  BY <1>3, <1>4

LEMMA RouteBinding ==
    ASSUME NEW j \in Journal, NEW outcome \in Outcomes
    PROVE  LET k == Route(j, outcome)
           IN  SameBinding(j, k) \/ (k.preview = None /\ k.accepted = None)
<1>1. SameBinding(j, Pass(j))
  BY DEF Pass, SameBinding, Journal
<1>2. SameBinding(j, Fail(j))
  BY DEF Fail, EnterRecovery, SameBinding, Journal
<1>3. SameBinding(j, Retry(j))
  BY DEF Retry, EnterRecovery, SameBinding, Journal
<1>4. ChangesRequested(j).preview = None /\ ChangesRequested(j).accepted = None
  BY DEF ChangesRequested, Journal
<1>5. \/ SameBinding(j, NextReady(j))
      \/ NextReady(j).preview = None /\ NextReady(j).accepted = None
  BY DEF NextReady, SameBinding, Journal
<1>6. /\ SameBinding(j, [j EXCEPT !.status = "HUMAN_REQUIRED"])
      /\ SameBinding(j, [j EXCEPT !.status = "BLOCKED"])
      /\ SameBinding(j, [j EXCEPT !.phase = "NEXT", !.status = "COMPLETE"])
  BY DEF SameBinding, Journal
<1>7. QED
  BY <1>1, <1>2, <1>3, <1>4, <1>5, <1>6 DEF Route, Outcomes

\* What RecordMetadata writes, phase by phase.
LEMMA RecordMetadataBinding ==
    ASSUME NEW j \in Journal, NEW res \in StepResult
    PROVE  LET k == RecordMetadata(j, res)
           IN  \/ SameBinding(j, k)
               \/ /\ j.phase = "MERGE" /\ res.outcome = "PASS"
                  /\ k.subject = res.mergeSha /\ k.delivery = res.mergeSha
                  /\ k.preview = j.preview /\ k.accepted = j.accepted
               \/ /\ j.phase = "PREVIEW" /\ res.outcome = "PASS"
                  /\ k.subject = j.subject /\ k.delivery = j.delivery
                  /\ k.preview = res.digest /\ k.accepted = j.accepted
               \/ /\ j.phase = "OWNER_ACCEPTANCE" /\ res.outcome = "PASS"
                  /\ k.subject = j.subject /\ k.delivery = j.delivery
                  /\ k.preview = j.preview /\ k.accepted = j.subject
  BY DEF RecordMetadata, SameBinding, Journal

\* The whole of advance_run keeps a bound journal bound.
LEMMA AdvanceBound ==
    ASSUME NEW j \in Journal, NEW key \in Key, NEW res \in StepResult,
           NEW decision \in Decisions, Bound(j), Normalizes(j, res)
    PROVE  Bound(AdvanceRun(j, key, res, decision))
<1> DEFINE e == Event0(j, key, res, decision)
           a == Appended(j, key, res, decision)
           b == Rebind(a, ResultSha(j, res))
           c == RecordMetadata(b, res)
<1>1. /\ ResultSha(j, res) \in ShaOrNone /\ e \in Event /\ a \in Journal
      /\ a.events = Append(j.events, e) /\ a.phase = j.phase /\ SameBinding(j, a)
  BY AppendedType DEF Appended, Journal, SameBinding
<1>2. Bound(a)
  BY <1>1, BoundStays
<1>3. CASE decision # "ALLOW"
  <2>1. AdvanceRun(j, key, res, decision) = [a EXCEPT !.status = decision]
    BY <1>3 DEF AdvanceRun, Appended, Event0
  <2>2. /\ SameBinding(a, [a EXCEPT !.status = decision])
        /\ [a EXCEPT !.status = decision].events = a.events
    BY <1>1 DEF SameBinding, Journal
  <2>3. QED
    BY <1>1, <1>2, <2>1, <2>2, AdvanceType, BoundStays
<1>4. CASE decision = "ALLOW"
  <2>1. /\ b \in Journal /\ b.events = a.events /\ b.phase = j.phase
        /\ b.delivery = a.delivery
    BY <1>1, RebindType
  <2>2. Bound(b) /\ (ResultSha(j, res) # None => b.subject = ResultSha(j, res))
    BY <1>1, <1>2, RebindBound
  <2>3. c \in Journal /\ c.events = b.events
    BY <2>1, RecordMetadataType
  <2>4. Bound(c)
    <3>1. CASE SameBinding(b, c)
      BY <1>1, <2>1, <2>2, <2>3, <3>1, BoundStays
    <3>2. CASE /\ b.phase = "MERGE" /\ res.outcome = "PASS"
               /\ c.subject = res.mergeSha /\ c.delivery = res.mergeSha
               /\ c.preview = b.preview /\ c.accepted = b.accepted
      <4>1. res.mergeSha # None
        BY <2>1, <3>2 DEF Normalizes
      <4>2. QED
        BY <3>2, <4>1 DEF Bound, SubjectKnown, AcceptsSubject, PreviewsSubject
    <3>3. CASE /\ b.phase = "PREVIEW" /\ res.outcome = "PASS"
               /\ c.subject = b.subject /\ c.delivery = b.delivery
               /\ c.preview = res.digest /\ c.accepted = b.accepted
      <4>1. ResultSha(j, res) # None /\ b.subject = ResultSha(j, res)
        BY <2>1, <2>2, <3>3 DEF Normalizes, ShaPhases
      <4>2. HasEvent(c, "PREVIEW", b.subject)
        <5>1. j.events \in Seq(Event)
          BY DEF Journal
        <5>2. /\ c.events = Append(j.events, e)
              /\ e.phase = "PREVIEW" /\ e.outcome = "PASS"
              /\ e.decision = "ALLOW" /\ e.sha = b.subject
          BY <1>1, <1>4, <2>1, <2>3, <3>3, <4>1 DEF Event0
        <5>3. /\ Len(j.events) + 1 \in DOMAIN c.events
              /\ c.events[Len(j.events) + 1] = e
          BY <1>1, <5>1, <5>2
        <5>4. QED
          BY <5>2, <5>3 DEF HasEvent
      <4>3. QED
        BY <2>2, <3>3, <4>1, <4>2
           DEF Bound, SubjectKnown, AcceptsSubject, PreviewsSubject
    <3>4. CASE /\ b.phase = "OWNER_ACCEPTANCE" /\ res.outcome = "PASS"
               /\ c.subject = b.subject /\ c.delivery = b.delivery
               /\ c.preview = b.preview /\ c.accepted = b.subject
      <4>1. b.subject # None
        BY <2>1, <2>2, <3>4 DEF Normalizes, ShaPhases
      <4>2. HasEvent(b, "PREVIEW", b.subject) => HasEvent(c, "PREVIEW", b.subject)
        BY <2>3 DEF HasEvent
      <4>3. QED
        BY <2>2, <3>4, <4>1, <4>2
           DEF Bound, SubjectKnown, AcceptsSubject, PreviewsSubject
    <3>5. QED
      BY <2>1, <3>1, <3>2, <3>3, <3>4, RecordMetadataBinding
  <2>5. res.outcome \in Outcomes
    BY DEF StepResult
  <2>6. Bound(Route(c, res.outcome))
    BY <1>1, <2>3, <2>4, <2>5, RouteType, RouteBinding, BoundStays
  <2>7. QED
    BY <1>4, <2>6 DEF AdvanceRun, Appended, Event0
<1>5. QED
  BY <1>3, <1>4

\* A fresh key stays unique when its event is appended.
LEMMA KeysStayUnique ==
    ASSUME NEW j \in Journal, NEW key \in Key, NEW res \in StepResult,
           NEW decision \in Decisions, UniqueKeys(j), ~Applied(j, key)
    PROVE  UniqueKeys(AdvanceRun(j, key, res, decision))
<1> DEFINE e == Event0(j, key, res, decision)
           k == AdvanceRun(j, key, res, decision)
<1>1. j.events \in Seq(Event) /\ e \in Event /\ e.key = key
  BY AppendedType DEF Journal, Event0
<1>2. k.events = Append(j.events, e)
  BY AdvanceType
<1>3. /\ DOMAIN k.events = 1..(Len(j.events) + 1)
      /\ k.events[Len(j.events) + 1].key = key
      /\ \A i \in 1..Len(j.events) : k.events[i] = j.events[i]
      /\ DOMAIN j.events = 1..Len(j.events) /\ Len(j.events) \in Nat
  BY <1>1, <1>2
<1>4. \A i \in 1..Len(j.events) : k.events[i].key # key
  BY <1>3 DEF Applied
<1> HIDE DEF k
<1>5. UniqueKeys(k)
  BY <1>3, <1>4 DEF UniqueKeys
<1>6. QED
  BY <1>5 DEF k

-----------------------------------------------------------------------------
(* What is merged stays delivered, unless a later result names another     *)
(* commit.                                                                 *)

MergeEvent(e)       == e.phase = "MERGE" /\ e.outcome = "PASS" /\ e.decision = "ALLOW"
MovingEvent(e, sha) == /\ e.phase \in {"RECOVERY", "CLEANUP", "NEXT"}
                       /\ e.decision = "ALLOW" /\ e.sha \notin {None, sha}

Delivering(j) == \/ j.phase \in DeliveryStatePhases
                 \/ j.phase = "RECOVERY" /\ j.lastFailed \in DeliveryStatePhases

\* The merge of this cycle is event i; a commit that is not its revision was moved to.
MergedAt(events, i, subject, delivery) ==
    /\ MergeEvent(events[i])
    /\ \A m \in DOMAIN events : m >= i => events[m].phase # "RECONCILE"
    /\ \/ subject = delivery
       \/ \E k \in DOMAIN events : i < k /\ MovingEvent(events[k], delivery)

DeliveryKept(j) ==
    Delivering(j) => /\ j.delivery # None
                     /\ \E i \in DOMAIN j.events :
                            MergedAt(j.events, i, j.subject, j.delivery)

SameDelivery(j, k) == /\ k.subject = j.subject /\ k.delivery = j.delivery
                      /\ k.phase = j.phase /\ k.lastFailed = j.lastFailed

\* An event of another phase changes nothing about the merge.
LEMMA MergedAtStays ==
    ASSUME NEW events \in Seq(Event), NEW e \in Event, NEW i \in DOMAIN events,
           NEW subject, NEW subject2, NEW delivery, MergedAt(events, i, subject, delivery),
           e.phase # "RECONCILE",
           subject2 \in {subject, delivery} \/ MovingEvent(e, delivery)
    PROVE  i \in DOMAIN Append(events, e) /\ MergedAt(Append(events, e), i, subject2, delivery)
<1> DEFINE n == Len(events) + 1
           longer == Append(events, e)
<1>1. /\ DOMAIN events = 1..Len(events) /\ Len(events) \in Nat
      /\ DOMAIN longer = 1..n /\ longer[n] = e
      /\ \A m \in 1..Len(events) : longer[m] = events[m]
  OBVIOUS
<1> HIDE DEF longer
<1>2. MergeEvent(longer[i]) /\ i \in DOMAIN longer /\ i < n
  BY <1>1 DEF MergedAt
<1>3. \A m \in DOMAIN longer : m >= i => longer[m].phase # "RECONCILE"
  BY <1>1 DEF MergedAt
<1>4. \/ subject2 = delivery
      \/ \E k \in DOMAIN longer : i < k /\ MovingEvent(longer[k], delivery)
  <2>1. CASE MovingEvent(e, delivery)
    BY <1>1, <1>2, <2>1
  <2>2. CASE subject2 \in {subject, delivery}
    BY <1>1, <2>2 DEF MergedAt
  <2>3. QED
    BY <2>1, <2>2
<1>5. QED
  BY <1>2, <1>3, <1>4 DEF MergedAt, longer

\* Where a result may lead that is about what is merged.
LEMMA RouteDelivery ==
    ASSUME NEW j \in Journal, NEW outcome \in Outcomes,
           outcome = "CHANGES_REQUESTED" => j.phase = "OWNER_ACCEPTANCE",
           outcome \in {"ROADMAP_COMPLETE", "NEXT_READY"} => j.phase = "NEXT",
           Delivering(Route(j, outcome))
    PROVE  /\ Delivering(j) \/ (j.phase = "MERGE" /\ outcome = "PASS")
           /\ Route(j, outcome).subject = j.subject
           /\ Route(j, outcome).delivery = j.delivery
<1> DEFINE k == Route(j, outcome)
<1> USE DEF DeliveryStatePhases
<1>0. j.phase \in Phase /\ j.lastFailed \in Phase \cup {None}
  BY DEF Journal
<1>1. CASE outcome = "PASS"
  <2>1. k = Pass(j)
    BY <1>1 DEF Route
  <2>2. /\ k.phase = PassTarget(j) /\ k.subject = j.subject /\ k.delivery = j.delivery
        /\ k.lastFailed = IF j.phase = "RECOVERY" THEN None ELSE j.lastFailed
    BY <2>1 DEF Pass, Journal
  <2>3. CASE j.phase = "RECOVERY"
    BY <1>0, <2>2, <2>3, NoneAssumption DEF PassTarget, Delivering, Phase
  <2>4. CASE j.phase # "RECOVERY" /\ j.phase # "MERGE"
    BY <1>0, <2>2, <2>4 DEF PassTarget, Delivering, Phase, NextPhase
  <2>5. QED
    BY <1>1, <2>2, <2>3, <2>4
<1>2. CASE outcome = "FAIL"
  BY <1>0, <1>2 DEF Route, Fail, EnterRecovery, Journal, Delivering
<1>3. CASE outcome = "RETRY"
  BY <1>0, <1>3 DEF Route, Retry, EnterRecovery, Journal, Delivering
<1>4. CASE outcome = "CHANGES_REQUESTED"
  BY <1>4 DEF Route, ChangesRequested, Journal, Delivering
<1>5. CASE outcome = "HUMAN_REQUIRED" \/ outcome = "BLOCK"
  BY <1>5 DEF Route, Journal, Delivering
<1>6. CASE outcome = "ROADMAP_COMPLETE"
  BY <1>6 DEF Route, Journal, Delivering
<1>7. CASE outcome = "NEXT_READY"
  BY <1>7 DEF Route, NextReady, Journal, Delivering
<1>8. QED
  BY <1>1, <1>2, <1>3, <1>4, <1>5, <1>6, <1>7 DEF Outcomes

LEMMA AdvanceDelivery ==
    ASSUME NEW j \in Journal, NEW key \in Key, NEW res \in StepResult,
           NEW decision \in Decisions, DeliveryKept(j), Normalizes(j, res), Validates(j)
    PROVE  DeliveryKept(AdvanceRun(j, key, res, decision))
<1> DEFINE e == Event0(j, key, res, decision)
           sha == ResultSha(j, res)
           a == Appended(j, key, res, decision)
           b == Rebind(a, sha)
           c == RecordMetadata(b, res)
           k == AdvanceRun(j, key, res, decision)
<1>1. /\ sha \in ShaOrNone /\ e \in Event /\ a \in Journal
      /\ a.events = Append(j.events, e) /\ SameDelivery(j, a)
      /\ e.phase = j.phase /\ e.outcome = res.outcome /\ e.sha = sha
      /\ e.decision = decision
  BY AppendedType DEF Appended, Journal, SameDelivery, Event0
<1>2. k.events = Append(j.events, e) /\ j.events \in Seq(Event)
  BY AdvanceType DEF Journal
<1> SUFFICES ASSUME Delivering(k)
             PROVE  /\ k.delivery # None
                    /\ \E i \in DOMAIN k.events : MergedAt(k.events, i, k.subject, k.delivery)
  BY DEF DeliveryKept
\* Once a merge is known, any later event keeps it.
<1>3. ASSUME Delivering(j), k.delivery = j.delivery,
             k.subject \in {j.subject, j.delivery} \/ MovingEvent(e, j.delivery)
      PROVE  /\ k.delivery # None
             /\ \E i \in DOMAIN k.events : MergedAt(k.events, i, k.subject, k.delivery)
  <2>1. PICK i \in DOMAIN j.events : MergedAt(j.events, i, j.subject, j.delivery)
    BY <1>3 DEF DeliveryKept
  <2>2. e.phase # "RECONCILE" /\ j.delivery # None
    BY <1>1, <1>3 DEF Delivering, DeliveryStatePhases, DeliveryKept
  <2>3. /\ i \in DOMAIN Append(j.events, e)
        /\ MergedAt(Append(j.events, e), i, k.subject, j.delivery)
    BY <1>1, <1>2, <1>3, <2>1, <2>2, MergedAtStays
  <2>4. QED
    BY <1>2, <1>3, <2>2, <2>3
<1>4. CASE decision # "ALLOW"
  <2>1. k = [a EXCEPT !.status = decision]
    BY <1>4 DEF AdvanceRun, Appended, Event0
  <2>2. SameDelivery(a, k)
    BY <1>1, <2>1 DEF SameDelivery, Journal
  <2>3. Delivering(j) /\ k.delivery = j.delivery /\ k.subject = j.subject
    BY <1>1, <2>2 DEF SameDelivery, Delivering
  <2>4. QED
    BY <1>3, <2>3
<1>5. CASE decision = "ALLOW"
  <2>1. k = Route(c, res.outcome)
    BY <1>5 DEF AdvanceRun, Appended, Event0
  <2>2. /\ b \in Journal /\ b.phase = j.phase /\ b.delivery = j.delivery
        /\ b.lastFailed = j.lastFailed
        /\ b.subject = IF sha = None THEN j.subject ELSE sha
    BY <1>1, RebindType DEF Rebind, Journal, SameDelivery
  <2>3. /\ c \in Journal /\ c.phase = j.phase /\ c.lastFailed = j.lastFailed
        /\ j.phase = "MERGE" /\ res.outcome = "PASS"
               => c.delivery = res.mergeSha /\ c.subject = res.mergeSha
        /\ ~(j.phase = "MERGE" /\ res.outcome = "PASS")
               => c.delivery = j.delivery /\ c.subject = b.subject
    <3> HIDE DEF b
    <3>1. /\ c \in Journal /\ c.phase = b.phase
      BY <2>2, RecordMetadataType
    <3>2. /\ c.lastFailed = b.lastFailed
          /\ c.delivery = IF b.phase = "MERGE" /\ res.outcome = "PASS"
                          THEN res.mergeSha ELSE b.delivery
          /\ c.subject = IF b.phase = "MERGE" /\ res.outcome = "PASS"
                         THEN res.mergeSha ELSE b.subject
      BY <2>2 DEF RecordMetadata, Journal
    <3> HIDE DEF c
    <3>3. QED
      BY <2>2, <3>1, <3>2
  <2>4. res.outcome \in Outcomes
    BY DEF StepResult
  <2>5. /\ Delivering(c) \/ (c.phase = "MERGE" /\ res.outcome = "PASS")
        /\ k.subject = c.subject /\ k.delivery = c.delivery
    <3>1. /\ res.outcome = "CHANGES_REQUESTED" => c.phase = "OWNER_ACCEPTANCE"
          /\ res.outcome \in {"ROADMAP_COMPLETE", "NEXT_READY"} => c.phase = "NEXT"
      BY <2>3 DEF Normalizes
    <3>2. QED
      BY <2>1, <2>3, <2>4, <3>1, RouteDelivery
  <2>6. CASE j.phase = "MERGE" /\ res.outcome = "PASS"
    <3>1. k.subject = res.mergeSha /\ k.delivery = res.mergeSha /\ res.mergeSha # None
      BY <2>3, <2>5, <2>6 DEF Normalizes
    <3>2. MergeEvent(e)
      BY <1>1, <1>5, <2>6 DEF MergeEvent
    <3>3. /\ DOMAIN k.events = 1..(Len(j.events) + 1) /\ Len(j.events) \in Nat
          /\ k.events[Len(j.events) + 1] = e
      BY <1>1, <1>2
    <3>4. MergedAt(k.events, Len(j.events) + 1, k.subject, k.delivery)
      BY <3>1, <3>2, <3>3 DEF MergedAt, MergeEvent
    <3>5. QED
      BY <3>1, <3>3, <3>4
  <2>7. CASE ~(j.phase = "MERGE" /\ res.outcome = "PASS")
    <3>1. /\ Delivering(j) /\ k.delivery = j.delivery
          /\ k.subject = IF sha = None THEN j.subject ELSE sha
      BY <2>2, <2>3, <2>5, <2>7 DEF Delivering
    <3>2. CASE sha \in {None, j.delivery}
      BY <1>3, <3>1, <3>2
    <3>3. CASE sha \notin {None, j.delivery}
      <4>1. j.phase \notin DeliveryResultPhases
        BY <3>3 DEF Normalizes
      <4>2. j.phase \in {"RECOVERY", "CLEANUP", "NEXT"}
        BY <3>1, <4>1 DEF Delivering, DeliveryStatePhases, DeliveryResultPhases
      <4>3. MovingEvent(e, j.delivery)
        BY <1>1, <1>5, <3>3, <4>2 DEF MovingEvent
      <4>4. QED
        BY <1>3, <3>1, <4>3
    <3>4. QED
      BY <3>2, <3>3
  <2>8. QED
    BY <2>6, <2>7
<1>6. QED
  BY <1>4, <1>5

\* A journal that cannot be loaded was moved after its merge.
LEMMA KeptLoads ==
    ASSUME NEW j \in Journal, DeliveryKept(j)
    PROVE  Validates(j) \/ MovedAfterMerge(j)
<1>1. SUFFICES ASSUME ~Validates(j) PROVE MovedAfterMerge(j)
  OBVIOUS
<1>2. Delivering(j) /\ (j.delivery = None \/ j.subject # j.delivery)
  BY <1>1 DEF Validates, Delivering
<1>3. PICK i \in DOMAIN j.events : MergedAt(j.events, i, j.subject, j.delivery)
  BY <1>2 DEF DeliveryKept
<1>4. PICK k \in DOMAIN j.events : i < k /\ MovingEvent(j.events[k], j.delivery)
  BY <1>2, <1>3 DEF MergedAt, DeliveryKept
<1>5. \A m \in i..k : m \in DOMAIN j.events /\ m >= i
  <2>1. j.events \in Seq(Event)
    BY DEF Journal
  <2>2. DOMAIN j.events = 1..Len(j.events) /\ Len(j.events) \in Nat
    BY <2>1
  <2>3. QED
    BY <2>2
<1>6. QED
  BY <1>3, <1>4, <1>5 DEF MovedAfterMerge, MergedAt, MergeEvent, MovingEvent

-----------------------------------------------------------------------------
(* The state machine.                                                      *)

LEMMA NewJournalType ==
    ASSUME NEW profile \in Profile, NEW h \in PolicyHash
    PROVE  /\ NewJournal(profile, h) \in Journal
           /\ NewJournal(profile, h).events = <<>>
           /\ NewJournal(profile, h).preview = None
           /\ NewJournal(profile, h).accepted = None
<1>1. "RECONCILE" \in Phase /\ "RUNNING" \in Statuses
  BY DEF Phase, Statuses, ActiveStatuses
<1>2. <<>> \in Seq(Event) /\ [p \in Phase |-> 0] \in [Phase -> Nat]
  OBVIOUS
<1>3. QED
  BY <1>1, <1>2 DEF NewJournal, Journal, ShaOrNone, DigestOrNone

LEMMA ExistsType ==
    ASSUME TypeOK, NEW r \in Run, Exists(r)
    PROVE  journal[r] \in Journal /\ journal[r].revision \in Nat
<1>1. journal[r] \in Journal
  BY DEF TypeOK, Exists
<1>2. QED
  BY <1>1 DEF Journal

LEMMA RenumberType ==
    ASSUME NEW j \in Journal, NEW n \in Nat
    PROVE  /\ [j EXCEPT !.revision = n] \in Journal
           /\ [j EXCEPT !.revision = n].revision = n
           /\ [j EXCEPT !.revision = n].events = j.events
           /\ SameBinding(j, [j EXCEPT !.revision = n])
           /\ SameDelivery(j, [j EXCEPT !.revision = n])
  BY DEF Journal, SameBinding, SameDelivery

LEMMA HeldType ==
    ASSUME TypeOK, NEW p \in Process
    PROVE  /\ Holds(p, "start") => held[p] \in Starting
           /\ Holds(p, "report") => held[p] \in Reporting
           /\ Holds(p, "compiled") => held[p] \in Compiled
           /\ Holds(p, "save") => held[p] \in Saving
           /\ Called(p) => held[p] \in Reporting \cup Compiled
  BY DEF TypeOK, Holds, Held, Starting, Reporting, Compiled, Saving, Called

\* The steps that only fill or empty the hands of a process, by the value held.
LEMMA HeldKeepsType ==
    ASSUME TypeOK, NEW p \in Process,
           NEW v \in Starting \cup Reporting \cup Compiled \cup Saving \cup {Idle}
    PROVE  [held EXCEPT ![p] = v] \in [Process -> Held]
  BY DEF TypeOK, Held

\* What advance_run is called with, and the journal it loads.
LEMMA CalledType ==
    ASSUME TypeOK, NEW p \in Process, Called(p)
    PROVE  /\ held[p].run \in Run /\ held[p].key \in Key /\ held[p].res \in StepResult
           /\ Loaded(p) => /\ Exists(held[p].run) /\ journal[held[p].run] \in Journal
                           /\ journal[held[p].run].revision \in Nat
<1>1. held[p] \in Reporting \/ held[p] \in Compiled
  BY HeldType
<1>2. held[p].run \in Run /\ held[p].key \in Key /\ held[p].res \in StepResult
  BY <1>1 DEF Reporting, Compiled
<1>3. QED
  BY <1>2, ExistsType DEF Loaded

\* A computed journal on its way to save.
LEMMA ComputedType ==
    ASSUME TypeOK, NEW p \in Process, Called(p), Loaded(p), NEW n \in Journal, Computed(p, n)
    PROVE  held' \in [Process -> Held]
<1>1. [op |-> "save", run |-> held[p].run, base |-> journal[held[p].run].revision, next |-> n]
          \in Saving
  BY CalledType DEF Saving
<1>2. QED
  BY <1>1, HeldKeepsType DEF Computed

\* The trusted context of a report.
LEMMA CompiledType ==
    ASSUME TypeOK, NEW p \in Process, Holds(p, "report"), NEW f \in Facts
    PROVE  [op |-> "compiled", run |-> held[p].run, key |-> held[p].key, res |-> held[p].res,
            context |-> TrustedContext(held[p], f), policy |-> policyHash] \in Compiled
<1> DEFINE h == held[p]
<1> USE OrchestratorAssumption
<1>1. h \in Reporting
  BY HeldType
<1>2. h.key[1] \in Phase /\ h.seen.profile \in Profile
  BY <1>1 DEF Reporting, Key, Seen
<1>3. OwnerExact(h) \in BOOLEAN /\ f.fact \in [Fact -> BOOLEAN]
  <2>1. OwnerExact(h) \in BOOLEAN
    BY Zenon DEF OwnerExact
  <2>2. f.fact \in [Fact -> BOOLEAN]
    OBVIOUS
  <2>3. QED
    BY <2>1, <2>2
<1>4. TrustedFact(h, f) \in [Fact -> BOOLEAN]
  <2>1. \A n \in Fact : (IF n \in {"humanApproved", "ownerExact"} THEN OwnerExact(h)
                        ELSE IF n \in {"package", "config", "controlPlane", "product",
                                       "gatesPass", "evidenceFresh"} THEN f.fact[n]
                        ELSE n \in GoodFacts) \in BOOLEAN
    <3>1. \A n \in Fact : f.fact[n] \in BOOLEAN
      BY <1>3
    <3>2. \A n \in Fact : (n \in GoodFacts) \in BOOLEAN
      OBVIOUS
    <3>3. QED
      BY <1>3, <3>1, <3>2, Zenon
  <2>2. QED
    BY <2>1, Zenon DEF TrustedFact
<1>5. ActionByPhase[h.key[1]] \in Action
  BY <1>2 DEF ActionByPhase, Phase, Action, Unattended, Assisted, Delegated, Autonomous, OwnerOnly
<1>6. OperationalWorkType(h.key[1], h.seen.profile) \in STRING \cup ExemptWorkTypes
  BY <1>2 DEF OperationalWorkType, Profile, ExemptWorkTypes
<1>7. TrustedContext(h, f) \in AskedContext
  BY <1>2, <1>4, <1>5, <1>6 DEF TrustedContext, AskedContext, Profile, Rank
<1>8. QED
  BY <1>1, <1>7 DEF Reporting, Compiled, TypeOK

LEMMA TypeStep == TypeOK /\ [Next]_vars => TypeOK'
<1> SUFFICES ASSUME TypeOK, [Next]_vars PROVE TypeOK'
  OBVIOUS
<1> USE OrchestratorAssumption
<1>1. ASSUME NEW p \in Process, NEW e \in Entries, NEW f \in Profiles,
             StartDiscover(p, e, f)
      PROVE  TypeOK'
  <2>1. [op |-> "start", entry |-> e, profile |-> f] \in Starting
    BY DEF Starting
  <2>2. lockOf' \in [Lock -> Process \cup {None}]
    BY <1>1 DEF StartDiscover, TypeOK
  <2>3. QED
    BY <1>1, <2>1, <2>2, HeldKeepsType DEF StartDiscover, TypeOK
<1>2. ASSUME NEW p \in Process, NEW r \in Run, StartSave(p, r) PROVE TypeOK'
  <2> DEFINE new == NewJournal(held[p].profile, policyHash)
  <2>1. held[p] \in Starting
    BY <1>2, HeldType DEF StartSave
  <2>2. new \in Journal
    BY <2>1, NewJournalType DEF Starting, TypeOK
  <2>3. Exists(r) => [new EXCEPT !.revision = journal[r].revision + 1] \in Journal
    BY <2>2, ExistsType, RenumberType
  <2>4. journal' \in [Run -> Journal \cup {NoRun}]
    BY <1>2, <2>2, <2>3 DEF StartSave, TypeOK
  <2>5. lockOf' \in [Lock -> Process \cup {None}]
    BY <1>2 DEF StartSave, TypeOK
  <2>6. QED
    BY <1>2, <2>4, <2>5, HeldKeepsType DEF StartSave, TypeOK
<1>3. ASSUME NEW p \in Process, NEW r \in Run, NEW res \in Offered, Observe(p, r, res)
      PROVE  TypeOK'
  <2>1. journal[r] \in Journal
    BY <1>3 DEF Observe, Exists, TypeOK
  <2>2. Report(journal[r], r, res) \in Reporting
    BY <2>1 DEF Report, Reporting, Seen, Key, Journal
  <2>3. QED
    BY <1>3, <2>2, HeldKeepsType DEF Observe, TypeOK
<1>4. ASSUME NEW p \in Process, NEW r \in Run, OwnerAccept(p, r) PROVE TypeOK'
  <2> DEFINE j   == journal[r]
             res == [phase |-> "OWNER_ACCEPTANCE", outcome |-> "PASS", sha |-> j.subject,
                     digest |-> j.preview, mergeSha |-> None, evidence |-> FALSE,
                     transient |-> FALSE, exact |-> TRUE, acceptedDigest |-> j.preview,
                     refs |-> {}]
  <2>1. j \in Journal
    BY <1>4 DEF OwnerAccept, ListActive, Exists, TypeOK
  <2>2. res \in StepResult
    BY <2>1 DEF StepResult, Journal, Phase, Outcomes, ShaOrNone
  <2>3. Report(j, r, res) \in Reporting
    BY <2>1, <2>2 DEF Report, Reporting, Seen, Key, Journal
  <2>4. decisions' \in [Sha -> DigestOrNone]
    BY <1>4, <2>1 DEF OwnerAccept, TypeOK, Journal
  <2>5. QED
    BY <1>4, <2>3, <2>4, HeldKeepsType DEF OwnerAccept, TypeOK
<1>5. ASSUME NEW p \in Process, NEW f \in Facts, Compile(p, f) PROVE TypeOK'
  BY <1>5, CompiledType, HeldKeepsType DEF Compile, TypeOK
<1>6. ASSUME NEW p \in Process, CompileRefused(p) \/ AdvanceRefused(p) PROVE TypeOK'
  BY <1>6, HeldKeepsType DEF CompileRefused, AdvanceRefused, TypeOK
<1>13. ASSUME NEW p \in Process, BlockExpired(p) PROVE TypeOK'
  <2>1. [journal[held[p].run] EXCEPT !.status = "BLOCKED"] \in Journal
    BY <1>13, CalledType DEF BlockExpired, Journal, Statuses, FinalStatuses
  <2>2. QED
    BY <1>13, <2>1, ComputedType DEF BlockExpired, TypeOK
<1>14. ASSUME NEW p \in Process, Called(p), Accepted(p), NEW d \in Decisions,
              Computed(p, AdvanceRun(journal[held[p].run], held[p].key, held[p].res, d)),
              UNCHANGED <<journal, lockOf, expired, policyHash, decisions, crashes>>
       PROVE  TypeOK'
  <2>1. AdvanceRun(journal[held[p].run], held[p].key, held[p].res, d) \in Journal
    BY <1>14, CalledType, AdvanceType DEF Accepted
  <2>2. QED
    BY <1>14, <2>1, ComputedType DEF Accepted, TypeOK
<1>15. ASSUME NEW p \in Process, Advance(p) PROVE TypeOK'
  BY <1>14, <1>15, EvaluateType DEF Advance, TrustedDecision, Called
<1>16. ASSUME NEW p \in Process, NEW f \in Facts, AdvanceLegacy(p, f) PROVE TypeOK'
  BY <1>14, <1>16, EvaluateType DEF AdvanceLegacy, Called
<1>7. ASSUME NEW p \in Process, Save(p) PROVE TypeOK'
  <2> DEFINE h == held[p]
  <2>1. h \in Saving
    BY <1>7, HeldType DEF Save
  <2>2. SaveMatches(h) =>
            [h.next EXCEPT !.revision = journal[h.run].revision + 1] \in Journal
    <3>1. h.run \in Run /\ h.next \in Journal
      BY <2>1 DEF Saving
    <3>2. SaveMatches(h) => journal[h.run].revision + 1 \in Nat
      BY <3>1, ExistsType DEF SaveMatches
    <3>3. QED
      BY <3>1, <3>2, RenumberType
  <2>3. journal' \in [Run -> Journal \cup {NoRun}]
    BY <1>7, <2>1, <2>2 DEF Save, TypeOK, Saving
  <2>4. QED
    BY <1>7, <2>3, HeldKeepsType DEF Save, TypeOK
<1>8. ASSUME NEW p \in Process, Crash(p) PROVE TypeOK'
  <2>1. lockOf' \in [Lock -> Process \cup {None}]
    BY <1>8 DEF Crash, TypeOK
  <2>2. QED
    BY <1>8, <2>1, HeldKeepsType DEF Crash, TypeOK
<1>9. ASSUME NEW r \in Run, Expire(r) PROVE TypeOK'
  BY <1>9 DEF Expire, TypeOK
<1>10. ASSUME NEW h \in PolicyHash, ChangePolicy(h) PROVE TypeOK'
  BY <1>10 DEF ChangePolicy, TypeOK
<1>11. CASE UNCHANGED vars
  BY <1>11 DEF TypeOK, vars
<1>12. QED
  BY <1>1, <1>2, <1>3, <1>4, <1>5, <1>6, <1>7, <1>8, <1>9, <1>10, <1>11, <1>13, <1>15, <1>16
     DEF Next

\* Type correctness of the orchestrator for every value of its constants
\* (the journal schema, the copies and the locks).
THEOREM TypeCorrect == Spec => []TypeOK
<1>1. Init => TypeOK
  BY DEF Init, TypeOK, Held, DigestOrNone
<1>2. QED
  BY <1>1, TypeStep, PTL DEF Spec

-----------------------------------------------------------------------------
(* The inductive invariant: saved journals and copies are sound, and a     *)
(* copy whose base revision is still current continues the saved history.  *)

Sound(j) == Bound(j) /\ UniqueKeys(j) /\ DeliveryKept(j)

Continues(n, j) ==
    /\ Len(n.events) \in {Len(j.events), Len(j.events) + 1}
    /\ \A i \in DOMAIN j.events : n.events[i] = j.events[i]

CopySound(h) ==
    /\ Exists(h.run)
    /\ h.base <= journal[h.run].revision
    /\ Sound(h.next)
    /\ h.base = journal[h.run].revision => Continues(h.next, journal[h.run])

JournalsSound == \A r \in Run : Exists(r) => Sound(journal[r])
CopiesSound   == \A p \in Process : Holds(p, "save") => CopySound(held[p])
IndInv        == TypeOK /\ JournalsSound /\ CopiesSound

\* Events and binding are all that soundness reads.
LEMMA SoundStays ==
    ASSUME NEW j \in Journal, NEW k \in Journal, Sound(j),
           k.events = j.events, SameBinding(j, k), SameDelivery(j, k)
    PROVE  Sound(k)
<1>1. HasEvent(j, "PREVIEW", j.subject) => HasEvent(k, "PREVIEW", j.subject)
  BY DEF HasEvent
<1>2. DeliveryKept(k)
  BY DEF Sound, DeliveryKept, Delivering, SameDelivery
<1>3. QED
  BY <1>1, <1>2 DEF Sound, Bound, SubjectKnown, AcceptsSubject, PreviewsSubject,
                    SameBinding, UniqueKeys

LEMMA NewJournalSound ==
    ASSUME NEW profile \in Profile, NEW h \in PolicyHash
    PROVE  Sound(NewJournal(profile, h))
<1>1. DeliveryKept(NewJournal(profile, h))
  BY DEF NewJournal, DeliveryKept, Delivering, DeliveryStatePhases
<1>2. QED
  BY <1>1, NewJournalType
     DEF Sound, Bound, SubjectKnown, AcceptsSubject, PreviewsSubject, UniqueKeys

\* Both outcomes of advance_run continue the journal it loaded.
LEMMA AdvanceContinues ==
    ASSUME NEW j \in Journal, NEW key \in Key, NEW res \in StepResult,
           NEW decision \in Decisions
    PROVE  /\ Continues(AdvanceRun(j, key, res, decision), j)
           /\ Continues([j EXCEPT !.status = "BLOCKED"], j)
<1>1. j.events \in Seq(Event) /\ [j EXCEPT !.status = "BLOCKED"].events = j.events
  BY DEF Journal
<1>2. AdvanceRun(j, key, res, decision).events
          = Append(j.events, Event0(j, key, res, decision))
  BY AdvanceType
<1>3. QED
  BY <1>1, <1>2, AppendedType DEF Continues

\* A step that leaves the journals alone and takes no new copy.
LEMMA QuietStep ==
    ASSUME IndInv, TypeOK', UNCHANGED journal,
           \A p \in Process : Holds(p, "save")' => held'[p] = held[p]
    PROVE  IndInv'
<1>1. \A p \in Process : Holds(p, "save")' => Holds(p, "save")
  BY DEF Holds, IndInv, TypeOK
<1>2. JournalsSound'
  BY DEF IndInv, JournalsSound, Exists
<1>3. CopiesSound'
  BY <1>1 DEF IndInv, CopiesSound, CopySound, Exists
<1>4. QED
  BY <1>2, <1>3 DEF IndInv

LEMMA InvStep == IndInv /\ [Next]_vars => IndInv'
<1> SUFFICES ASSUME IndInv, [Next]_vars PROVE IndInv'
  OBVIOUS
<1> USE OrchestratorAssumption
<1>0. TypeOK /\ TypeOK'
  BY TypeStep DEF IndInv
<1>1. ASSUME NEW p \in Process, NEW e \in Entries, NEW f \in Profiles,
             StartDiscover(p, e, f)
      PROVE  IndInv'
  BY <1>0, <1>1, QuietStep DEF StartDiscover, Holds, TypeOK
<1>2. ASSUME NEW p \in Process, NEW r \in Run, StartSave(p, r) PROVE IndInv'
  <2> DEFINE new == NewJournal(held[p].profile, policyHash)
  <2>1. new \in Journal /\ Sound(new)
    BY <1>0, <1>2, HeldType, NewJournalType, NewJournalSound DEF StartSave, Starting, TypeOK
  <2>2. /\ journal'[r] \in Journal /\ Sound(journal'[r])
        /\ Exists(r) => journal'[r].revision = journal[r].revision + 1
        /\ \A q \in Run : q # r => journal'[q] = journal[q]
    <3>1. CASE Exists(r)
      <4> DEFINE renewed == [new EXCEPT !.revision = journal[r].revision + 1]
      <4>1. journal[r].revision + 1 \in Nat
        BY <1>0, <3>1, ExistsType
      <4>2. /\ renewed \in Journal /\ renewed.revision = journal[r].revision + 1
            /\ renewed.events = new.events
            /\ SameBinding(new, renewed) /\ SameDelivery(new, renewed)
        BY <2>1, <4>1, RenumberType
      <4>3. Sound(renewed)
        BY <2>1, <4>2, SoundStays
      <4>4. /\ journal'[r] = renewed
            /\ \A q \in Run : q # r => journal'[q] = journal[q]
        BY <1>0, <1>2, <3>1 DEF StartSave, TypeOK
      <4>5. QED
        BY <4>2, <4>3, <4>4
    <3>2. CASE ~Exists(r)
      BY <1>0, <1>2, <2>1, <3>2 DEF StartSave, TypeOK
    <3>3. QED
      BY <3>1, <3>2
  <2>3. JournalsSound'
    BY <2>2 DEF IndInv, JournalsSound, Exists
  <2>4. CopiesSound'
    <3>1. SUFFICES ASSUME NEW q \in Process, Holds(q, "save")' PROVE CopySound(held[q])'
      BY DEF CopiesSound
    <3>2. held'[q] = held[q] /\ Holds(q, "save") /\ CopySound(held[q])
      BY <1>0, <1>2, <3>1 DEF StartSave, Holds, TypeOK, IndInv, CopiesSound
    <3>3. held[q].run \in Run /\ held[q].base \in Nat
      BY <1>0, <3>2, HeldType DEF Saving
    <3>4. CASE held[q].run = r
      <4>1. Exists(r) /\ Exists(r)' /\ journal[r].revision \in Nat
        BY <1>0, <2>2, <3>2, <3>4, ExistsType DEF CopySound, Exists
      <4>2. held[q].base < journal'[r].revision
        BY <2>2, <3>2, <3>3, <3>4, <4>1 DEF CopySound
      <4>3. QED
        BY <2>2, <3>2, <3>3, <3>4, <4>1, <4>2 DEF CopySound
    <3>5. CASE held[q].run # r
      BY <2>2, <3>2, <3>3, <3>5 DEF CopySound, Exists
    <3>6. QED
      BY <3>4, <3>5
  <2>5. QED
    BY <1>0, <2>3, <2>4 DEF IndInv
<1>3. ASSUME NEW p \in Process, NEW r \in Run, NEW res \in Offered, Observe(p, r, res)
      PROVE  IndInv'
  BY <1>0, <1>3, QuietStep DEF Observe, Report, Holds, TypeOK
<1>4. ASSUME NEW p \in Process, NEW r \in Run, OwnerAccept(p, r) PROVE IndInv'
  BY <1>0, <1>4, QuietStep DEF OwnerAccept, Report, Holds, TypeOK
<1>5. ASSUME NEW p \in Process, NEW f \in Facts, Compile(p, f) PROVE IndInv'
  BY <1>0, <1>5, QuietStep DEF Compile, Holds, TypeOK
<1>6. ASSUME NEW p \in Process, CompileRefused(p) \/ AdvanceRefused(p) PROVE IndInv'
  BY <1>0, <1>6, QuietStep DEF CompileRefused, AdvanceRefused, Holds, TypeOK
\* A copy is taken of a loaded journal: it is sound and continues that journal.
<1>13. ASSUME NEW p \in Process, Called(p), Loaded(p), UNCHANGED journal, NEW n \in Journal,
              Computed(p, n), Sound(n), Continues(n, journal[held[p].run])
       PROVE  IndInv'
  <2> DEFINE h == held[p]
             j == journal[h.run]
             copy == [op |-> "save", run |-> h.run, base |-> j.revision, next |-> n]
  <2>1. h.run \in Run /\ Exists(h.run) /\ j.revision \in Nat
    BY <1>0, <1>13, CalledType
  <2>2. JournalsSound'
    BY <1>13 DEF IndInv, JournalsSound, Exists
  <2>3. CopiesSound'
    <3>1. SUFFICES ASSUME NEW q \in Process, Holds(q, "save")' PROVE CopySound(held[q])'
      BY DEF CopiesSound
    <3>2. CASE q = p
      <4>1. held'[q] = copy
        BY <1>0, <1>13, <3>2 DEF Computed, TypeOK
      <4>2. QED
        BY <1>13, <2>1, <4>1 DEF CopySound, Exists
    <3>3. CASE q # p
      BY <1>0, <1>13, <3>1, <3>3
         DEF Computed, TypeOK, Holds, IndInv, CopiesSound, CopySound, Exists
    <3>4. QED
      BY <3>2, <3>3
  <2>4. QED
    BY <1>0, <2>2, <2>3 DEF IndInv
<1>14. ASSUME NEW p \in Process, BlockExpired(p) PROVE IndInv'
  <2> DEFINE j == journal[held[p].run]
             n == [j EXCEPT !.status = "BLOCKED"]
  <2>1. held[p].run \in Run /\ Exists(held[p].run) /\ j \in Journal
    BY <1>0, <1>14, CalledType DEF BlockExpired
  <2>2. Sound(j)
    BY <2>1 DEF IndInv, JournalsSound
  <2>3. /\ n \in Journal /\ n.events = j.events
        /\ SameBinding(j, n) /\ SameDelivery(j, n)
    BY <2>1 DEF Journal, SameBinding, SameDelivery, Statuses, FinalStatuses
  <2>4. Sound(n)
    BY <2>1, <2>2, <2>3, SoundStays
  <2>5. Continues(n, j)
    BY <2>1, <2>3 DEF Continues, Journal
  <2>6. QED
    BY <1>13, <1>14, <2>3, <2>4, <2>5 DEF BlockExpired
<1>15. ASSUME NEW p \in Process, Called(p), Accepted(p), NEW d \in Decisions, UNCHANGED journal,
              Computed(p, AdvanceRun(journal[held[p].run], held[p].key, held[p].res, d))
       PROVE  IndInv'
  <2> DEFINE h == held[p]
             j == journal[h.run]
             n == AdvanceRun(j, h.key, h.res, d)
  <2>1. /\ h.run \in Run /\ h.key \in Key /\ h.res \in StepResult
        /\ Exists(h.run) /\ j \in Journal
    BY <1>0, <1>15, CalledType DEF Accepted
  <2>2. Sound(j) /\ ~Applied(j, h.key) /\ Normalizes(j, h.res) /\ Validates(j)
    BY <1>15, <2>1 DEF Accepted, Loaded, IndInv, JournalsSound
  <2>3. n \in Journal /\ Continues(n, j)
    BY <2>1, AdvanceType, AdvanceContinues
  <2>4. Bound(n)
    BY <2>1, <2>2, AdvanceBound DEF Sound
  <2>5. UniqueKeys(n)
    BY <2>1, <2>2, KeysStayUnique DEF Sound
  <2>6. DeliveryKept(n)
    BY <2>1, <2>2, AdvanceDelivery DEF Sound
  <2>7. Sound(n)
    BY <2>4, <2>5, <2>6 DEF Sound
  <2> HIDE DEF n
  <2>8. Computed(p, n) /\ Loaded(p)
    BY <1>15 DEF n, Accepted
  <2>9. QED
    BY <1>13, <1>15, <2>3, <2>7, <2>8
<1>16. ASSUME NEW p \in Process, Advance(p) PROVE IndInv'
  BY <1>15, <1>16, EvaluateType DEF Advance, TrustedDecision, Called
<1>17. ASSUME NEW p \in Process, NEW f \in Facts, AdvanceLegacy(p, f) PROVE IndInv'
  BY <1>15, <1>17, EvaluateType DEF AdvanceLegacy, Called
<1>7. ASSUME NEW p \in Process, Save(p) PROVE IndInv'
  <2> DEFINE h == held[p]
  <2>1. h \in Saving /\ h.run \in Run /\ h.next \in Journal /\ CopySound(h)
    BY <1>0, <1>7, HeldType DEF Save, Saving, IndInv, CopiesSound
  <2>2. CASE ~SaveMatches(h)
    BY <1>0, <1>7, <2>2, QuietStep DEF Save, Holds, TypeOK
  <2>3. CASE SaveMatches(h)
    <3> DEFINE new == [h.next EXCEPT !.revision = journal[h.run].revision + 1]
    <3>1. /\ Exists(h.run) /\ journal[h.run].revision \in Nat
          /\ new \in Journal /\ new.revision = journal[h.run].revision + 1 /\ Sound(new)
      <4>1. Exists(h.run) /\ journal[h.run].revision + 1 \in Nat
        BY <1>0, <2>1, <2>3, ExistsType DEF SaveMatches
      <4>2. /\ new \in Journal /\ new.revision = journal[h.run].revision + 1
            /\ new.events = h.next.events
            /\ SameBinding(h.next, new) /\ SameDelivery(h.next, new)
        BY <2>1, <4>1, RenumberType
      <4>3. Sound(new)
        BY <2>1, <4>2, SoundStays DEF CopySound
      <4>4. QED
        BY <1>0, <2>1, <4>1, <4>2, <4>3, ExistsType
    <3>2. journal'[h.run] = new /\ \A q \in Run : q # h.run => journal'[q] = journal[q]
      BY <1>0, <1>7, <2>1, <2>3 DEF Save, TypeOK
    <3>3. JournalsSound'
      BY <3>1, <3>2 DEF IndInv, JournalsSound, Exists
    <3>4. CopiesSound'
      <4>1. SUFFICES ASSUME NEW q \in Process, Holds(q, "save")' PROVE CopySound(held[q])'
        BY DEF CopiesSound
      <4>2. held'[q] = held[q] /\ Holds(q, "save") /\ CopySound(held[q])
        BY <1>0, <1>7, <4>1 DEF Save, Holds, TypeOK, IndInv, CopiesSound
      <4>3. held[q].run \in Run /\ held[q].base \in Nat
        BY <1>0, <4>2, HeldType DEF Saving
      <4>4. CASE held[q].run = h.run
        <5>1. held[q].base <= journal[h.run].revision /\ Sound(held[q].next)
          BY <4>2, <4>4 DEF CopySound
        <5>2. /\ journal'[held[q].run] \in Journal
              /\ journal'[held[q].run].revision = journal[h.run].revision + 1
          <6> HIDE DEF new
          <6>1. QED
            BY <3>1, <3>2, <4>4
        <5>3. journal'[held[q].run] # NoRun
          BY <5>2
        <5>4. journal[h.run].revision \in Nat
          BY <3>1
        <5>5. /\ held[q].base <= journal'[held[q].run].revision
              /\ held[q].base # journal'[held[q].run].revision
          BY <4>3, <5>1, <5>2, <5>4
        <5>6. QED
          BY <4>2, <5>1, <5>3, <5>5 DEF CopySound, Exists
      <4>5. CASE held[q].run # h.run
        BY <3>2, <4>2, <4>3, <4>5 DEF CopySound, Exists
      <4>6. QED
        BY <4>4, <4>5
    <3>5. QED
      BY <1>0, <3>3, <3>4 DEF IndInv
  <2>4. QED
    BY <2>2, <2>3
<1>8. ASSUME NEW p \in Process, Crash(p) PROVE IndInv'
  BY <1>0, <1>8, QuietStep DEF Crash, Holds, TypeOK
<1>9. ASSUME NEW r \in Run, Expire(r) PROVE IndInv'
  BY <1>0, <1>9, QuietStep DEF Expire
<1>10. ASSUME NEW h \in PolicyHash, ChangePolicy(h) PROVE IndInv'
  BY <1>0, <1>10, QuietStep DEF ChangePolicy
<1>11. CASE UNCHANGED vars
  BY <1>0, <1>11, QuietStep DEF vars
<1>12. QED
  BY <1>1, <1>2, <1>3, <1>4, <1>5, <1>6, <1>7, <1>8, <1>9, <1>10, <1>11, <1>14, <1>16,
     <1>17 DEF Next

LEMMA InvHolds == Spec => []IndInv
<1>1. Init => IndInv
  <2>1. Init => TypeOK
    BY DEF Init, TypeOK, Held, DigestOrNone
  <2>2. Init => JournalsSound /\ CopiesSound
    BY DEF Init, JournalsSound, CopiesSound, Exists, Holds
  <2>3. QED
    BY <2>1, <2>2 DEF IndInv
<1>2. QED
  BY <1>1, InvStep, PTL DEF Spec

\* advance_run clears or keeps an owner acceptance so that it never stands for
\* another commit, for any runs, processes, crashes and interleavings.
THEOREM AcceptanceAlwaysBound == Spec => []AcceptanceBound
<1>1. IndInv => AcceptanceBound
  BY DEF IndInv, JournalsSound, Sound, Bound, AcceptanceBound
<1>2. QED
  BY <1>1, InvHolds, PTL

\* A preview digest in a journal always belongs to the commit under work
\* (advance_run), for any runs, processes, crashes and interleavings.
THEOREM PreviewAlwaysBound == Spec => []PreviewBound
<1>1. IndInv => PreviewBound
  BY DEF IndInv, JournalsSound, Sound, Bound, PreviewBound
<1>2. QED
  BY <1>1, InvHolds, PTL

\* advance_run and the compare-and-set of save apply a step result at most
\* once, however often and by however many processes it is delivered.
THEOREM AtMostOnce == Spec => []AppliedAtMostOnce
<1>1. IndInv => AppliedAtMostOnce
  BY DEF IndInv, JournalsSound, Sound, AppliedAtMostOnce
<1>2. QED
  BY <1>1, InvHolds, PTL

\* A journal that was saved can be loaded again after a restart, or a result after the
\* merge has named another commit: for any results, facts, runs and interleavings.
THEOREM JournalsLoad == Spec => []SavedJournalsLoad
<1>1. IndInv => SavedJournalsLoad
  <2>1. SUFFICES ASSUME IndInv, NEW r \in Run, Exists(r)
                 PROVE  Validates(journal[r]) \/ MovedAfterMerge(journal[r])
    BY DEF SavedJournalsLoad
  <2>2. journal[r] \in Journal /\ DeliveryKept(journal[r])
    BY <2>1, ExistsType DEF IndInv, JournalsSound, Sound
  <2>3. QED
    BY <2>2, KeptLoads
<1>2. QED
  BY <1>1, InvHolds, PTL

\* Without CLI starts that name an existing run, no save loses or rewrites an
\* event that an earlier save recorded (OrchestrationJournal.save).
THEOREM HistoryNeverRewritten == ASSUME "cli" \notin Entries PROVE Spec => HistoryAppendOnly
<1> DEFINE Kept == \A r \in Run : Exists(r) =>
                       journal'[r] = journal[r] \/ Extends(journal'[r], journal[r])
<1>1. IndInv /\ [Next]_vars => [Kept]_vars
  <2> SUFFICES ASSUME IndInv, Next PROVE Kept
    BY DEF vars
  <2>0. TypeOK
    BY DEF IndInv
  <2>1. CASE UNCHANGED journal
    BY <2>1
  <2>2. ASSUME NEW p \in Process, NEW r \in Run, StartSave(p, r) PROVE Kept
    <3>1. held[p] \in Starting /\ ~Exists(r)
      BY <2>0, <2>2, HeldType DEF StartSave, Starting
    <3>2. \A q \in Run : q # r => journal'[q] = journal[q]
      BY <2>0, <2>2 DEF StartSave, TypeOK
    <3>3. QED
      BY <3>1, <3>2
  <2>3. ASSUME NEW p \in Process, Save(p) PROVE Kept
    <3> DEFINE h == held[p]
    <3>1. h \in Saving /\ h.run \in Run /\ h.next \in Journal /\ CopySound(h)
      BY <2>0, <2>3, HeldType DEF Save, Saving, IndInv, CopiesSound
    <3>2. CASE ~SaveMatches(h)
      BY <2>3, <3>2 DEF Save
    <3>3. CASE SaveMatches(h)
      <4> DEFINE new == [h.next EXCEPT !.revision = journal[h.run].revision + 1]
      <4>1. /\ journal[h.run].revision + 1 \in Nat
            /\ Continues(h.next, journal[h.run])
        BY <2>0, <3>1, <3>3, ExistsType DEF SaveMatches, CopySound
      <4>2. new.revision = journal[h.run].revision + 1 /\ new.events = h.next.events
        BY <3>1, <4>1, RenumberType
      <4>3. Extends(new, journal[h.run])
        BY <4>1, <4>2 DEF Continues, Extends
      <4>4. journal'[h.run] = new /\ \A q \in Run : q # h.run => journal'[q] = journal[q]
        BY <2>0, <2>3, <3>1, <3>3 DEF Save, TypeOK
      <4>5. QED
        BY <4>3, <4>4
    <3>4. QED
      BY <3>2, <3>3
  <2>4. QED
    BY <2>1, <2>2, <2>3 DEF Next, StartDiscover, Observe, OwnerAccept, Compile,
       CompileRefused, BlockExpired, Advance, AdvanceLegacy, AdvanceRefused, Crash, Expire,
       ChangePolicy
<1>2. QED
  BY <1>1, InvHolds, PTL DEF Spec, HistoryAppendOnly

-----------------------------------------------------------------------------
(* The owner's decision behind every merge.                                *)

\* Where a copy comes from, and the events of a saved journal.
LEMMA CopyOrigin ==
    ASSUME TypeOK, [Next]_vars, NEW p \in Process, Holds(p, "save")'
    PROVE  \/ Holds(p, "save") /\ held'[p] = held[p]
           \/ BlockExpired(p) \/ Advance(p) \/ \E f \in Facts : AdvanceLegacy(p, f)
<1>1. ASSUME NEW q \in Process, NEW e \in Entries, NEW f \in Profiles,
             StartDiscover(q, e, f)
      PROVE  Holds(p, "save") /\ held'[p] = held[p]
  BY <1>1 DEF StartDiscover, Holds, TypeOK
<1>2. ASSUME NEW q \in Process, NEW r \in Run, StartSave(q, r)
      PROVE  Holds(p, "save") /\ held'[p] = held[p]
  BY <1>2 DEF StartSave, Holds, TypeOK
<1>3. ASSUME NEW q \in Process, NEW r \in Run, NEW res \in Offered, Observe(q, r, res)
      PROVE  Holds(p, "save") /\ held'[p] = held[p]
  BY <1>3 DEF Observe, Report, Holds, TypeOK
<1>4. ASSUME NEW q \in Process, NEW r \in Run, OwnerAccept(q, r)
      PROVE  Holds(p, "save") /\ held'[p] = held[p]
  BY <1>4 DEF OwnerAccept, Report, Holds, TypeOK
<1>5. ASSUME NEW q \in Process, p # q, NEW n, Computed(q, n)
      PROVE  Holds(p, "save") /\ held'[p] = held[p]
  BY <1>5 DEF Computed, Holds, TypeOK
<1>6. ASSUME NEW q \in Process, NEW f \in Facts, Compile(q, f)
      PROVE  Holds(p, "save") /\ held'[p] = held[p]
  BY <1>6 DEF Compile, Holds, TypeOK
<1>10. ASSUME NEW q \in Process, CompileRefused(q) \/ AdvanceRefused(q)
       PROVE  Holds(p, "save") /\ held'[p] = held[p]
  BY <1>10 DEF CompileRefused, AdvanceRefused, Holds, TypeOK
<1>11. ASSUME NEW q \in Process, BlockExpired(q) \/ Advance(q), p # q
       PROVE  Holds(p, "save") /\ held'[p] = held[p]
  BY <1>5, <1>11 DEF BlockExpired, Advance
<1>12. ASSUME NEW q \in Process, NEW f \in Facts, AdvanceLegacy(q, f), p # q
       PROVE  Holds(p, "save") /\ held'[p] = held[p]
  BY <1>5, <1>12 DEF AdvanceLegacy
<1>7. ASSUME NEW q \in Process, Save(q) \/ Crash(q)
      PROVE  Holds(p, "save") /\ held'[p] = held[p]
  BY <1>7 DEF Save, Crash, Holds, TypeOK
<1>8. CASE UNCHANGED held
  BY <1>8 DEF Holds
<1>9. QED
  BY <1>1, <1>2, <1>3, <1>4, <1>6, <1>7, <1>8, <1>10, <1>11, <1>12
     DEF Next, Expire, ChangePolicy, vars

LEMMA JournalOrigin ==
    ASSUME TypeOK, [Next]_vars, NEW r \in Run, Exists(r)'
    PROVE  \/ Exists(r) /\ journal'[r] = journal[r]
           \/ \E p \in Process : /\ Holds(p, "save") /\ held[p].run = r
                                 /\ SaveMatches(held[p])
                                 /\ journal'[r].events = held[p].next.events
           \/ journal'[r].events = <<>>
<1>1. ASSUME NEW p \in Process, NEW q \in Run, StartSave(p, q)
      PROVE  (Exists(r) /\ journal'[r] = journal[r]) \/ journal'[r].events = <<>>
  <2> DEFINE new == NewJournal(held[p].profile, policyHash)
  <2>1. held[p].profile \in Profile /\ policyHash \in PolicyHash
    BY <1>1, HeldType, OrchestratorAssumption DEF StartSave, Starting, TypeOK
  <2>2. new \in Journal /\ new.events = <<>>
    BY <2>1, NewJournalType
  <2>3. Exists(q) => [new EXCEPT !.revision = journal[q].revision + 1].events = <<>>
    BY <2>2, ExistsType, RenumberType
  <2> HIDE DEF new
  <2>4. CASE r = q
    BY <1>1, <2>2, <2>3, <2>4 DEF StartSave, TypeOK, new
  <2>5. CASE r # q
    BY <1>1, <2>5 DEF StartSave, TypeOK, Exists
  <2>6. QED
    BY <2>4, <2>5
<1>2. ASSUME NEW p \in Process, Save(p)
      PROVE  \/ Exists(r) /\ journal'[r] = journal[r]
             \/ /\ Holds(p, "save") /\ held[p].run = r
                /\ SaveMatches(held[p])
                /\ journal'[r].events = held[p].next.events
  <2> DEFINE h == held[p]
             new == [h.next EXCEPT !.revision = journal[h.run].revision + 1]
  <2>1. h \in Saving /\ h.run \in Run /\ h.next \in Journal /\ Holds(p, "save")
    BY <1>2, HeldType DEF Save, Saving
  <2>2. CASE SaveMatches(h) /\ h.run = r
    <3>1. new.events = h.next.events
      BY <2>1, <2>2, ExistsType, RenumberType DEF SaveMatches
    <3>2. journal'[r] = new
      BY <1>2, <2>1, <2>2 DEF Save, TypeOK
    <3>3. QED
      BY <2>1, <2>2, <3>1, <3>2
  <2>3. CASE ~(SaveMatches(h) /\ h.run = r)
    BY <1>2, <2>1, <2>3 DEF Save, TypeOK, Exists
  <2>4. QED
    BY <2>2, <2>3
<1>3. CASE UNCHANGED journal
  BY <1>3 DEF Exists
<1>4. QED
  BY <1>1, <1>2, <1>3 DEF Next, StartDiscover, Observe, OwnerAccept, Compile,
       CompileRefused, BlockExpired, Advance, AdvanceLegacy, AdvanceRefused, Crash, Expire,
       ChangePolicy, vars

\* An owner decision, once recorded, is only replaced by another.
LEMMA DecisionsStay ==
    ASSUME TypeOK, [Next]_vars, NEW s \in Sha, decisions[s] # None
    PROVE  decisions'[s] # None
<1>1. ASSUME NEW p \in Process, NEW r \in Run, OwnerAccept(p, r) PROVE decisions'[s] # None
  BY <1>1 DEF OwnerAccept, TypeOK
<1>2. CASE UNCHANGED decisions
  BY <1>2
<1>3. QED
  BY <1>1, <1>2 DEF Next, StartDiscover, StartSave, Observe, Compile, CompileRefused,
       BlockExpired, Advance, AdvanceLegacy, AdvanceRefused, Save, Crash, Expire, ChangePolicy,
       vars

\* Below the autonomy that may merge, a merge is allowed only on a human approval.
LEMMA MergeNeedsHuman ==
    ASSUME NEW c, c.action = "merge", c.autonomy < MinAutonomy("merge"),
           EvaluatePermission(c) = "ALLOW"
    PROVE  c.fact["humanApproved"]
<1>1. "AUTONOMY_TOO_LOW" \in HumanReasons(c)
  BY DEF HumanReasons, If
<1>2. QED
  BY <1>1 DEF EvaluatePermission

\* Every commit an event log says was merged has a decision.
Owned(events, made) == \A i \in DOMAIN events :
                           MergeEvent(events[i]) /\ events[i].sha \in Sha
                               => made[events[i].sha] # None

\* A result of MERGE names its commit, and a context compiled for it says that a human
\* approved only when the owner decided on that commit.
ReportOwned(h) == h.res.phase = "MERGE" => h.res.sha # None

ContextOwned(h, made) ==
    /\ ReportOwned(h)
    /\ h.context.autonomy < MinAutonomy("merge")
    /\ h.context.fact["humanApproved"] /\ h.res.sha \in Sha => made[h.res.sha] # None

MergesOwned ==
    /\ \A r \in Run : Exists(r) => Owned(journal[r].events, decisions)
    /\ \A p \in Process :
           /\ Holds(p, "report") => ReportOwned(held[p])
           /\ Holds(p, "compiled") => ContextOwned(held[p], decisions)
           /\ Holds(p, "save") => Owned(held[p].next.events, decisions)

\* compile_trusted_context of an owned report.
LEMMA CompileOwned ==
    ASSUME TypeOK, NEW p \in Process, Holds(p, "report"), ReportOwned(held[p]), NEW f \in Facts,
           f.autonomy < MinAutonomy("merge")
    PROVE  ContextOwned([op |-> "compiled", run |-> held[p].run, key |-> held[p].key,
                         res |-> held[p].res, context |-> TrustedContext(held[p], f),
                         policy |-> policyHash], decisions)
<1> DEFINE h == held[p]
<1>1. "humanApproved" \in Fact
  BY DEF Fact, GoodFacts
<1>2. TrustedFact(h, f)["humanApproved"] = OwnerExact(h)
  BY <1>1, Zenon DEF TrustedFact
<1>3. h.res.sha \in Sha => ContextSha(h) = h.res.sha
  BY NoneAssumption DEF ContextSha
<1>4. OwnerExact(h) /\ h.res.sha \in Sha => decisions[h.res.sha] # None
  BY <1>3 DEF OwnerExact
<1>5. /\ TrustedContext(h, f).autonomy = f.autonomy
      /\ TrustedContext(h, f).fact["humanApproved"] = OwnerExact(h)
  BY <1>2 DEF TrustedContext
<1> HIDE DEF h
<1>6. QED
  BY <1>4, <1>5 DEF ContextOwned, ReportOwned, h

\* The log a trusted result is appended to stays owned.
LEMMA AdvanceOwned ==
    ASSUME TypeOK, NEW p \in Process, Advance(p), ContextOwned(held[p], decisions),
           Owned(journal[held[p].run].events, decisions)
    PROVE  Owned(AdvanceRun(journal[held[p].run], held[p].key, held[p].res,
                            TrustedDecision(held[p])).events, decisions)
<1> DEFINE h == held[p]
           j == journal[h.run]
           d == TrustedDecision(h)
           e == Event0(j, h.key, h.res, d)
           longer == AdvanceRun(j, h.key, h.res, d).events
<1>0. /\ h \in Compiled /\ h.key \in Key /\ h.res \in StepResult /\ j \in Journal
      /\ Normalizes(j, h.res) /\ ContextBound(h, j)
  BY HeldType, CalledType DEF Advance, Accepted, Called
<1>1. d \in Decisions
  BY EvaluateType DEF TrustedDecision
<1>2. e \in Event /\ j.events \in Seq(Event) /\ longer = Append(j.events, e)
  BY <1>0, <1>1, AdvanceType, AppendedType DEF Journal
<1>3. ASSUME MergeEvent(e), e.sha \in Sha PROVE decisions[e.sha] # None
  <2> DEFINE c == [h.context EXCEPT !.fact["hashMatches"] = h.policy = policyHash]
  <2>1. j.phase = "MERGE" /\ d = "ALLOW" /\ e.sha = ResultSha(j, h.res)
    BY <1>3 DEF MergeEvent, Event0
  <2>2. h.context \in AskedContext /\ h.context.fact \in [Fact -> BOOLEAN]
    BY <1>0 DEF Compiled, AskedContext
  <2>3. h.context.action = "merge"
    BY <1>0, <2>1 DEF ContextBound, ActionByPhase, Phase
  <2>4. "humanApproved" # "hashMatches" /\ "humanApproved" \in Fact
    BY DEF Fact, GoodFacts
  <2>5. /\ c.action = "merge" /\ c.autonomy = h.context.autonomy
        /\ c.fact["humanApproved"] = h.context.fact["humanApproved"]
    BY <2>2, <2>3, <2>4 DEF AskedContext
  <2>6. EvaluatePermission(c) = "ALLOW"
    BY <2>1 DEF TrustedDecision
  <2> HIDE DEF c
  <2>7. h.context.fact["humanApproved"]
    BY <2>5, <2>6, MergeNeedsHuman DEF ContextOwned
  <2>8. h.res.phase = "MERGE" /\ h.res.sha # None /\ e.sha = h.res.sha
    BY <1>0, <2>1 DEF Normalizes, ResultSha, ContextOwned, ReportOwned
  <2>9. QED
    BY <1>3, <2>7, <2>8 DEF ContextOwned
<1> HIDE DEF e, d, longer
<1>4. ASSUME NEW i \in DOMAIN longer, MergeEvent(longer[i]), longer[i].sha \in Sha
      PROVE  decisions[longer[i].sha] # None
  <2>1. CASE i = Len(j.events) + 1
    <3>1. longer[i] = e
      <4>1. \A old \in Seq(Event), new \in Event : Append(old, new)[Len(old) + 1] = new
        OBVIOUS
      <4>2. QED
        BY <1>2, <2>1, <4>1
    <3>2. QED
      BY <1>3, <1>4, <3>1
  <2>2. CASE i # Len(j.events) + 1
    <3>1. i \in DOMAIN j.events /\ longer[i] = j.events[i]
      BY <1>2, <1>4, <2>2
    <3>2. QED
      BY <1>4, <3>1 DEF Owned
  <2>3. QED
    BY <2>1, <2>2
<1>5. Owned(longer, decisions)
  BY <1>4 DEF Owned
<1>6. QED
  BY <1>5 DEF longer, d

\* Where a report and a compiled context come from.
LEMMA CallOrigin ==
    ASSUME TypeOK, [Next]_vars, NEW p \in Process,
           Holds(p, "report")' \/ Holds(p, "compiled")'
    PROVE  \/ held'[p] = held[p]
           \/ \E r \in Run, res \in Offered : Observe(p, r, res)
           \/ \E r \in Run : OwnerAccept(p, r)
           \/ \E f \in Facts : Compile(p, f)
<1>1. ASSUME NEW q \in Process, p # q,
             \/ \E r \in Run, res \in Offered : Observe(q, r, res)
             \/ \E r \in Run : OwnerAccept(q, r)
             \/ \E f \in Facts : Compile(q, f)
      PROVE  held'[p] = held[p]
  BY <1>1 DEF Observe, OwnerAccept, Compile, TypeOK
<1>2. ASSUME NEW q \in Process,
             \/ \E e \in Entries, f \in Profiles : StartDiscover(q, e, f)
             \/ \E r \in Run : StartSave(q, r)
             \/ CompileRefused(q) \/ AdvanceRefused(q) \/ Save(q) \/ Crash(q)
      PROVE  held'[p] = held[p]
  BY <1>2 DEF StartDiscover, StartSave, CompileRefused, AdvanceRefused, Save, Crash, Holds,
              TypeOK
<1>3. ASSUME NEW q \in Process, NEW n, Computed(q, n)
      PROVE  held'[p] = held[p]
  BY <1>3 DEF Computed, Holds, TypeOK
<1>4. ASSUME NEW q \in Process,
             BlockExpired(q) \/ Advance(q) \/ \E f \in Facts : AdvanceLegacy(q, f)
      PROVE  held'[p] = held[p]
  BY <1>3, <1>4 DEF BlockExpired, Advance, AdvanceLegacy
<1>5. CASE UNCHANGED held
  BY <1>5
<1>6. QED
  BY <1>1, <1>2, <1>4, <1>5 DEF Next, Expire, ChangePolicy, vars

\* Decisions only ever appear, so an owned log stays owned.
LEMMA OwnedStays ==
    ASSUME TypeOK, [Next]_vars, NEW events, Owned(events, decisions)
    PROVE  Owned(events, decisions')
  BY DecisionsStay DEF Owned

\* Below the autonomy that may merge, in the trusted mode of the supervisor, and with
\* MERGE results that name the commit they merged (merge_executor always does), no commit is
\* recorded as merged that the owner did not accept (compile_trusted_context,
\* evaluate_permission and advance_run together).
THEOREM MergesAreAccepted ==
    ASSUME Modes \subseteq {"trusted"}, \A f \in Facts : f.autonomy < MinAutonomy("merge"),
           \A res \in Offered : res.phase = "MERGE" => res.sha # None
    PROVE  Spec => []MergeAcceptedByOwner
<1>1. Init => MergesOwned
  BY DEF Init, MergesOwned, Exists, Holds
<1>2. TypeOK /\ MergesOwned /\ [Next]_vars => MergesOwned'
  <2> SUFFICES ASSUME TypeOK, MergesOwned, [Next]_vars PROVE MergesOwned'
    OBVIOUS
  <2>1. ASSUME NEW r \in Run, Exists(r)' PROVE Owned(journal'[r].events, decisions')
    <3>1. CASE Exists(r) /\ journal'[r] = journal[r]
      <4>1. Owned(journal[r].events, decisions)
        BY <3>1 DEF MergesOwned
      <4>2. QED
        BY <3>1, <4>1, OwnedStays
    <3>2. ASSUME NEW p \in Process, Holds(p, "save"),
                 journal'[r].events = held[p].next.events
          PROVE  Owned(journal'[r].events, decisions')
      <4>1. Owned(held[p].next.events, decisions)
        BY <3>2 DEF MergesOwned
      <4>2. QED
        BY <3>2, <4>1, OwnedStays
    <3>3. CASE journal'[r].events = <<>>
      BY <3>3 DEF Owned
    <3>4. QED
      BY <2>1, <3>1, <3>2, <3>3, JournalOrigin
  <2>2. ASSUME NEW p \in Process, Holds(p, "save")' PROVE Owned(held'[p].next.events, decisions')
    <3>1. CASE Holds(p, "save") /\ held'[p] = held[p]
      <4>1. Owned(held[p].next.events, decisions)
        BY <3>1 DEF MergesOwned
      <4>2. QED
        BY <3>1, <4>1, OwnedStays
    <3>2. CASE BlockExpired(p)
      <4> DEFINE j == journal[held[p].run]
      <4>1. held[p].run \in Run /\ Exists(held[p].run) /\ j \in Journal
        BY <3>2, CalledType DEF BlockExpired
      <4>2. held'[p].next = [j EXCEPT !.status = "BLOCKED"]
        BY <3>2 DEF BlockExpired, Computed, TypeOK
      <4>3. held'[p].next.events = j.events
        BY <4>1, <4>2 DEF Journal
      <4>4. Owned(j.events, decisions)
        BY <4>1 DEF MergesOwned
      <4>5. QED
        BY <4>3, <4>4, OwnedStays
    <3>3. CASE Advance(p)
      <4> DEFINE n == AdvanceRun(journal[held[p].run], held[p].key, held[p].res,
                                 TrustedDecision(held[p]))
      <4>1. /\ held[p].run \in Run /\ Exists(held[p].run)
            /\ ContextOwned(held[p], decisions)
        BY <3>3, CalledType DEF Advance, Accepted, Called, MergesOwned
      <4>2. Owned(n.events, decisions)
        BY <3>3, <4>1, AdvanceOwned DEF MergesOwned
      <4>3. held'[p].next = n
        BY <3>3 DEF Advance, Computed, TypeOK
      <4>4. QED
        BY <4>2, <4>3, OwnedStays
    <3>4. ASSUME NEW f \in Facts, AdvanceLegacy(p, f) PROVE FALSE
      BY <3>4 DEF AdvanceLegacy
    <3>5. QED
      BY <2>2, <3>1, <3>2, <3>3, <3>4, CopyOrigin
  <2>3. ASSUME NEW p \in Process, Holds(p, "report")' \/ Holds(p, "compiled")'
        PROVE  /\ Holds(p, "report")' => ReportOwned(held'[p])
               /\ Holds(p, "compiled")' => ContextOwned(held'[p], decisions')
    <3>1. CASE held'[p] = held[p]
      <4>1. /\ Holds(p, "report")' => Holds(p, "report")
            /\ Holds(p, "compiled")' => Holds(p, "compiled")
        BY <3>1 DEF Holds
      <4>2. Holds(p, "report") => ReportOwned(held[p])
        BY DEF MergesOwned
      <4>3. Holds(p, "compiled") => ContextOwned(held[p], decisions)
        BY DEF MergesOwned
      <4>4. QED
        BY <3>1, <4>1, <4>2, <4>3, DecisionsStay DEF ContextOwned
    <3>2. ASSUME NEW r \in Run, NEW res \in Offered, Observe(p, r, res)
          PROVE  Holds(p, "report")' /\ ~Holds(p, "compiled")' /\ ReportOwned(held'[p])
      <4>1. held'[p] = Report(journal[r], r, res) /\ res.phase = "MERGE" => res.sha # None
        BY <3>2 DEF Observe, TypeOK
      <4>2. held'[p].op = "report" /\ held'[p].res = res
        BY <3>2, <4>1 DEF Observe, Report, TypeOK
      <4>3. held'[p] # Idle
        BY <2>3 DEF Holds
      <4>4. QED
        BY <4>1, <4>2, <4>3 DEF Holds, ReportOwned
    <3>3. ASSUME NEW r \in Run, OwnerAccept(p, r)
          PROVE  Holds(p, "report")' /\ ~Holds(p, "compiled")' /\ ReportOwned(held'[p])
      <4>1. held'[p].op = "report" /\ held'[p].res.phase = "OWNER_ACCEPTANCE"
        BY <3>3 DEF OwnerAccept, Report, TypeOK
      <4>2. QED
        BY <2>3, <4>1 DEF Holds, ReportOwned
    <3>4. ASSUME NEW f \in Facts, Compile(p, f)
          PROVE  ~Holds(p, "report")' /\ ContextOwned(held'[p], decisions')
      <4> DEFINE v == [op |-> "compiled", run |-> held[p].run, key |-> held[p].key,
                       res |-> held[p].res, context |-> TrustedContext(held[p], f),
                       policy |-> policyHash]
      <4>1. Holds(p, "report") /\ ReportOwned(held[p])
        BY <3>4 DEF Compile, MergesOwned
      <4>2. ContextOwned(v, decisions)
        BY <3>4, <4>1, CompileOwned
      <4>3. v.op = "compiled" /\ held'[p] = v /\ decisions' = decisions
        BY <3>4 DEF Compile, TypeOK
      <4> HIDE DEF v
      <4>4. QED
        BY <4>2, <4>3 DEF Holds
    <3>5. QED
      BY <2>3, <3>1, <3>2, <3>3, <3>4, CallOrigin
  <2>4. QED
    BY <2>1, <2>2, <2>3 DEF MergesOwned
<1>3. MergesOwned => MergeAcceptedByOwner
  BY DEF MergesOwned, Owned, MergeEvent, MergeAcceptedByOwner, HasEvent
<1>4. QED
  BY <1>1, <1>2, <1>3, TypeCorrect, PTL DEF Spec

-----------------------------------------------------------------------------
(* One active run, where every start passes the same lock and no decision  *)
(* of the policy is recorded as a status.                                  *)

\* "BLOCK" is a status that is neither active nor final: such a run is not listed, and a
\* later result can make it active again.
NoPolicyBlock == \A r \in Run : Exists(r) => journal[r].status # "BLOCK"

\* A start in progress found no active run and keeps the lock; a copy that could still be
\* saved is one of an active run.
Alone(l) ==
    /\ SingleActiveRun
    /\ \A p \in Process : Holds(p, "start") => lockOf[l] = p /\ ListActive = {}
    /\ \A p \in Process :
           Holds(p, "save") /\ SaveMatches(held[p]) => held[p].run \in ListActive

\* A step that changes no journal, lock or copy, except that it drops what a process holds.
LEMMA AloneStays ==
    ASSUME NEW l, Alone(l), UNCHANGED journal,
           \A p \in Process : Holds(p, "start")' => Holds(p, "start") /\ lockOf'[l] = lockOf[l],
           \A p \in Process : Holds(p, "save")' => Holds(p, "save") /\ held'[p] = held[p]
    PROVE  Alone(l)'
<1>1. ListActive' = ListActive
  BY DEF ListActive, Exists
<1>2. SingleActiveRun'
  BY <1>1 DEF Alone, SingleActiveRun
<1>3. QED
  BY <1>1, <1>2 DEF Alone, SaveMatches, Exists

LEMMA AloneStep ==
    ASSUME NEW l \in Lock, Entries \subseteq {l}, IndInv, NoPolicyBlock, Alone(l),
           [Next]_vars
    PROVE  Alone(l)'
<1> USE OrchestratorAssumption
<1>0. TypeOK
  BY DEF IndInv
<1>1. ASSUME NEW p \in Process, NEW e \in Entries, NEW f \in Profiles,
             StartDiscover(p, e, f)
      PROVE  Alone(l)'
  <2>1. e = l /\ lockOf[l] = None /\ ListActive = {} /\ UNCHANGED journal
    BY <1>1 DEF StartDiscover
  <2>2. lockOf'[l] = p
    BY <1>1, <2>1 DEF StartDiscover
  <2>3. \A q \in Process : ~Holds(q, "start")
    BY <2>1 DEF Alone
  <2>4. \A q \in Process : Holds(q, "start")' => q = p
    BY <1>0, <1>1, <2>3 DEF StartDiscover, Holds, TypeOK
  <2>5. \A q \in Process : Holds(q, "save")' => Holds(q, "save") /\ held'[q] = held[q]
    BY <1>0, <1>1 DEF StartDiscover, Holds, TypeOK
  <2>6. ListActive' = {}
    BY <2>1 DEF ListActive, Exists
  <2>7. \A q \in Process : ~(Holds(q, "save") /\ SaveMatches(held[q]))'
    BY <2>1, <2>5 DEF Alone, SaveMatches, Exists
  <2>8. QED
    BY <2>2, <2>4, <2>6, <2>7 DEF Alone, SingleActiveRun
<1>2. ASSUME NEW p \in Process, NEW r \in Run, StartSave(p, r) PROVE Alone(l)'
  <2>1. Holds(p, "start") /\ lockOf[l] = p /\ ListActive = {}
    BY <1>2 DEF StartSave, Alone
  <2>2. \A q \in Process : ~Holds(q, "start")'
    BY <1>0, <1>2, <2>1 DEF StartSave, Holds, TypeOK, Alone
  <2>3. \A q \in Process : Holds(q, "save")' => Holds(q, "save") /\ held'[q] = held[q]
    BY <1>0, <1>2 DEF StartSave, Holds, TypeOK
  <2>4. \A q \in Run : q # r => journal'[q] = journal[q]
    BY <1>0, <1>2 DEF StartSave, TypeOK
  <2>5. ListActive' \subseteq {r}
    BY <2>1, <2>4 DEF ListActive, Exists
  <2>6. Exists(r) => journal'[r].revision = journal[r].revision + 1
    <3> DEFINE new == NewJournal(held[p].profile, policyHash)
    <3>1. new \in Journal
      BY <1>0, <2>1, HeldType, NewJournalType DEF Starting, TypeOK
    <3>2. SUFFICES ASSUME Exists(r)
                   PROVE  journal'[r].revision = journal[r].revision + 1
      OBVIOUS
    <3>3. journal'[r] = [new EXCEPT !.revision = journal[r].revision + 1]
      BY <1>0, <1>2, <3>2 DEF StartSave, TypeOK
    <3>4. journal[r].revision + 1 \in Nat
      BY <1>0, <3>2, ExistsType
    <3>5. QED
      BY <3>1, <3>3, <3>4, RenumberType
  <2>7. ASSUME NEW q \in Process, Holds(q, "save")', SaveMatches(held[q])'
        PROVE  FALSE
    <3>1. Holds(q, "save") /\ held'[q] = held[q] /\ CopySound(held[q])
      BY <2>3, <2>7 DEF IndInv, CopiesSound
    <3>2. held[q].run \in Run /\ held[q].base \in Nat
      BY <1>0, <3>1, HeldType DEF Saving
    <3>3. journal'[held[q].run].revision = held[q].base
      BY <2>7, <3>1 DEF SaveMatches
    <3>4. CASE held[q].run = r
      <4>1. Exists(r) /\ held[q].base <= journal[r].revision /\ journal[r].revision \in Nat
        BY <1>0, <3>1, <3>4, ExistsType DEF CopySound
      <4>2. QED
        BY <2>6, <3>2, <3>3, <3>4, <4>1
    <3>5. CASE held[q].run # r
      <4>1. Exists(held[q].run) /\ journal[held[q].run].revision = held[q].base
        BY <2>4, <3>1, <3>2, <3>3, <3>5 DEF CopySound
      <4>2. QED
        BY <2>1, <3>1, <4>1 DEF Alone, SaveMatches
    <3>6. QED
      BY <3>4, <3>5
  <2>8. SingleActiveRun'
    BY <2>5 DEF SingleActiveRun
  <2>9. QED
    BY <2>2, <2>7, <2>8 DEF Alone
<1>3. ASSUME NEW p \in Process, NEW r \in Run, NEW res \in Offered, Observe(p, r, res)
      PROVE  Alone(l)'
  BY <1>0, <1>3, AloneStays DEF Observe, Report, Holds, TypeOK
<1>4. ASSUME NEW p \in Process, NEW r \in Run, OwnerAccept(p, r) PROVE Alone(l)'
  BY <1>0, <1>4, AloneStays DEF OwnerAccept, Report, Holds, TypeOK
<1>5. ASSUME NEW p \in Process, Called(p), Loaded(p), NEW n, Computed(p, n),
             UNCHANGED <<journal, lockOf>>
      PROVE  Alone(l)'
  <2> DEFINE h == held[p]
  <2>1. h.run \in Run /\ journal[h.run] \in Journal
    BY <1>0, <1>5, CalledType
  <2>2. h.run \in ListActive
    BY <1>5, <2>1 DEF Loaded, ListActive, NoPolicyBlock, Journal, Statuses
  <2>3. ListActive' = ListActive
    BY <1>5 DEF ListActive, Exists
  <2>4. \A q \in Process : ~Holds(q, "start")'
    BY <1>0, <1>5, <2>2 DEF Computed, Holds, TypeOK, Alone
  <2>5. held'[p].run = h.run
    BY <1>0, <1>5 DEF Computed, TypeOK
  <2>6. ASSUME NEW q \in Process, Holds(q, "save")', SaveMatches(held[q])'
        PROVE  held'[q].run \in ListActive
    <3>1. CASE q = p
      BY <2>2, <2>5, <3>1
    <3>2. CASE q # p
      BY <1>0, <1>5, <2>6, <3>2 DEF Computed, Holds, TypeOK, Alone, SaveMatches, Exists
    <3>3. QED
      BY <3>1, <3>2
  <2>7. QED
    BY <2>3, <2>4, <2>6 DEF Alone, SingleActiveRun
<1>6. ASSUME NEW p \in Process, CompileRefused(p) \/ AdvanceRefused(p) PROVE Alone(l)'
  BY <1>0, <1>6, AloneStays DEF CompileRefused, AdvanceRefused, Holds, TypeOK
<1>13. ASSUME NEW p \in Process, NEW f \in Facts, Compile(p, f) PROVE Alone(l)'
  BY <1>0, <1>13, AloneStays DEF Compile, Holds, TypeOK
<1>14. ASSUME NEW p \in Process, BlockExpired(p) PROVE Alone(l)'
  BY <1>5, <1>14 DEF BlockExpired
<1>15. ASSUME NEW p \in Process, Advance(p) PROVE Alone(l)'
  BY <1>5, <1>15 DEF Advance, Accepted, Called
<1>16. ASSUME NEW p \in Process, NEW f \in Facts, AdvanceLegacy(p, f) PROVE Alone(l)'
  BY <1>5, <1>16 DEF AdvanceLegacy, Accepted, Called
<1>7. ASSUME NEW p \in Process, Save(p) PROVE Alone(l)'
  <2> DEFINE h == held[p]
  <2>1. h \in Saving /\ h.run \in Run /\ h.next \in Journal /\ Holds(p, "save")
    BY <1>0, <1>7, HeldType DEF Save, Saving
  <2>2. CASE ~SaveMatches(h)
    BY <1>0, <1>7, <2>2, AloneStays DEF Save, Holds, TypeOK
  <2>3. CASE SaveMatches(h)
    <3> DEFINE new == [h.next EXCEPT !.revision = journal[h.run].revision + 1]
    <3>1. h.run \in ListActive
      BY <2>1, <2>3 DEF Alone
    <3>2. /\ Exists(h.run) /\ journal[h.run].revision \in Nat
          /\ new.revision = journal[h.run].revision + 1
      BY <1>0, <2>1, <2>3, ExistsType, RenumberType DEF SaveMatches
    <3>3. journal'[h.run] = new /\ \A q \in Run : q # h.run => journal'[q] = journal[q]
      BY <1>0, <1>7, <2>1, <2>3 DEF Save, TypeOK
    <3>4. ListActive' \subseteq ListActive
      BY <3>1, <3>3 DEF ListActive, Exists
    <3>5. \A q \in Process : ~Holds(q, "start")'
      BY <1>0, <1>7, <3>1 DEF Save, Holds, TypeOK, Alone
    <3>6. ASSUME NEW q \in Process, Holds(q, "save")', SaveMatches(held[q])'
          PROVE  held'[q].run \in ListActive'
      <4>1. Holds(q, "save") /\ held'[q] = held[q] /\ CopySound(held[q])
        BY <1>0, <1>7, <3>6 DEF Save, Holds, TypeOK, IndInv, CopiesSound
      <4>2. held[q].run \in Run /\ held[q].base \in Nat
        BY <1>0, <4>1, HeldType DEF Saving
      <4>3. journal'[held[q].run].revision = held[q].base
        BY <3>6, <4>1 DEF SaveMatches
      <4>4. held[q].run # h.run
        <5>1. held[q].base <= journal[held[q].run].revision
          BY <4>1 DEF CopySound
        <5>2. journal'[h.run].revision = journal[h.run].revision + 1
          BY <3>2, <3>3
        <5>3. QED
          BY <3>2, <4>2, <4>3, <5>1, <5>2
      <4>5. journal'[held[q].run] = journal[held[q].run]
        BY <3>3, <4>2, <4>4
      <4>6. held[q].run \in ListActive
        BY <4>1, <4>3, <4>5 DEF Alone, SaveMatches, CopySound
      <4>7. QED
        BY <4>1, <4>2, <4>5, <4>6 DEF ListActive, Exists
    <3>7. SingleActiveRun'
      BY <3>4 DEF Alone, SingleActiveRun
    <3>8. QED
      BY <3>5, <3>6, <3>7 DEF Alone
  <2>4. QED
    BY <2>2, <2>3
<1>8. ASSUME NEW p \in Process, Crash(p) PROVE Alone(l)'
  <2>1. \A q \in Process : Holds(q, "start")' => Holds(q, "start") /\ lockOf'[l] = lockOf[l]
    BY <1>0, <1>8 DEF Crash, Holds, TypeOK, Alone
  <2>2. QED
    BY <1>0, <1>8, <2>1, AloneStays DEF Crash, Holds, TypeOK
<1>9. ASSUME NEW r \in Run, Expire(r) PROVE Alone(l)'
  BY <1>9, AloneStays DEF Expire, Holds
<1>10. ASSUME NEW h \in PolicyHash, ChangePolicy(h) PROVE Alone(l)'
  BY <1>10, AloneStays DEF ChangePolicy, Holds
<1>11. CASE UNCHANGED vars
  BY <1>11, AloneStays DEF vars, Holds
<1>12. QED
  BY <1>1, <1>2, <1>3, <1>4, <1>6, <1>7, <1>8, <1>9, <1>10, <1>11, <1>13, <1>14, <1>15, <1>16
     DEF Next

\* Where every start goes through one of the two locks and no run is left with the status
\* BLOCK, no two runs are active, however many processes start, report, save and crash
\* (list_active under owner-intent.lock or orch-next.lock, and the compare-and-set of save).
THEOREM OneRunAtATime ==
    ASSUME NEW l \in Lock, Entries \subseteq {l}
    PROVE  Spec /\ []NoPolicyBlock => []SingleActiveRun
<1>1. Init => Alone(l)
  BY DEF Init, Alone, Exists, Holds, ListActive, SingleActiveRun
<1>2. IndInv /\ NoPolicyBlock /\ Alone(l) /\ [Next]_vars => Alone(l)'
  BY AloneStep
<1>3. Alone(l) => SingleActiveRun
  BY DEF Alone
<1>4. QED
  BY <1>1, <1>2, <1>3, InvHolds, PTL DEF Spec

-----------------------------------------------------------------------------
(***************************************************************************)
(* The permission engine every step of a run asks: what it guarantees for  *)
(* every context, not only the ones TLC enumerates.                        *)
(***************************************************************************)

\* A context after one fact turned against the caller.
Worse(c, f) == [c EXCEPT !.fact[f] = f \in BadFacts]

LEMMA WorseContext ==
    ASSUME NEW c \in Context, NEW f \in Fact
    PROVE  /\ Worse(c, f) \in Context
           /\ Worse(c, f).action = c.action
           /\ Worse(c, f).autonomy = c.autonomy
           /\ Worse(c, f).risk = c.risk
           /\ Worse(c, f).maxRisk = c.maxRisk
           /\ Worse(c, f).workType = c.workType
           /\ \A g \in GoodFacts : Worse(c, f).fact[g] => c.fact[g]
           /\ \A b \in BadFacts : c.fact[b] => Worse(c, f).fact[b]
<1>1. GoodFacts \cap BadFacts = {} /\ GoodFacts \subseteq Fact /\ BadFacts \subseteq Fact
  BY DEF GoodFacts, BadFacts, Fact
<1>2. c.fact \in [Fact -> BOOLEAN]
  BY DEF Context
<1>3. /\ Worse(c, f).fact = [c.fact EXCEPT ![f] = f \in BadFacts]
      /\ Worse(c, f).action = c.action /\ Worse(c, f).autonomy = c.autonomy
      /\ Worse(c, f).risk = c.risk /\ Worse(c, f).maxRisk = c.maxRisk
      /\ Worse(c, f).workType = c.workType
  BY DEF Worse, Context
<1>4. [c.fact EXCEPT ![f] = f \in BadFacts] \in [Fact -> BOOLEAN]
  <2>1. ASSUME NEW b \in BOOLEAN PROVE [c.fact EXCEPT ![f] = b] \in [Fact -> BOOLEAN]
    BY <1>2
  <2>2. (f \in BadFacts) \in BOOLEAN
    OBVIOUS
  <2>3. QED
    BY <2>1, <2>2, Zenon
<1>5. Worse(c, f) \in Context
  BY <1>4 DEF Worse, Context
<1>6. \A g \in GoodFacts : Worse(c, f).fact[g] => c.fact[g]
  BY <1>1, <1>2, <1>3, Zenon
<1>7. \A b \in BadFacts : c.fact[b] => Worse(c, f).fact[b]
  BY <1>1, <1>2, <1>3, Zenon
<1>8. QED
  BY <1>3, <1>5, <1>6, <1>7

\* A stage that objects to a context objects to a worse one.
LEMMA StagesStayClosed ==
    ASSUME NEW c \in Context, NEW f \in Fact
    PROVE  /\ UnknownReasons(c) # {} => UnknownReasons(Worse(c, f)) # {}
           /\ ProviderReasons(c) # {} => ProviderReasons(Worse(c, f)) # {}
           /\ SafetyReasons(c) # {} => SafetyReasons(Worse(c, f)) # {}
           /\ HumanReasons(c) # {} => HumanReasons(Worse(c, f)) # {}
<1> DEFINE d == Worse(c, f)
<1> USE WorseContext
<1>1. UnknownReasons(c) # {} => UnknownReasons(d) # {}
  BY DEF UnknownReasons, GoodFacts
<1>2. ProviderReasons(c) # {} => ProviderReasons(d) # {}
  BY DEF ProviderReasons, If, GoodFacts, BadFacts
<1>3. SafetyReasons(c) # {} => SafetyReasons(d) # {}
  BY DEF SafetyReasons, If, GoodFacts, BadFacts
<1>4. HumanReasons(c) # {} => HumanReasons(d) # {}
  BY DEF HumanReasons, If, GoodFacts, BadFacts
<1>5. QED
  BY <1>1, <1>2, <1>3, <1>4

LEMMA LossIsStricter ==
    ASSUME NEW c \in Context, NEW f \in Fact
    PROVE  Strictness(EvaluatePermission(Worse(c, f))) >= Strictness(EvaluatePermission(c))
<1>1. BlockReasons(c) # {} => BlockReasons(Worse(c, f)) # {}
  BY StagesStayClosed DEF BlockReasons
<1>2. Worse(c, f).fact["humanApproved"] => c.fact["humanApproved"]
  BY WorseContext DEF GoodFacts
<1>3. QED
  BY <1>1, <1>2, StagesStayClosed DEF EvaluatePermission, Strictness

\* Every state of the decay holds a context.
THEOREM DecayTypeCorrect == DecaySpec => []DecayTypeOK
<1>1. DecayInit => DecayTypeOK
  <2>1. Favourable \in [Fact -> BOOLEAN]
    <3>1. \A f \in Fact : (f \in GoodFacts) \in BOOLEAN
      OBVIOUS
    <3>2. QED
      BY <3>1, Zenon DEF Favourable
  <2>2. QED
    BY <2>1, InputsAssumption DEF DecayInit, DecayTypeOK, Context
<1>2. DecayTypeOK /\ [DecayNext]_decayVars => DecayTypeOK'
  <2>1. ASSUME DecayTypeOK, NEW f \in Fact, LoseFact(f) PROVE DecayTypeOK'
    <3>1. ctx' = Worse(ctx, f) /\ lost' = lost \cup {f}
      BY <2>1 DEF LoseFact, Worse
    <3>2. QED
      BY <2>1, <3>1, WorseContext DEF DecayTypeOK
  <2>2. ASSUME DecayTypeOK, UNCHANGED decayVars PROVE DecayTypeOK'
    BY <2>2 DEF DecayTypeOK, decayVars
  <2>3. QED
    BY <2>1, <2>2 DEF DecayNext
<1>3. QED
  BY <1>1, <1>2, PTL DEF DecaySpec

\* Losing a fact never loosens the answer, for every action, class, work type
\* and every set of facts lost before it (policy.py, evaluate_permission).
THEOREM DecayNeverLoosens == DecaySpec => LossNeverLoosens
<1>1. DecayTypeOK /\ [DecayNext]_decayVars =>
          [Strictness(EvaluatePermission(ctx')) >= Strictness(EvaluatePermission(ctx))]_decayVars
  <2>1. SUFFICES ASSUME DecayTypeOK, NEW f \in Fact, LoseFact(f)
                 PROVE  Strictness(EvaluatePermission(ctx'))
                            >= Strictness(EvaluatePermission(ctx))
    BY DEF DecayNext
  <2>2. ctx \in Context /\ ctx' = Worse(ctx, f)
    BY <2>1 DEF DecayTypeOK, LoseFact, Worse
  <2>3. QED
    BY <2>2, LossIsStricter
<1>2. QED
  BY <1>1, DecayTypeCorrect, PTL DEF DecaySpec, LossNeverLoosens

\* A human approval lifts HUMAN_REQUIRED and nothing else
\* (AUTONOMY_POLICY.md; policy.py, evaluate_permission).
THEOREM ApprovalIsLimited == DecaySpec => []ApprovalLiftsOnlyHumanRequired
<1> DEFINE approved == [ctx EXCEPT !.fact["humanApproved"] = TRUE]
<1>1. ASSUME DecayTypeOK PROVE ApprovalLiftsOnlyHumanRequired
  <2>1. /\ approved.fact["humanApproved"]
        /\ \A g \in Fact \ {"humanApproved"} : approved.fact[g] = ctx.fact[g]
        /\ approved.action = ctx.action /\ approved.autonomy = ctx.autonomy
        /\ approved.risk = ctx.risk /\ approved.maxRisk = ctx.maxRisk
        /\ approved.workType = ctx.workType
    BY <1>1 DEF DecayTypeOK, Context, Fact, GoodFacts
  <2>2. UnknownReasons(approved) = UnknownReasons(ctx)
    BY <2>1 DEF UnknownReasons, Fact, GoodFacts
  <2>3. ProviderReasons(approved) = ProviderReasons(ctx)
    BY <2>1 DEF ProviderReasons, If, Fact, GoodFacts, BadFacts
  <2>4. SafetyReasons(approved) = SafetyReasons(ctx)
    BY <2>1 DEF SafetyReasons, If, Fact, GoodFacts, BadFacts
  <2>5. (BlockReasons(approved) # {}) <=> (BlockReasons(ctx) # {})
    BY <2>2, <2>3, <2>4 DEF BlockReasons
  <2>6. QED
    BY <2>1, <2>5 DEF EvaluatePermission, ApprovalLiftsOnlyHumanRequired
<1>2. QED
  BY <1>1, DecayTypeCorrect, PTL

\* An owner-only action never passes on autonomy alone: the human stage objects to
\* it whatever the classes are (policy.py, evaluate_permission).
THEOREM OwnerIsAsked == DecaySpec => []OwnerActionsNeedOwner
<1>1. ASSUME NEW c, c.action \in OwnerOnly
      PROVE  "A4_NEVER_AUTOMATIC" \in HumanReasons(c)
  <2>1. c.action \in AlwaysHumanActions
    BY <1>1 DEF OwnerOnly, AlwaysHumanActions
  <2>2. QED
    BY <2>1 DEF HumanReasons, If
<1>2. OwnerActionsNeedOwner
  BY <1>1 DEF OwnerActionsNeedOwner, EvaluatePermission
<1>3. QED
  BY <1>2, PTL
=============================================================================
