----------------------- MODULE MCDurableOrchestrator -----------------------
(***************************************************************************)
(* Instances of DurableOrchestrator for TLC: which step results adapters   *)
(* deliver, which control facts decisions see, and how many surprises (a   *)
(* refused, failed or repeated step, or a commit that moved) a run meets.  *)
(***************************************************************************)
EXTENDS DurableOrchestrator, FiniteSets, TLC

CONSTANT MaxSurprises   \* bound: surprises explored in one run

Result(phase, outcome, sha) ==
    [phase |-> phase, outcome |-> outcome, sha |-> sha, digest |-> None,
     mergeSha |-> None, evidence |-> TRUE, transient |-> TRUE, exact |-> TRUE,
     acceptedDigest |-> None, refs |-> {}]

\* The executors of action_executors.py: RECONCILE reports the main revision,
\* creative phases a new head, the others the subject of the run.
Success ==
    {Result("RECONCILE", "PASS", s) : s \in Sha}
    \cup {Result("EXECUTE", "PASS", s) : s \in Sha}
    \cup {[Result("CLAIM", "PASS", None) EXCEPT !.refs = {"branch"}],
          [Result("OPEN_PR", "PASS", None) EXCEPT !.refs = {"pr"}]}
    \cup {Result(p, "PASS", None) :
            p \in {"AUTHORIZE", "WORKSPACE", "CI", "REVIEW", "PROMOTE", "OBSERVE", "DONE",
                   "CLEANUP", "NEXT"}}
    \cup {[Result("PREVIEW", "PASS", None) EXCEPT !.digest = d, !.refs = {"attestation"}] :
            d \in DigestOrNone}
    \cup {[Result("MERGE", "PASS", s) EXCEPT !.mergeSha = m] : s \in Sha, m \in Sha}
    \cup {Result("NEXT", o, None) : o \in {"NEXT_READY", "ROADMAP_COMPLETE"}}

\* What a repair reports: nothing new, or a new head.
Repair    == {Result("RECOVERY", "PASS", s) : s \in ShaOrNone}
MovedHead == {Result(p, "PASS", s) : p \in {"CI", "OPEN_PR", "CLEANUP"}, s \in Sha}
             \cup {Result("RECOVERY", "RETRY", s) : s \in Sha}

Trouble ==
    {Result(p, "FAIL", None) :
        p \in {"EXECUTE", "CI", "MERGE", "PROMOTE", "OBSERVE", "RECOVERY"}}
    \cup {Result(p, "RETRY", None) : p \in {"CI", "PROMOTE", "RECOVERY"}}
    \cup {[Result("CI", "RETRY", None) EXCEPT !.transient = FALSE],
          [Result("CI", "PASS", None) EXCEPT !.evidence = FALSE]}
    \cup {Result("CI", "HUMAN_REQUIRED", None), Result("REVIEW", "BLOCK", None),
          Result("OWNER_ACCEPTANCE", "CHANGES_REQUESTED", None)}

Supervised == Success \cup Repair \cup MovedHead \cup Trouble

\* A CLI step may claim an exact acceptance by itself.
ClaimedAcceptance ==
    {[Result("OWNER_ACCEPTANCE", "PASS", s) EXCEPT !.acceptedDigest = d] :
        s \in ShaOrNone, d \in Digest}
CommandLine == Supervised \cup ClaimedAcceptance

\* One short episode: reconcile and authorize, or fail wherever the run is.
Failing == {Result("RECONCILE", "PASS", s) : s \in Sha}
           \cup {Result("AUTHORIZE", "PASS", None), Result("RECOVERY", "PASS", None)}
           \cup {Result(p, "FAIL", None) : p \in Phase}

FactsOf(autonomy, lost) ==
    [autonomy |-> autonomy, maxRisk |-> 1,
     fact |-> [f \in Fact |-> f \in GoodFacts \ lost]]

\* A2 is the shipped effective policy; A3 the highest class it may activate.
FactsA2 == {FactsOf(2, {}), FactsOf(2, {"gatesPass"})}
Healthy == {FactsOf(3, {})}

Product  == [risk |-> 1, workType |-> "feature", productImpact |-> TRUE]
Internal == [risk |-> 1, workType |-> "governance", productImpact |-> FALSE]
Both        == {Product, Internal}
ProductOnly == {Product}

\* An event that is not the plain success of its phase on the known subject.
Surprising(j, i) ==
    LET e == j.events[i]
    IN  \/ e.outcome \notin {"PASS", "ROADMAP_COMPLETE", "NEXT_READY"}
        \/ e.decision # "ALLOW"
        \/ e.phase = "CI" /\ i > 1 /\ e.sha # j.events[i - 1].sha

\* A policy that is not the one of the run is a surprise for as long as it is in force,
\* a deadline that passed one for ever.
Drifted(r) == IF journal[r].policy # policyHash THEN 1 ELSE 0
Late(r)    == IF r \in expired THEN 1 ELSE 0

Surprises(r) == IF Exists(r)
                THEN Drifted(r) + Late(r)
                     + Cardinality({i \in DOMAIN journal[r].events : Surprising(journal[r], i)})
                ELSE 0

FewSurprises == \A r \in Run : Surprises(r) <= MaxSurprises

ShaSymmetry == Permutations(Sha) \cup Permutations(PolicyHash)
=============================================================================
