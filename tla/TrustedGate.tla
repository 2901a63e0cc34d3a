---------------------------- MODULE TrustedGate -----------------------------
(***************************************************************************)
(* How a pull request is certified and merged: publish_trusted_gate.py in  *)
(* the trusted controller job, which the workflow's concurrency group runs *)
(* one at a time, and the ruleset of github_rulesets.py that admits a      *)
(* merge.  Authors push, force-push, update and attest, admins approve,    *)
(* jobs start late or again and die between any two requests.              *)
(***************************************************************************)
EXTENDS Integers, Sequences, FiniteSets

-----------------------------------------------------------------------------
(* trust.py: how a change between two revisions is classified by the trust  *)
(* policy of the BASE revision.  A tree tells apart feature files, the      *)
(* generated projections, authoritative protected sources and the trust     *)
(* policy, which stands for every path that is reserved for the owner; a    *)
(* policy is told by its standing authorization.                            *)
Standing == {"ACTIVE", "REVOKED", "LEGACY", "INVALID"}

Tree == [feature : {0, 1}, generated : {0, 1}, source : {"kept", "changed", "weaker"},
         policy : Standing]

\* The classes of files in which two trees differ.
Changed(old, new) == {c \in {"feature", "generated", "source", "policy"} : old[c] # new[c]}

\* detect_gate_weakening on the protected files.
Weakens(old, new) == new.source = "weaker" /\ old.source # "weaker"

Protected(old, new)     == Changed(old, new) \cap {"generated", "source", "policy"}
Authoritative(old, new) == Changed(old, new) \cap {"source", "policy"}

Mixed(old, new) == Authoritative(old, new) # {} /\ "feature" \in Changed(old, new)

\* standing_auto: what the owner has authorized in advance, in the base.
StandingAuto(old, new) ==
    /\ Protected(old, new) # {}
    /\ old.policy = "ACTIVE"
    /\ ~Weakens(old, new)
    /\ "policy" \notin Changed(old, new)
    /\ ~Mixed(old, new)

\* classify_diff, for a diff that is not empty.
ClassifyDiff(old, new) ==
    IF old.policy = "INVALID" \/ Mixed(old, new) THEN "BLOCK"
    ELSE IF Protected(old, new) = {} \/ StandingAuto(old, new) THEN "ALLOW"
    ELSE "HUMAN_REQUIRED"

-----------------------------------------------------------------------------
(* The state. *)

CONSTANTS Pull,           \* pull requests
          AdminAuthored,  \* those whose author is a repository admin
          Trees,          \* the trees authors push
          Root,           \* the tree of the first commit of main
          MaxPushes,      \* bound: commits of the authors
          MaxJobs,        \* bound: controller jobs
          MaxMishaps,     \* bound: failed runs, readings and evidence, lost links, deaths
          None

ASSUME GateAssumption ==
    /\ AdminAuthored \subseteq Pull
    /\ Trees \subseteq Tree /\ Root \in Tree
    /\ IsFiniteSet(Pull) /\ MaxPushes \in Nat /\ MaxJobs \in Nat /\ MaxMishaps \in Nat
    /\ None \notin Pull \cup Nat

VARIABLES commits,   \* every commit: its tree, its ancestors, its pull request
          main,      \* the tip of the default branch
          pull,      \* state, head, recorded base, attested head and approved heads
          gate,      \* the two contexts of each commit, on both transports
          job,       \* the controller job
          jobs,      \* jobs started so far
          mishaps,   \* what has gone wrong so far
          vouched,   \* commits an admin has approved or attested so far
          bases      \* the tips of main each commit was a head against so far

vars == <<commits, main, pull, gate, job, jobs, mishaps, vouched, bases>>

Sha     == 1 .. 1 + MaxPushes + Cardinality(Pull)
Known   == DOMAIN commits
Mark    == {"none", "failure", "success"}
Context == {"governance", "trusted"}
NewGate == [c \in Context |-> [status |-> "none", check |-> "none"]]

Pulls == [state : {"new", "open", "merged"}, head : Sha \cup {None}, base : Sha \cup {None},
          attested : Sha \cup {None}, approved : SUBSET Sha]

Opened(p) == pull[p].state = "open"
TreeOf(c) == commits[c].tree
Within(c, d) == c = d \/ c \in commits[d].ancestors

Init ==
    /\ commits = <<[tree |-> Root, ancestors |-> {}, pull |-> None]>>
    /\ main = 1
    /\ pull = [p \in Pull |-> [state |-> "new", head |-> None, base |-> None,
                               attested |-> None, approved |-> {}]]
    /\ gate = [c \in Sha |-> NewGate]
    /\ job = None /\ jobs = 0 /\ mishaps = 0
    /\ vouched = {}
    /\ bases = [c \in Sha |-> {}]

-----------------------------------------------------------------------------
(* Authors, admins and the provider.                                       *)

\* A head is recorded with the main it is pushed against; stale approvals are
\* dismissed (dismiss_stale_reviews_on_push).
SetHead(p, c) ==
    /\ pull' = [pull EXCEPT ![p].state = "open", ![p].head = c, ![p].base = main,
                            ![p].approved = {}]
    /\ bases' = [bases EXCEPT ![c] = @ \cup {main}]

NewCommit(tree, parents, p) ==
    commits' = Append(commits, [tree |-> tree, pull |-> p,
                   ancestors |-> parents \cup UNION {commits[c].ancestors : c \in parents}])

\* The first push starts from main, a later one may merge main into the branch.
Push(p, tree, update) ==
    /\ pull[p].state # "merged"
    /\ Cardinality({c \in Known : commits[c].pull # None}) < MaxPushes
    /\ NewCommit(tree, IF pull[p].head = None THEN {main}
                       ELSE IF update THEN {pull[p].head, main} ELSE {pull[p].head}, p)
    /\ SetHead(p, Len(commits) + 1)
    /\ UNCHANGED <<main, gate, job, jobs, mishaps, vouched>>

\* Back to an earlier commit of the branch.
ForcePush(p, c) ==
    /\ Opened(p)
    /\ commits[c].pull = p /\ c # pull[p].head
    /\ SetHead(p, c)
    /\ UNCHANGED <<commits, main, gate, job, jobs, mishaps, vouched>>

\* The one admin approves the head of another author's pull request.
Approve(p) ==
    /\ Opened(p) /\ p \notin AdminAuthored
    /\ pull' = [pull EXCEPT ![p].approved = @ \cup {pull[p].head}]
    /\ vouched' = vouched \cup {pull[p].head}
    /\ UNCHANGED <<commits, main, gate, job, jobs, mishaps, bases>>

\* The author writes Owner-Attestation: <head> into the body.
Attest(p) ==
    /\ Opened(p) /\ pull[p].attested # pull[p].head
    /\ pull' = [pull EXCEPT ![p].attested = pull[p].head]
    /\ vouched' = IF p \in AdminAuthored THEN vouched \cup {pull[p].head} ELSE vouched
    /\ UNCHANGED <<commits, main, gate, job, jobs, mishaps, bases>>

\* The ruleset: strict, and both contexts green on the head.
Mergeable(p) ==
    /\ Opened(p)
    /\ Within(main, pull[p].head)
    /\ \A x \in Context : gate[pull[p].head][x].status = "success"

Merge(p) ==
    /\ Mergeable(p)
    /\ NewCommit(TreeOf(pull[p].head), {main, pull[p].head}, None)
    /\ main' = Len(commits) + 1
    /\ pull' = [pull EXCEPT ![p].state = "merged"]
    /\ UNCHANGED <<gate, job, jobs, mishaps, vouched, bases>>

-----------------------------------------------------------------------------
(* The controller job.                                                     *)

At(stage) == job # None /\ job.stage = stage
Aside     == UNCHANGED <<commits, main, pull, jobs, vouched, bases>>

\* Things go wrong MaxMishaps times.
Mishap(wrong) ==
    /\ wrong => mishaps < MaxMishaps
    /\ mishaps' = IF wrong THEN mishaps + 1 ELSE mishaps

\* The event names a commit that was a head of the pull request when CI ran;
\* ok says whether the run and its checks read back as a success.  The run may
\* have lost its pull request, which is then searched by its head.
StartJob(p, c, ok, linked) ==
    /\ job = None /\ jobs < MaxJobs /\ Mishap(~ok \/ ~linked)
    /\ commits[c].pull = p
    /\ LET byHead == {q \in Pull : pull[q].head = c}
       IN  job' = [stage |-> "pull", sha |-> c, ok |-> ok,
                   pull |-> IF linked THEN p
                            ELSE IF Cardinality(byHead) = 1
                            THEN CHOOSE q \in byHead : TRUE ELSE None]
    /\ jobs' = jobs + 1
    /\ UNCHANGED <<commits, main, pull, gate, vouched, bases>>

\* client.pull.  Without a pull request only the trusted gate fails.
ReadPull ==
    /\ At("pull") /\ Mishap(FALSE)
    /\ job' = IF job.pull = None
              THEN [stage |-> "publish", sha |-> job.sha, step |-> 0,
                    passed |-> [governance |-> TRUE, trusted |-> FALSE]]
              ELSE [stage |-> "classify", sha |-> job.sha, ok |-> job.ok, pull |-> job.pull,
                    seen |-> [head |-> pull[job.pull].head, base |-> pull[job.pull].base,
                              attested |-> pull[job.pull].attested]]
    /\ Aside /\ UNCHANGED gate

\* _provider_trust_classification: the base must be an ancestor and differ.
Classification(seen, readable) ==
    IF /\ readable
       /\ Within(seen.base, seen.head)
       /\ Changed(TreeOf(seen.base), TreeOf(seen.head)) # {}
    THEN ClassifyDiff(TreeOf(seen.base), TreeOf(seen.head))
    ELSE "UNVERIFIED"

Required(seen, result) ==
    \/ result \in {"UNVERIFIED", "BLOCK"}
    \/ Protected(TreeOf(seen.base), TreeOf(seen.head)) # {}

\* The branch is read after the trees.
Classify(readable) ==
    /\ At("classify") /\ Mishap(~readable)
    /\ LET result   == Classification(job.seen, readable)
           required == Required(job.seen, result)
           refused  == required /\ (\/ result \in {"UNVERIFIED", "BLOCK"}
                                    \/ main # job.seen.base)
       IN  job' = [stage |-> "authorize", sha |-> job.sha, ok |-> job.ok, pull |-> job.pull,
                   seen |-> job.seen, refused |-> refused,
                   human |-> result = "HUMAN_REQUIRED"]
    /\ Aside /\ UNCHANGED gate

\* Mutant: approving any head of the pull request is enough.
AuthorizedOnce(p, seen, sha) == pull[p].approved # {} \/ p \in AdminAuthored

\* _governance_authorization: an admin's review of the commit, or the author's
\* attestation of it in the body that was read.
Authorized(p, seen, sha) ==
    \/ sha \in pull[p].approved
    \/ seen.attested = sha /\ p \in AdminAuthored

\* Mutant: the pull request may have moved on.
HeadMovedNever(seen, sha) == FALSE

HeadMoved(seen, sha) == seen.head # sha

\* evaluate_trusted_gate: governance looks at the head that was read, the
\* trusted gate also at the run, at the head having moved and at live evidence.
Authorize(evidence) ==
    /\ At("authorize") /\ Mishap(~evidence)
    /\ LET governance == ~job.refused /\ (job.human => Authorized(job.pull, job.seen, job.sha))
           trusted    == governance /\ job.ok /\ evidence /\ ~HeadMoved(job.seen, job.sha)
       IN  job' = [stage |-> "publish", sha |-> job.sha, step |-> 0,
                   passed |-> [governance |-> governance, trusted |-> trusted]]
    /\ Aside /\ UNCHANGED gate

Verdict(x) == IF job.passed[x] THEN "success" ELSE "failure"

\* Mutant: nothing is posted before the verdict.
PostWithoutSentinel(x, k) ==
    CASE k = 0 -> gate[job.sha][x]
      [] k = 1 -> [gate[job.sha][x] EXCEPT !.check = Verdict(x)]
      [] k = 2 -> [gate[job.sha][x] EXCEPT !.status = Verdict(x)]

\* _publish: the sentinel, the check run, the status.
Post(x, k) ==
    CASE k = 0 -> [gate[job.sha][x] EXCEPT !.status = "failure"]
      [] k = 1 -> [gate[job.sha][x] EXCEPT !.check = Verdict(x)]
      [] k = 2 -> [gate[job.sha][x] EXCEPT !.status = Verdict(x)]

\* The governance gate first, then the trusted gate.
Publish ==
    /\ At("publish") /\ Mishap(FALSE)
    /\ LET x == IF job.step < 3 THEN "governance" ELSE "trusted"
       IN  gate' = [gate EXCEPT ![job.sha][x] = Post(x, job.step % 3)]
    /\ job' = IF job.step = 5 THEN None ELSE [job EXCEPT !.step = @ + 1]
    /\ Aside

\* A request fails, or the job is cancelled or times out.
Die ==
    /\ job # None /\ Mishap(TRUE)
    /\ job' = None
    /\ Aside /\ UNCHANGED gate

Next ==
    \/ \E p \in Pull, t \in Trees, update \in BOOLEAN : Push(p, t, update)
    \/ \E p \in Pull, c \in Known : ForcePush(p, c)
    \/ \E p \in Pull : Approve(p) \/ Attest(p) \/ Merge(p)
    \/ \E p \in Pull, c \in Known, ok, linked \in BOOLEAN : StartJob(p, c, ok, linked)
    \/ ReadPull \/ (\E readable \in BOOLEAN : Classify(readable))
    \/ (\E evidence \in BOOLEAN : Authorize(evidence)) \/ Publish \/ Die

Spec == Init /\ [][Next]_vars

-----------------------------------------------------------------------------
TypeOK ==
    /\ main \in Known /\ pull \in [Pull -> Pulls]
    /\ gate \in [Sha -> [Context -> [status : Mark, check : Mark]]]
    /\ vouched \subseteq Known /\ bases \in [Sha -> SUBSET Known]
    /\ jobs \in 0..MaxJobs /\ mishaps \in 0..MaxMishaps

(* TRUST_AND_SELF_AUDIT.md: a protected change reaches main only on the     *)
(* standing authorization that main itself holds at that moment, or when an *)
(* admin has vouched for exactly the commit that is merged; it is never     *)
(* mixed with feature files.  publish_trusted_gate.py decides much earlier, *)
(* from separate readings.                                                  *)
ProtectedMergeAuthorized ==
    [][main' # main =>
        \E p \in Pull :
            LET old == TreeOf(main)
                new == TreeOf(pull[p].head)
            IN  /\ Opened(p) /\ pull'[p].state = "merged"
                /\ Protected(old, new) # {} =>
                      /\ ~Mixed(old, new) /\ old.policy # "INVALID"
                      /\ StandingAuto(old, new) \/ pull[p].head \in vouched]_vars

(* README.md: the gate publishes one decision as a check run and as a       *)
(* commit status, and a failure sentinel keeps it closed when the provider  *)
(* fails in between.  Wherever _publish stops, a status is green only over  *)
(* a green check run.                                                       *)
SentinelFailsClosed ==
    \A c \in Known, x \in Context :
        gate[c][x].status = "success" => gate[c][x].check = "success"

(* ci_executor and the preview readback believe the check runs alone, the   *)
(* ruleset the statuses.  On either transport, two green contexts on a      *)
(* commit mean that it was a head against some tip of main whose policy     *)
(* leaves it to nobody, or for which an admin has vouched for this commit,  *)
(* whatever late evaluations of a moved pull request have posted.           *)
GreenMeansJudged ==
    \A c \in Known :
        \/ \A x \in Context : gate[c][x].check = "success"
        \/ \A x \in Context : gate[c][x].status = "success"
        => \E b \in bases[c] :
               \/ ClassifyDiff(TreeOf(b), TreeOf(c)) = "ALLOW"
               \/ ClassifyDiff(TreeOf(b), TreeOf(c)) = "HUMAN_REQUIRED" /\ c \in vouched
=============================================================================
