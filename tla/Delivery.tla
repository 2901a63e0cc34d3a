------------------------------ MODULE Delivery ------------------------------
(***************************************************************************)
(* The delivery of work through GitHub: claims and trusted operations that *)
(* arrive as comments (delivered any number of times, to any process), the *)
(* executors of durable runs, the agents that push, and people.            *)
(***************************************************************************)
EXTENDS ProviderOps, WorkExecutors

Kinds_ == {"claim", "materialize", "ingest", "reconcile", "unchanged"}

\* A planner posts a request about what it sees at the provider.
Post(kind, w) ==
    /\ Len(comments) < MaxComments
    /\ kind # "claim" => Active(reg) # {} /\ branch[w] # None
    /\ Open(w)
    /\ kind = "claim" => w \notin Supervised
    /\ LET i == CHOOSE k \in Active(reg) : TRUE
           base == IF kind = "claim" THEN main ELSE reg.leases[i].base
       IN  /\ kind # "claim" => reg.leases[i].request = w
           /\ comments' = Append(comments,
                  [kind |-> kind, work |-> w, main |-> main, base |-> base,
                   revision |-> reg.revision,
                   lease |-> IF kind = "claim" THEN 0 ELSE i,
                   seen |-> IF kind = "claim" THEN None ELSE reg.leases[i],
                   head |-> HeadOf(w)])
    /\ UNCHANGED <<main, clock, reg, reconciled, branch, pull, issue, green,
                   answers, run, call>>

-----------------------------------------------------------------------------
\* The agent makes its branch and pushes; nobody asks it for a lease.
MakeBranch(w) ==
    /\ Open(w)
    /\ branch[w] = None
    /\ branch' = [branch EXCEPT ![w] = [base |-> main, commits |-> <<>>]]
    /\ UNCHANGED <<main, clock, reg, reconciled, pull, issue, green, comments,
                   answers, run, call>>

Push(w, kind) ==
    /\ Open(w)
    /\ branch[w] # None
    /\ Len(HeadOf(w)) < MaxCommits
    /\ Pushed(w, Append(HeadOf(w), Commit(kind, 0)))
    /\ UNCHANGED <<main, clock, reg, reconciled, issue, green, comments,
                   answers, run, call>>

\* An agent of hosted work opens its pull request.
OpenByAgent(w) ==
    /\ w \notin Supervised
    /\ ~PullIs(w, "open") /\ HeadOf(w) \notin {None, <<>>}
    /\ pull' = [pull EXCEPT ![w] = Opened(w)]
    /\ UNCHANGED <<main, clock, reg, reconciled, branch, issue, green, comments,
                   answers, run, call>>

\* The required checks of the head of an open pull request succeed.
ChecksSucceed(w) ==
    /\ PullIs(w, "open")
    /\ green' = green \cup {<<w, pull[w].head>>}
    /\ UNCHANGED <<main, clock, reg, reconciled, branch, pull, issue, comments,
                   answers, run, call>>

\* People merge what the protected branch lets them, or push to main.
MergeByHand(w) ==
    /\ main < MaxMain
    /\ w \notin Supervised
    /\ Mergeable(w) /\ <<w, pull[w].head>> \in green
    /\ Merged(w)
    /\ UNCHANGED <<clock, reg, reconciled, branch, issue, green, comments,
                   answers, run, call>>

MoveMain ==
    /\ main < MaxMain
    /\ main' = main + 1
    /\ UNCHANGED <<clock, reg, reconciled, branch, pull, issue, green, comments,
                   answers, run, call>>

Tick ==
    /\ clock < MaxTime
    /\ clock' = clock + 1
    /\ UNCHANGED <<main, reg, reconciled, branch, pull, issue, green, comments,
                   answers, run, call>>

\* A provider call fails, a check refuses, or the process dies.
Fail(p) ==
    /\ ~Idle(p)
    /\ Drop(p)
    /\ UNCHANGED <<provider, answers, run>>

Advance(p) ==
    \/ RecheckWrite(p) \/ UpdateRef(p) \/ ConfirmWrite(p)
    \/ RecheckRelease(p) \/ ReadRelease(p) \/ WriteRelease(p) \/ ConfirmRelease(p)
    \/ HostedClaim(p) \/ ClaimBranch(p) \/ ConfirmClaim(p)
    \/ TickClaim(p) \/ ClaimResult(p)
    \/ Heartbeat(p) \/ OpenPr(p) \/ ReadMerge(p) \/ Merge(p)
    \/ ReadCleanup(p) \/ WriteCleanup(p) \/ RereadCleanup(p) \/ CloseIssue(p)
    \/ Result(p)

Next ==
    \/ \E kind \in Kinds_, w \in Request : Post(kind, w)
    \/ \E p \in Process, n \in DOMAIN comments :
           ExamineWrite(p, n) \/ ExamineRelease(p, n) \/ ExamineClaim(p, n)
    \/ \E p \in Process, w \in Supervised : BeginClaim(p, w) \/ Authority(p, w)
    \/ \E p \in Process : Advance(p)
    \/ \E p \in Process : Fail(p)
    \/ \E w \in Supervised : ExecuteResult(w)
    \/ \E w \in Request, kind \in {"source", "hand", "revert"} : Push(w, kind)
    \/ \E w \in Request : MakeBranch(w) \/ OpenByAgent(w) \/ ChecksSucceed(w) \/ MergeByHand(w)
    \/ MoveMain
    \/ Tick

Spec == Init /\ [][Next]_vars

-----------------------------------------------------------------------------
TypeOK ==
    /\ {main, clock} \subseteq Nat
    /\ reg \in Registry
    /\ \A w \in Request :
           /\ branch[w] # None => branch[w].base \in 0..main
           /\ pull[w] # None => pull[w].state \in {"open", "merged"}
           /\ branch[w] # None => \A i \in DOMAIN branch[w].commits :
                                      branch[w].commits[i].kind \in Kinds
           /\ issue[w] \in {"open", "closed"}
    /\ \A w \in Supervised : run[w].phase \in Phases
    /\ \A p \in Process : ~Idle(p) => call[p].kind \in {"comment", "tick"}

Answered(n) == {a[2] : a \in {b \in answers : b[1] = n}}

(* An answer is true.  PASS and ALREADY_APPLIED are given only for what was  *)
(* really done by this request, however often the comment is delivered and   *)
(* whatever runs beside it: its commit is in the history right on top of the *)
(* head it named, the lease it named is released under its own reference, or *)
(* the worker has its lease (the readbacks and replay checks of the gateways).*)
AnsweredIsDone ==
    \A n \in DOMAIN comments : Answered(n) # {} =>
        LET r == comments[n]
        IN  CASE r.kind \in {"materialize", "ingest"} -> IsPrefix(Asked(r, n), HeadOf(r.work))
              [] r.kind \in {"reconcile", "unchanged"} ->
                     /\ <<r.lease, n>> \in reconciled
                     /\ reg.leases[r.lease].status = "RELEASED"
              [] r.kind = "claim" ->
                     \E i \in DOMAIN reg.leases : reg.leases[i].request = r.work
                                                 /\ reg.leases[i].base = r.main

(* A PASS of a release means that exactly the lease the request described    *)
(* was released: its writer did not renew it between the planner's look and  *)
(* the release (the revision comparison after the append).                   *)
ReleasedAsSeen ==
    \A n \in DOMAIN comments : "PASS" \in Answered(n) =>
        LET r == comments[n]
        IN  r.kind \in {"reconcile", "unchanged"} =>
                reg.leases[r.lease] = [r.seen EXCEPT !.status = "RELEASED"]

(* What the gateway answers is true of the branch, the registry and main.    *)
AnswersAreTrue == AnsweredIsDone /\ ReleasedAsSeen

(* What the materializer writes comes from sources and never hides a hand    *)
(* edit: below every commit of it the projections are the base's or its own, *)
(* and on top of it they are those generated from the sources there          *)
(* (_source_effect_with_verified_materialization_lineage).                   *)
ProjectionsTrusted ==
    \A w \in Request : branch[w] # None =>
        LET h == HeadOf(w)
        IN  \A i \in DOMAIN h : h[i].kind = "materialize" =>
                /\ Projections(Before(h, i)).from # "hand"
                /\ Projections(Upto(h, i)) = Generated(Before(h, i))

(* Main only gets heads whose required checks succeeded, although the branch *)
(* may move between the executor's look at the checks and its merge.         *)
MergedWasChecked ==
    \A w \in Request : PullIs(w, "merged") => <<w, pull[w].head>> \in green

(* An issue is closed only after the lease of its work was released: nobody  *)
(* is left holding the only writer slot for finished work (cleanup_executor).*)
ClosedIsReleased == \A w \in Supervised : issue[w] = "closed" => Own(w) = {}
=============================================================================
