---------------------------- MODULE WorkExecutors ----------------------------
(***************************************************************************)
(* Writers: the claim gateway (provider_claim_gateway.py), and the phase   *)
(* executors of action_executors.py behind the durable run of a supervised *)
(* piece of work.  The run's journal is reduced to the phases whose        *)
(* executor touches the provider.  What an executor did at the provider    *)
(* and the journal's record of it are two steps: a tick may die between.   *)
(***************************************************************************)
EXTENDS Provider

Phases == {"CLAIM", "EXECUTE", "OPEN_PR", "MERGE", "CLEANUP", "END"}

\* A result of the phase a call began in moves the run on, unless another
\* supervisor was first.  The envelope's result file is written with it: a death
\* between the two is made up for by the next tick, which finds the file.
Journal(p, to, f) ==
    LET w == call[p].work
    IN  run' = IF run[w].phase # call[p].phase THEN run
               ELSE [run EXCEPT ![w] = [f EXCEPT !.phase = to]]

-----------------------------------------------------------------------------
\* claim_executor on the registry: resume the lease, claim a free registry, or
\* wait.
Resumable(w, base) ==
    \E i \in Active(reg) : SoleActive(i, w, base) /\ Fresh(reg.leases[i], clock)

\* The registry a call computed or saw, and the lease it is about; a claim also
\* says whether it found that lease.
With(new, i) == [new |-> new, lease |-> i]
Claimed(new, i, found) == [new |-> new, lease |-> i, resumed |-> found]

ReadClaim(p, w, base) ==
    /\ At(p, "claim")
    /\ IF main # base THEN Drop(p)
       ELSE IF Resumable(w, base)
       THEN Carry(p, "branch", Claimed(reg, CHOOSE i \in Active(reg) : TRUE, TRUE))
       ELSE IF Active(reg) = {} /\ MayAcquire(reg, w, main, clock)
       THEN Carry(p, "acquire", Claimed(Acquired(reg, w, main, clock), Len(reg.leases) + 1, FALSE))
       ELSE Drop(p)
    /\ UNCHANGED <<provider, answers, run>>

WriteClaim(p, base) ==
    /\ At(p, "acquire")
    /\ IF main = base /\ Follows(call[p].new)
       THEN /\ Write(call[p].new, call[p].lease, None)
            /\ Step(p, "branch")
       ELSE Drop(p) /\ UNCHANGED <<reg, reconciled>>
    /\ UNCHANGED <<main, clock, branch, pull, issue, green, comments, answers, run>>

-----------------------------------------------------------------------------
\* process_issue_comment_claim up to the executor: a claim whose lease was
\* released, or was taken on another main, is not repeated.
ExamineClaim(p, n) ==
    LET r == comments[n]
    IN  /\ Idle(p)
        /\ r.kind = "claim"
        /\ main = r.main
        /\ Open(r.work)
        /\ \A i \in DOMAIN reg.leases : reg.leases[i].request = r.work =>
               reg.leases[i].status = "ACTIVE" /\ reg.leases[i].base = r.main
        /\ Goto(p, [kind |-> "comment", id |-> n, stage |-> "claim"])
        /\ UNCHANGED <<provider, answers, run>>

HostedClaim(p) ==
    /\ call[p] # None /\ call[p].kind = "comment" /\ comments[call[p].id].kind = "claim"
    /\ LET r == comments[call[p].id]
       IN  ReadClaim(p, r.work, r.main) \/ WriteClaim(p, r.main)

\* The source branch is created at main, or must be there.
ClaimBranch(p) ==
    LET r == comments[call[p].id]
    IN  /\ At(p, "branch")
        /\ call[p].kind = "comment"
        /\ branch' = IF branch[r.work] # None THEN branch
                     ELSE [branch EXCEPT ![r.work] = [base |-> r.main, commits |-> <<>>]]
        /\ IF branch[r.work] = None \/ branch[r.work] = [base |-> r.main, commits |-> <<>>]
           THEN Step(p, "confirm") ELSE Drop(p)
        /\ UNCHANGED <<main, clock, reg, reconciled, pull, issue, green, comments,
                       answers, run>>

\* The readback of the lease, of main and of the issue.
ConfirmClaim(p) ==
    LET r == comments[call[p].id]
    IN  /\ At(p, "confirm")
        /\ r.kind = "claim"
        /\ IF /\ reg = call[p].new
              /\ reg.leases[call[p].lease].status = "ACTIVE"
              /\ main = r.main
              /\ Open(r.work)
           THEN Answer(p, IF call[p].resumed THEN "ALREADY_APPLIED" ELSE "PASS")
           ELSE Refuse(p)
        /\ UNCHANGED <<provider, run>>

-----------------------------------------------------------------------------
\* RuntimeSupervisor.tick of a run.
Begun(w, stage) == [kind |-> "tick", work |-> w, phase |-> run[w].phase, base |-> main,
                    stage |-> stage]

\* The tick goes on, and needs no registry any more.
Proceed(p, stage) ==
    LET c == call[p]
    IN  Goto(p, [kind |-> "tick", work |-> c.work, phase |-> c.phase, base |-> c.base,
                 stage |-> stage])

\* RECONCILE made the main it saw the subject of the claim.
BeginClaim(p, w) ==
    /\ Idle(p)
    /\ run[w].phase = "CLAIM"
    /\ Goto(p, Begun(w, "claim"))
    /\ UNCHANGED <<provider, answers, run>>

Ticking(p) == call[p] # None /\ call[p].kind = "tick"

TickClaim(p) ==
    /\ Ticking(p)
    /\ ReadClaim(p, call[p].work, call[p].base) \/ WriteClaim(p, call[p].base)

ClaimResult(p) ==
    /\ Ticking(p) /\ At(p, "branch")
    /\ Journal(p, "EXECUTE", run[call[p].work])
    /\ Drop(p)
    /\ UNCHANGED <<provider, answers>>

\* The agent's result names the head of the branch it pushed.
ExecuteResult(w) ==
    /\ run[w].phase = "EXECUTE"
    /\ branch[w] # None
    /\ run' = [run EXCEPT ![w].phase = "OPEN_PR", ![w].subject = HeadOf(w)]
    /\ UNCHANGED <<provider, answers, call>>

\* The leases of the run's own work that are in force.
Own(w) == {i \in Active(reg) : reg.leases[i].request = w}

\* _require_live_writer_authority: the own lease is in force and fresh; main
\* is the delivered commit after the merge and the lease's base before it.
Authorized(w, phase) ==
    \E i \in Own(w) :
        /\ Fresh(reg.leases[i], clock)
        /\ IF phase = "CLEANUP"
           THEN main = run[w].delivery
           ELSE reg.main = main /\ reg.leases[i].base = main

\* Half the heartbeat interval has passed.
BeatDue(w) == \E i \in Own(w) : 2 * (clock - reg.leases[i].beat) >= HeartbeatTimeout

Authority(p, w) ==
    LET i == CHOOSE k \in Own(w) : TRUE
    IN  /\ Idle(p)
        /\ run[w].phase \in {"OPEN_PR", "MERGE", "CLEANUP"}
        /\ Authorized(w, run[w].phase)
        /\ IF run[w].phase # "CLEANUP" /\ BeatDue(w)
           THEN Goto(p, Overlay(With(Renewed(reg, i, main, clock), i), Begun(w, "heartbeat")))
           ELSE Goto(p, Begun(w, "execute"))
        /\ UNCHANGED <<provider, answers, run>>

Heartbeat(p) ==
    /\ At(p, "heartbeat")
    /\ IF Follows(call[p].new) /\ main = call[p].new.main
       THEN Write(call[p].new, call[p].lease, None) /\ Proceed(p, "execute")
       ELSE Drop(p) /\ UNCHANGED <<reg, reconciled>>
    /\ UNCHANGED <<main, clock, branch, pull, issue, green, comments, answers, run>>

\* A pull request of the branch; merge stays the commit of the last one merged.
Opened(w) == [state |-> "open", base |-> main, head |-> HeadOf(w),
              merge |-> IF pull[w] = None THEN 0 ELSE pull[w].merge]

\* open_pr_executor: the pull request of the subject, created if there is none.
OpenPr(p) ==
    LET w == call[p].work
    IN  /\ At(p, "execute") /\ call[p].phase = "OPEN_PR"
        /\ IF PullIs(w, "open") /\ pull[w].head = run[w].subject
           THEN UNCHANGED pull /\ Step(p, "result")
           ELSE IF ~PullIs(w, "open") /\ HeadOf(w) # <<>>
           THEN pull' = [pull EXCEPT ![w] = Opened(w)] /\ Step(p, "result")
           ELSE UNCHANGED pull /\ Drop(p)
        /\ UNCHANGED <<main, clock, reg, reconciled, branch, issue, green, comments,
                       answers, run>>

\* merge_executor reads the pull request and the checks of the subject.
ReadMerge(p) ==
    LET w == call[p].work
    IN  /\ At(p, "execute") /\ call[p].phase = "MERGE"
        /\ IF PullIs(w, "open") /\ pull[w].head = run[w].subject /\ <<w, run[w].subject>> \in green
           THEN Step(p, "merge") ELSE Drop(p)
        /\ UNCHANGED <<provider, answers, run>>

\* A squash merge: main gets one commit whose parent is the main before.
Merged(w) ==
    /\ main' = main + 1
    /\ pull' = [pull EXCEPT ![w].state = "merged", ![w].merge = main + 1]

\* Mutant: merge_pull is called without the commit it is about.
MergeAnyHead(p) ==
    /\ At(p, "merge")
    /\ IF Mergeable(call[p].work)
       THEN Merged(call[p].work) /\ Carry(p, "result", [merge |-> main + 1])
       ELSE UNCHANGED <<main, pull>> /\ Drop(p)
    /\ UNCHANGED <<clock, reg, reconciled, branch, issue, green, comments, answers, run>>

\* merge_pull with sha: the provider merges exactly that head or nothing.
Merge(p) ==
    LET w == call[p].work
    IN  /\ At(p, "merge")
        /\ IF Mergeable(w) /\ pull[w].head = run[w].subject
           THEN Merged(w) /\ Carry(p, "result", [merge |-> main + 1])
           ELSE UNCHANGED <<main, pull>> /\ Drop(p)
        /\ UNCHANGED <<clock, reg, reconciled, branch, issue, green, comments, answers, run>>

\* cleanup_executor: release the lease of the delivered work (its reference is
\* a commit, not a comment: 0), read the registry again, close the issue.  A call
\* that dies in between leaves the rest undone.
ReadCleanup(p) ==
    LET w == call[p].work
        i == CHOOSE k \in Own(w) : TRUE
    IN  /\ At(p, "execute") /\ call[p].phase = "CLEANUP"
        /\ IF main = run[w].delivery /\ Own(w) # {}
           THEN Carry(p, "cleanup", With(Released(reg, i, main), i))
           ELSE Drop(p)
        /\ UNCHANGED <<provider, answers, run>>

WriteCleanup(p) ==
    /\ At(p, "cleanup")
    /\ IF Follows(call[p].new) /\ main = call[p].new.main
       THEN Write(call[p].new, call[p].lease, 0) /\ Step(p, "close")
       ELSE Drop(p) /\ UNCHANGED <<reg, reconciled>>
    /\ UNCHANGED <<main, clock, branch, pull, issue, green, comments, answers, run>>

RereadCleanup(p) ==
    /\ At(p, "close")
    /\ IF main = call[p].new.main /\ reg.leases[call[p].lease].status = "RELEASED"
       THEN Proceed(p, "closing") ELSE Drop(p)
    /\ UNCHANGED <<provider, answers, run>>

Closed(w) == issue' = [issue EXCEPT ![w] = "closed"]

\* Mutant: the issue is closed before the lease is looked at.
CloseIssueFirst(p) ==
    /\ At(p, "cleanup") \/ At(p, "closing")
    /\ Closed(call[p].work)
    /\ Step(p, "result")
    /\ UNCHANGED <<main, clock, reg, reconciled, branch, pull, green, comments, answers, run>>

CloseIssue(p) ==
    /\ At(p, "closing")
    /\ Closed(call[p].work)
    /\ Step(p, "result")
    /\ UNCHANGED <<main, clock, reg, reconciled, branch, pull, green, comments, answers, run>>

-----------------------------------------------------------------------------
\* The supervisor records what the executor did; MERGE names the delivered commit.
NextPhase(phase) == CASE phase = "OPEN_PR" -> "MERGE" [] phase = "MERGE" -> "CLEANUP" [] OTHER -> "END"

Result(p) ==
    LET c == call[p]
    IN  /\ At(p, "result")
        /\ Journal(p, NextPhase(c.phase),
                   IF c.phase = "MERGE" THEN [run[c.work] EXCEPT !.delivery = c.merge]
                   ELSE run[c.work])
        /\ Drop(p)
        /\ UNCHANGED <<provider, answers>>
=============================================================================
