----------------------------- MODULE ProviderOps -----------------------------
(***************************************************************************)
(* The trusted operations of provider_ops_gateway.py and the source ingest *)
(* of provider_source_ingest_gateway.py, one process per delivery of a     *)
(* comment.  Every operation examines the provider, checks it again,       *)
(* changes one thing by a compare-and-set and reads it back; between any   *)
(* two of these the others act.  Checks of the event, of the actor and of  *)
(* the policy can only refuse, which Fail covers.                          *)
(***************************************************************************)
EXTENDS Provider

Asking(p) == comments[call[p].id]

\* A workflow run is started for a comment: consume_agent_result.py routes it,
\* and it goes on to the recheck of its request.
Begin(p, n, stage) == Goto(p, [kind |-> "comment", id |-> n, stage |-> stage])
Replayed(n) == answers' = answers \cup {<<n, "ALREADY_APPLIED">>}

\* _lease_identity: the lease named by the request, at its revision, fresh.
LeaseHeld(r) ==
    /\ reg.revision = r.revision
    /\ reg.main = r.main
    /\ SoleActive(r.lease, r.work, r.main)
    /\ Fresh(reg.leases[r.lease], clock)

\* The ingest's _lease does not look at the observed main, and accepts a
\* registry that moved on where it reads an outcome.
LeaseKept(r, newer) ==
    /\ IF newer THEN reg.revision >= r.revision ELSE reg.revision = r.revision
    /\ SoleActive(r.lease, r.work, r.main)
    /\ Fresh(reg.leases[r.lease], clock)

\* _live_identity without the head, and _live of the ingest.
LiveWrite(r, newer) ==
    /\ main = r.main
    /\ Open(r.work)
    /\ branch[r.work] # None
    /\ IF r.kind = "ingest"
       THEN LeaseKept(r, newer)
       ELSE /\ PullIs(r.work, "open")
            /\ pull[r.work].base = r.main
            /\ LeaseHeld(r)

\* The commit a request asks for, and that it is there: _verify_replay, _applied.
Asked(r, id) == Append(r.head, Commit(r.kind, id))
Applied(r, id) == HeadOf(r.work) = Asked(r, id)

\* What a materialization is allowed to start from and must change.
Acceptable(r) ==
    r.kind = "materialize" =>
        /\ branch[r.work].base = r.main
        /\ Sources(r.head) > 0
        /\ LineageTrusted(r.head)
        /\ Projections(r.head) # Generated(r.head)

\* Up to the creation of the commit object, which no ref names yet.
ExamineWrite(p, n) ==
    LET r == comments[n]
    IN  /\ Idle(p)
        /\ r.kind \in {"materialize", "ingest"}
        /\ \/ /\ LiveWrite(r, TRUE) /\ Applied(r, n)
              /\ Replayed(n)
              /\ UNCHANGED call
           \/ /\ LiveWrite(r, FALSE) /\ HeadOf(r.work) = r.head /\ Acceptable(r)
              /\ Begin(p, n, "recheck")
              /\ UNCHANGED answers
        /\ UNCHANGED <<provider, run>>

\* The identities are read again, this time with the head of the request.
RecheckWrite(p) ==
    LET r == Asking(p)
    IN  /\ At(p, "recheck")
        /\ r.kind \in {"materialize", "ingest"}
        /\ IF LiveWrite(r, FALSE) /\ HeadOf(r.work) = r.head
           THEN Step(p, "update") ELSE Drop(p)
        /\ UNCHANGED <<provider, answers, run>>

\* update_branch_ref with force false: the provider only moves a ref forward.
UpdateRef(p) ==
    LET r == Asking(p)
    IN  /\ At(p, "update")
        /\ IF IsPrefix(HeadOf(r.work), Asked(r, call[p].id))
           THEN /\ Pushed(r.work, Asked(r, call[p].id))
                /\ Step(p, "confirm")
           ELSE Drop(p) /\ UNCHANGED <<branch, pull>>
        /\ UNCHANGED <<main, clock, reg, reconciled, issue, green, comments,
                       answers, run>>

ConfirmWrite(p) ==
    LET r == Asking(p)
    IN  /\ At(p, "confirm")
        /\ r.kind \in {"materialize", "ingest"}
        /\ IF LiveWrite(r, TRUE) /\ Applied(r, call[p].id)
           THEN Answer(p, "PASS") ELSE Refuse(p)
        /\ UNCHANGED <<provider, run>>

-----------------------------------------------------------------------------
\* _reconcile_pr_identity; a merged pull request accounts for the new main.
PullIdentity(r) ==
    /\ pull[r.work] # None
    /\ pull[r.work].base = r.base
    /\ pull[r.work].head = r.head
    /\ HeadOf(r.work) = r.head
    /\ \/ PullIs(r.work, "open")
       \/ PullIs(r.work, "merged") /\ pull[r.work].merge = r.main /\ r.main = r.base + 1

\* _unchanged_live_identity: nothing was ever pushed.
UnchangedIdentity(r) ==
    /\ HeadOf(r.work) = r.head
    /\ branch[r.work].base = main
    /\ r.head = <<>>
    /\ r.base = main

LiveRelease(r) ==
    /\ main = r.main
    /\ Open(r.work)
    /\ branch[r.work] # None
    /\ IF r.kind = "reconcile" THEN PullIdentity(r) ELSE UnchangedIdentity(r)

\* _reconcile_replay, _unchanged_replay: this request released the lease.
ReleasedBy(r, id) ==
    /\ <<r.lease, id>> \in reconciled
    /\ Leased(r.lease)
    /\ reg.leases[r.lease].status = "RELEASED"
    /\ reg.leases[r.lease].request = r.work
    /\ reg.leases[r.lease].base = r.base
    /\ reg.revision >= r.revision + 1
    /\ reg.main = r.main

\* The rest of _reconcile_live_identity: a fresh lease is kept unless its work
\* was merged; an unchanged branch gives up any lease.
Releasable(r) ==
    /\ reg.revision = r.revision
    /\ reg.main = r.base
    /\ SoleActive(r.lease, r.work, r.base)
    /\ r.kind = "reconcile" =>
           /\ \/ ~Fresh(reg.leases[r.lease], clock)
              \/ PullIs(r.work, "merged") /\ main # r.base
           /\ PullIs(r.work, "merged") \/ main = r.base

ExamineRelease(p, n) ==
    LET r == comments[n]
    IN  /\ Idle(p)
        /\ r.kind \in {"reconcile", "unchanged"}
        /\ LiveRelease(r)
        /\ IF ReleasedBy(r, n) THEN Replayed(n) /\ UNCHANGED call
           ELSE /\ Releasable(r)
                /\ Begin(p, n, "recheck")
                /\ UNCHANGED answers
        /\ UNCHANGED <<provider, run>>

RecheckRelease(p) ==
    LET r == Asking(p)
    IN  /\ At(p, "recheck")
        /\ r.kind \in {"reconcile", "unchanged"}
        /\ IF LiveRelease(r) /\ Releasable(r) THEN Step(p, "read") ELSE Drop(p)
        /\ UNCHANGED <<provider, answers, run>>

\* After an error of release the winner is read back.
ReleaseFailed(p, r) ==
    IF main = r.main /\ ReleasedBy(r, call[p].id)
    THEN Answer(p, "ALREADY_APPLIED") ELSE Refuse(p)

\* GitHubLeaseStore.release reads the registry once more, whatever revision it
\* has by now, and releases the lease its worker holds.
ReadRelease(p) ==
    LET r == Asking(p)
    IN  /\ At(p, "read")
        /\ IF main = r.main /\ OwnsActive(reg, r.lease, r.work)
           THEN /\ Carry(p, "release", [new |-> Released(reg, r.lease, r.main)])
                /\ UNCHANGED answers
           ELSE ReleaseFailed(p, r)
        /\ UNCHANGED <<provider, run>>

WriteRelease(p) ==
    LET r == Asking(p)
    IN  /\ At(p, "release")
        /\ IF main = r.main /\ Follows(call[p].new)
           THEN /\ Write(call[p].new, r.lease, call[p].id)
                /\ Step(p, "confirm") /\ UNCHANGED answers
           ELSE ReleaseFailed(p, r) /\ UNCHANGED <<reg, reconciled>>
        /\ UNCHANGED <<main, clock, branch, pull, issue, green, comments, run>>

\* Mutant: the revision of the release is not compared with the request.
ConfirmReleaseAnyRevision(p) ==
    LET r == Asking(p)
    IN  /\ At(p, "confirm")
        /\ r.kind \in {"reconcile", "unchanged"}
        /\ IF LiveRelease(r) /\ ReleasedBy(r, call[p].id) /\ Active(reg) = {}
           THEN Answer(p, "PASS") ELSE Refuse(p)
        /\ UNCHANGED <<provider, run>>

ConfirmRelease(p) ==
    LET r == Asking(p)
    IN  /\ At(p, "confirm")
        /\ r.kind \in {"reconcile", "unchanged"}
        /\ IF /\ LiveRelease(r)
              /\ ReleasedBy(r, call[p].id)
              /\ call[p].new.revision = r.revision + 1
              /\ reg.revision = call[p].new.revision
              /\ Active(reg) = {}
           THEN Answer(p, "PASS") ELSE Refuse(p)
        /\ UNCHANGED <<provider, run>>
=============================================================================
