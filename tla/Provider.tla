------------------------------ MODULE Provider ------------------------------
(***************************************************************************)
(* GitHub as the gateways and executors of .adwf/lib see it: the default   *)
(* branch, one source branch, pull request and issue per piece of work,    *)
(* the lease registry and the requests posted as issue comments.           *)
(*                                                                         *)
(* A commit id is the history it stands for: the commits on top of a base. *)
(* The registry of LeaseStore is one value here, read whole and replaced   *)
(* by compare-and-set on its revision, which is what LeaseStore was shown  *)
(* to provide.                                                             *)
(***************************************************************************)
EXTENDS LeaseRegistry, SequencesExt

CONSTANTS Process,      \* workflow runs and supervisors
          Supervised,   \* the work that a durable run drives; the rest is hosted
          Backlogs,     \* sets of work whose issues may be open at the start
          None,
          MaxMain, MaxTime, MaxCommits, MaxComments   \* bounds

ASSUME ProviderAssumption ==
    /\ Supervised \subseteq Request
    /\ Backlogs \subseteq SUBSET Request
    /\ {MaxMain, MaxTime, MaxCommits, MaxComments} \subseteq Nat

VARIABLES
    main,       \* number of the commit at the head of the default branch
    clock,
    reg,        \* the lease registry
    reconciled, \* provider_reconciliation_ref of released leases: <<lease, comment>>
    branch,     \* source branch of a piece of work: None or [base, commits]
    pull,       \* its pull request: None or [state, base, head, merge]; merge is
                \* the commit of the last one merged, 0 if there is none
    issue,      \* its issue: "open" or "closed"
    green,      \* commit ids whose required checks succeeded
    comments,   \* requests, in the order they were posted
    answers,    \* history: the answers given, as <<comment, status>>
    run,        \* durable run of a supervised piece of work
    call        \* what each process is doing

provider == <<main, clock, reg, reconciled, branch, pull, issue, green, comments>>
vars == <<provider, answers, run, call>>

-----------------------------------------------------------------------------
\* Commits: source work, a bounded source ingest, a materialization of the
\* projections, a hand edit of a projection, or its removal by hand.
Kinds == {"source", "ingest", "materialize", "hand", "revert"}
Commit(kind, id) == [kind |-> kind, by |-> id]

\* What stands for no branch is not a branch, and no pull request either.
Commits == [kind : Kinds, by : Nat]
History == Seq(Commits)
ASSUME NoneAssumption ==
    /\ None \notin [base : Nat, commits : History]
    /\ None \notin [state : {"open", "merged"}, base : Nat, head : History \cup {None}, merge : Nat]

\* The tree of a history: how much source it has, and where the projection
\* files come from.
Sources(h) == Cardinality({i \in DOMAIN h : h[i].kind \in {"source", "ingest"}})

Before(h, i) == SubSeq(h, 1, i - 1)
Upto(h, i)   == SubSeq(h, 1, i)

Origin(from, n) == [from |-> from, sources |-> n]
Base == Origin("base", 0)

Projections(h) ==
    LET at == {i \in DOMAIN h : h[i].kind \notin {"source", "ingest"}}
        i  == CHOOSE k \in at : \A m \in at : m <= k
    IN  IF at = {} \/ h[i].kind = "revert" THEN Base
        ELSE IF h[i].kind = "hand" THEN Origin("hand", 0)
        ELSE Origin("generator", Sources(Upto(h, i)))

\* _generate_projections on the source effect of a history.
Generated(h) == Origin("generator", Sources(h))

\* Mutant: projections that drifted are taken as they are.
LineageUnchecked(h) == TRUE

\* _source_effect_with_verified_materialization_lineage: where projections
\* differ from the base, only commits of the materializer may have changed them.
LineageTrusted(h) ==
    Projections(h) # Base =>
        \A i \in DOMAIN h :
            \/ h[i].kind = "materialize"
            \/ Projections(Upto(h, i)) = Projections(Before(h, i))

-----------------------------------------------------------------------------
Leased(i) == i \in DOMAIN reg.leases

\* The lease that is in force is this one, of this work and base.
SoleActive(i, w, base) ==
    /\ Active(reg) = {i}
    /\ reg.leases[i].request = w
    /\ reg.leases[i].base = base

Open(w)   == issue[w] = "open"
HeadOf(w) == IF branch[w] = None THEN None ELSE branch[w].commits
PullIs(w, state) == pull[w] # None /\ pull[w].state = state

\* The ruleset of main wants branches that are up to date.
Mergeable(w) == PullIs(w, "open") /\ branch[w].base = main

\* A branch gets a new head, and its open pull request with it.
Pushed(w, commits) ==
    /\ branch' = [branch EXCEPT ![w].commits = commits]
    /\ pull' = IF PullIs(w, "open") THEN [pull EXCEPT ![w].head = commits] ELSE pull

Idle(p)     == call[p] = None
At(p, stage) == call[p] # None /\ call[p].stage = stage
Goto(p, c)  == call' = [call EXCEPT ![p] = c]
Step(p, stage) == call' = [call EXCEPT ![p].stage = stage]
\* The fields of f, and those of g that f does not have (TLC's @@, spelt out so
\* that the proofs can expand it).
Overlay(f, g) == [x \in DOMAIN f \cup DOMAIN g |-> IF x \in DOMAIN f THEN f[x] ELSE g[x]]
\* The call goes on with what it computed.
Carry(p, stage, f) == Goto(p, Overlay(f, [call[p] EXCEPT !.stage = stage]))
Drop(p)     == call' = [call EXCEPT ![p] = None]

\* The process prints its answer and ends.  Refusals change nothing and are
\* not recorded.
Answer(p, status) ==
    /\ answers' = answers \cup {<<call[p].id, status>>}
    /\ Drop(p)
Refuse(p) == Drop(p) /\ UNCHANGED answers

\* The compare-and-set: a computed registry is written if it still follows the
\* one that is there.
Follows(new) == new.revision = reg.revision + 1

Write(new, lease, id) ==
    /\ reg' = new
    /\ reconciled' = IF id = None THEN reconciled ELSE reconciled \cup {<<lease, id>>}

Init ==
    /\ main = 0
    /\ clock = 0
    /\ reg = EmptyRegistry(0)
    /\ reconciled = {}
    /\ branch = [w \in Request |-> None]
    /\ pull = [w \in Request |-> None]
    /\ \E backlog \in Backlogs :
           issue = [w \in Request |-> IF w \in backlog THEN "open" ELSE "closed"]
    /\ green = {}
    /\ comments = <<>>
    /\ answers = {}
    /\ run = [w \in Supervised |->
                [phase |-> IF Open(w) THEN "CLAIM" ELSE "END", subject |-> None, delivery |-> None]]
    /\ call = [p \in Process |-> None]
=============================================================================
