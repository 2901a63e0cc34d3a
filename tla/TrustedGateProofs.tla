-------------------------- MODULE TrustedGateProofs --------------------------
(***************************************************************************)
(* Proofs about TrustedGate for any number of pull requests, commits, jobs *)
(* and mishaps.  Two facts carry the argument: a trusted gate is green     *)
(* only on a commit that was judged against a tip of main it contains, and *)
(* a commit contains at most one of the tips it was ever a head against.   *)
(***************************************************************************)
EXTENDS TrustedGate, FiniteSetTheorems, TLAPS

-----------------------------------------------------------------------------
(* The history of commits.                                                  *)

Commit == [tree : Tree, ancestors : SUBSET Nat, pull : Pull \cup {None}]

ByAuthors == {c \in Known : commits[c].pull # None}
Merged    == {p \in Pull : pull[p].state = "merged"}

\* Commits are counted by the pushes and the merges, so each has a number in Sha.
Counted ==
    /\ commits \in Seq(Commit)
    /\ Cardinality(ByAuthors) <= MaxPushes
    /\ Len(commits) = 1 + Cardinality(ByAuthors) + Cardinality(Merged)

Shape ==
    /\ Counted
    /\ TypeOK

\* Nothing is known of a commit before it exists.
Untouched == \A c \in Sha \ Known : gate[c] = NewGate /\ bases[c] = {}

\* A tip of main that a commit may contain is the present one, or main has passed
\* the commit.
TipsInOrder ==
    /\ \A c \in Known : commits[c].ancestors \subseteq 1..(c - 1)
    /\ \A c \in Known : \A b \in bases[c] :
           b \in Known /\ (b <= c => main = b \/ main > c)

\* What a pull request records of its head and of those who vouched for it.
PullsOK ==
    \A p \in Pull :
        /\ pull[p].state # "new" => pull[p].head # None
        /\ pull[p].head # None => pull[p].head \in Known /\ pull[p].base \in bases[pull[p].head]
        /\ pull[p].approved \subseteq vouched
        /\ pull[p].attested # None /\ p \in AdminAuthored => pull[p].attested \in vouched

-----------------------------------------------------------------------------
(* What was judged.                                                         *)

\* Commit c contains b, and the policy of b leaves the change to nobody, or to an admin.
FreeOn(b, c)  == Within(b, c) /\ ClassifyDiff(TreeOf(b), TreeOf(c)) = "ALLOW"
OwnedOn(b, c) == Within(b, c) /\ ClassifyDiff(TreeOf(b), TreeOf(c)) = "HUMAN_REQUIRED"

Judged(c) == \E b \in bases[c] : FreeOn(b, c) \/ (OwnedOn(b, c) /\ c \in vouched)

SeenOK(j) ==
    /\ j.pull \in Pull
    /\ j.seen.head # None => j.seen.head \in Known /\ j.seen.base \in bases[j.seen.head]
    /\ j.seen.attested # None /\ j.pull \in AdminAuthored => j.seen.attested \in vouched

\* The context a publishing job is at, and what it has posted there.
Current(j) == IF j.step < 3 THEN "governance" ELSE "trusted"
PostedOK(j) ==
    LET g == gate[j.sha][Current(j)]
    IN  /\ j.step % 3 # 0 => g.status # "success"
        /\ j.step % 3 = 2 => g.check = IF j.passed[Current(j)] THEN "success" ELSE "failure"

JobOK ==
    job # None =>
        /\ job.sha \in Known
        /\ job.stage \in {"pull", "classify", "authorize", "publish"}
        /\ job.stage = "pull" => job.pull \in Pull \cup {None}
        /\ job.stage \in {"classify", "authorize"} => SeenOK(job)
        /\ job.stage = "authorize" /\ ~job.refused /\ job.seen.head = job.sha =>
               \/ FreeOn(job.seen.base, job.sha)
               \/ (OwnedOn(job.seen.base, job.sha) /\ job.human)
        /\ job.stage = "publish" => /\ job.step \in 0..5
                                    /\ PostedOK(job)
                                    /\ job.passed["trusted"] => Judged(job.sha)

GateOK ==
    \A c \in Known :
        /\ \A x \in Context : gate[c][x].status = "success" => gate[c][x].check = "success"
        /\ gate[c]["trusted"].check = "success" => Judged(c)

IndInv == Shape /\ Untouched /\ TipsInOrder /\ PullsOK /\ JobOK /\ GateOK
-----------------------------------------------------------------------------
(* Commits.                                                                 *)

LEMMA CountedFacts ==
    ASSUME Counted
    PROVE  /\ Len(commits) \in Nat /\ Known = 1..Len(commits)
           /\ \A c \in Known : commits[c] \in Commit
           /\ IsFiniteSet(ByAuthors) /\ Cardinality(ByAuthors) \in Nat
           /\ IsFiniteSet(Merged) /\ Cardinality(Merged) \in Nat
           /\ Known \subseteq Sha
<1>1. Len(commits) \in Nat /\ Known = 1..Len(commits) /\ \A c \in Known : commits[c] \in Commit
  BY DEF Counted, Known
<1>2. ByAuthors \in SUBSET (1..Len(commits)) /\ Merged \in SUBSET Pull
  BY <1>1 DEF ByAuthors, Merged
<1>3. IsFiniteSet(1..Len(commits))
  BY <1>1, FS_Interval
<1>4. IsFiniteSet(ByAuthors) /\ Cardinality(ByAuthors) \in Nat
  BY <1>2, <1>3, FS_Subset, FS_CardinalityType
<1>5. /\ IsFiniteSet(Merged) /\ Cardinality(Merged) \in Nat
      /\ Cardinality(Merged) <= Cardinality(Pull) /\ Cardinality(Pull) \in Nat
  BY <1>2, FS_Subset, FS_CardinalityType, GateAssumption
<1>6. Len(commits) <= 1 + MaxPushes + Cardinality(Pull)
  BY <1>1, <1>4, <1>5, GateAssumption DEF Counted
<1>7. QED
  BY <1>1, <1>4, <1>5, <1>6, GateAssumption DEF Sha

LEMMA KnownInSha == Counted => Known \subseteq Sha
  BY CountedFacts

LEMMA KnownNext == Counted' => (Known \subseteq Sha)'
  BY KnownInSha, PTL

LEMMA NoneUnknown == Counted => None \notin Known
<1>1. SUFFICES ASSUME Counted PROVE None \notin Known
  OBVIOUS
<1>2. Known = 1..Len(commits) /\ Len(commits) \in Nat
  BY <1>1, CountedFacts
<1>3. \A c \in Known : c \in Nat
  BY <1>2
<1>4. QED
  BY <1>3, GateAssumption

\* What a new commit adds.
LEMMA NewCommitFacts ==
    ASSUME Counted, TipsInOrder, NEW tree \in Tree, NEW parents \in SUBSET Known,
           NEW p \in Pull \cup {None}, NewCommit(tree, parents, p)
    PROVE  LET n == Len(commits) + 1
           IN  /\ n \notin Known /\ Known' = Known \cup {n} /\ n \in Nat /\ Len(commits') = n
               /\ \A c \in Known : c < n /\ commits'[c] = commits[c]
               /\ commits' \in Seq(Commit)
               /\ commits'[n].ancestors \subseteq 1..(n - 1)
               /\ ByAuthors' = IF p = None THEN ByAuthors ELSE ByAuthors \cup {n}
<1> DEFINE n == Len(commits) + 1
           ancestors == parents \cup UNION {commits[c].ancestors : c \in parents}
           new == [tree |-> tree, pull |-> p, ancestors |-> ancestors]
<1>1. /\ Len(commits) \in Nat /\ Known = 1..Len(commits) /\ commits \in Seq(Commit)
      /\ \A c \in Known : commits[c] \in Commit
  BY CountedFacts DEF Counted
<1>2. ancestors \subseteq 1..Len(commits)
  <2>1. SUFFICES ASSUME NEW a \in ancestors PROVE a \in 1..Len(commits)
    OBVIOUS
  <2>2. CASE a \in parents
    BY <1>1, <2>2
  <2>3. ASSUME NEW c \in parents, a \in commits[c].ancestors PROVE a \in 1..Len(commits)
    <3>1. a \in 1..(c - 1) /\ c \in 1..Len(commits)
      BY <1>1, <2>3 DEF TipsInOrder
    <3>2. QED
      BY <1>1, <3>1
  <2>4. QED
    BY <2>1, <2>2, <2>3
<1>3. new \in Commit /\ new.pull = p /\ new.ancestors = ancestors
  BY <1>2 DEF Commit
<1>4. commits' = Append(commits, new)
  BY DEF NewCommit
<1> HIDE DEF new, ancestors
<1>5. /\ commits' \in Seq(Commit) /\ Len(commits') = n /\ Known' = 1..n
      /\ commits'[n] = new /\ \A c \in 1..Len(commits) : commits'[c] = commits[c]
  BY <1>1, <1>3, <1>4 DEF Known
<1>6. /\ n \notin Known /\ Known' = Known \cup {n} /\ n \in Nat /\ n - 1 = Len(commits)
      /\ \A c \in Known : c < n /\ commits'[c] = commits[c]
  BY <1>1, <1>5
<1>7. ByAuthors' = IF p = None THEN ByAuthors ELSE ByAuthors \cup {n}
  <2>1. ByAuthors' = {c \in Known \cup {n} : commits'[c].pull # None}
    BY <1>6 DEF ByAuthors
  <2>2. QED
    BY <2>1, <1>3, <1>5, <1>6 DEF ByAuthors
<1>8. commits'[n].ancestors \subseteq 1..(n - 1)
  BY <1>2, <1>3, <1>5, <1>6
<1> HIDE DEF n
<1>9. QED
  BY <1>5, <1>6, <1>7, <1>8 DEF n

\* What is never taken back.
Grows ==
    /\ \A c \in Known : c \in Known' /\ commits'[c] = commits[c] /\ bases[c] \subseteq bases'[c]
    /\ vouched \subseteq vouched'

LEMMA SameJudgement ==
    ASSUME Grows, NEW b \in Known, NEW c \in Known
    PROVE  (FreeOn(b, c)' <=> FreeOn(b, c)) /\ (OwnedOn(b, c)' <=> OwnedOn(b, c))
<1>1. TreeOf(b)' = TreeOf(b) /\ TreeOf(c)' = TreeOf(c)
  BY DEF Grows, TreeOf
<1>2. Within(b, c)' <=> Within(b, c)
  BY DEF Grows, Within
<1>3. QED
  BY <1>1, <1>2 DEF FreeOn, OwnedOn

LEMMA JudgedGrows ==
    ASSUME Grows, TipsInOrder, NEW c \in Known, Judged(c)
    PROVE  Judged(c)'
<1>1. PICK b \in bases[c] : FreeOn(b, c) \/ (OwnedOn(b, c) /\ c \in vouched)
  BY DEF Judged
<1>2. b \in Known /\ b \in bases'[c] /\ (c \in vouched => c \in vouched')
  BY DEF TipsInOrder, Grows
<1>3. FreeOn(b, c)' \/ (OwnedOn(b, c)' /\ c \in vouched')
  BY <1>1, <1>2, SameJudgement
<1>4. QED
  BY <1>2, <1>3 DEF Judged

\* A step of authors, admins or the provider leaves the gate and the job as sound as
\* they were.
LEMMA OthersStep ==
    ASSUME IndInv, Grows, Counted', UNCHANGED <<gate, job>>
    PROVE  JobOK' /\ GateOK'
<1>1. \A c \in Known : c \in Known' /\ (Judged(c) => Judged(c)')
  BY JudgedGrows DEF IndInv, Grows
<1>2. JobOK'
  <2>1. CASE job = None
    BY <2>1 DEF JobOK
  <2>2. CASE job # None
    <3>1. job.sha \in Known
      BY <2>2 DEF IndInv, JobOK
    <3>2. ASSUME SeenOK(job) PROVE SeenOK(job)'
      BY <3>2 DEF SeenOK, Grows
    <3>3. ASSUME job.stage = "authorize", ~job.refused, job.seen.head = job.sha
          PROVE  \/ FreeOn(job.seen.base, job.sha)'
                 \/ (OwnedOn(job.seen.base, job.sha)' /\ job.human)
      <4>1. /\ FreeOn(job.seen.base, job.sha) \/ (OwnedOn(job.seen.base, job.sha) /\ job.human)
            /\ SeenOK(job)
        BY <2>2, <3>3 DEF IndInv, JobOK
      <4>2. job.sha # None
        BY <3>1, NoneUnknown DEF IndInv, Shape
      <4>3. job.seen.base \in Known
        BY <3>1, <3>3, <4>1, <4>2 DEF SeenOK, IndInv, TipsInOrder
      <4>4. PICK b \in Known, c \in Known : b = job.seen.base /\ c = job.sha
        BY <3>1, <4>3
      <4>5. FreeOn(b, c)' \/ (OwnedOn(b, c)' /\ job.human)
        BY <4>1, <4>4, SameJudgement
      <4>6. b = job'.seen.base /\ c = job'.sha
        BY <4>4
      <4>7. QED
        BY <4>5, <4>6
    <3>4. PostedOK(job)' <=> PostedOK(job)
      BY DEF PostedOK, Current
    <3>5. QED
      BY <1>1, <2>2, <3>1, <3>2, <3>3, <3>4 DEF IndInv, JobOK
  <2>3. QED
    BY <2>1, <2>2
<1>3. GateOK'
  <2>1. SUFFICES ASSUME NEW c \in Known'
                 PROVE  /\ \A x \in Context : gate[c][x].status = "success"
                                                  => gate[c][x].check = "success"
                        /\ gate[c]["trusted"].check = "success" => Judged(c)'
    BY DEF GateOK
  <2>2. CASE c \in Known
    BY <1>1, <2>2 DEF IndInv, GateOK
  <2>3. CASE c \notin Known
    <3>1. c \in Sha
      BY KnownNext
    <3>2. gate[c] = NewGate
      BY <2>3, <3>1 DEF IndInv, Untouched
    <3>3. QED
      BY <3>2 DEF NewGate, Context
  <2>4. QED
    BY <2>2, <2>3
<1>4. QED
  BY <1>2, <1>3

-----------------------------------------------------------------------------
(* The initial state.                                                       *)

LEMMA InitIndInv == Init => IndInv
<1> SUFFICES ASSUME Init PROVE IndInv
  OBVIOUS
<1> DEFINE root  == [tree |-> Root, ancestors |-> {}, pull |-> None]
           fresh == [state |-> "new", head |-> None, base |-> None,
                     attested |-> None, approved |-> {}]
<1>1. /\ root \in Commit /\ root.ancestors = {} /\ root.pull = None
  BY GateAssumption DEF Commit
<1>2. /\ fresh \in Pulls /\ fresh.state = "new" /\ fresh.head = None
      /\ fresh.attested = None /\ fresh.approved = {}
  BY DEF Pulls
<1>3. commits = <<root>>
  BY DEF Init
<1>4. pull = [p \in Pull |-> fresh]
  BY DEF Init
<1>5. /\ main = 1 /\ job = None /\ jobs = 0 /\ mishaps = 0 /\ vouched = {}
      /\ gate = [c \in Sha |-> NewGate] /\ bases = [c \in Sha |-> {}]
  BY DEF Init
<1> HIDE DEF root, fresh, Init
<1>6. /\ Known = {1} /\ commits[1] = root /\ commits \in Seq(Commit) /\ Len(commits) = 1
  BY <1>1, <1>3 DEF Known
<1>7. ByAuthors = {} /\ Merged = {}
  <2>1. ByAuthors = {}
    BY <1>1, <1>6 DEF ByAuthors
  <2>2. \A p \in Pull : pull[p].state = "new"
    BY <1>2, <1>4
  <2>3. QED
    BY <2>1, <2>2 DEF Merged
<1>8. Counted
  <2>1. Cardinality({}) = 0
    BY FS_EmptySet
  <2>2. QED
    BY <2>1, <1>6, <1>7, GateAssumption DEF Counted
<1>9. NewGate \in [Context -> [status : Mark, check : Mark]]
      /\ \A x \in Context : NewGate[x].status = "none" /\ NewGate[x].check = "none"
  BY DEF NewGate, Mark
<1>10. TypeOK
  <2>1. main \in Known /\ vouched \subseteq Known
        /\ jobs \in 0..MaxJobs /\ mishaps \in 0..MaxMishaps
    BY <1>5, <1>6, GateAssumption
  <2>2. pull \in [Pull -> Pulls]
    BY <1>2, <1>4
  <2>3. gate \in [Sha -> [Context -> [status : Mark, check : Mark]]]
        /\ bases \in [Sha -> SUBSET Known]
    BY <1>5, <1>9
  <2>4. QED
    BY <2>1, <2>2, <2>3 DEF TypeOK
<1>11. 1 \in Sha
  BY <1>6, <1>8, KnownInSha
<1>12. Untouched /\ TipsInOrder /\ JobOK
  BY <1>1, <1>5, <1>6, <1>11 DEF Untouched, TipsInOrder, JobOK
<1>13. PullsOK
  BY <1>2, <1>4 DEF PullsOK
<1>14. GateOK
  BY <1>5, <1>6, <1>9, <1>11 DEF GateOK, Context
<1>15. QED
  BY <1>8, <1>10, <1>12, <1>13, <1>14 DEF IndInv, Shape

-----------------------------------------------------------------------------
(* Authors, admins and the provider.                                        *)

\* A head that is set is a commit, and is recorded against the present main.
LEMMA HeadStep ==
    ASSUME IndInv, NEW p \in Pull, NEW c \in Known', SetHead(p, c), Counted',
           \A d \in Known : d \in Known' /\ commits'[d] = commits[d],
           \A d \in Known' : commits'[d].ancestors \subseteq 1..(d - 1),
           UNCHANGED <<main, gate, jobs, mishaps, vouched>>
    PROVE  Shape' /\ Untouched' /\ TipsInOrder' /\ PullsOK' /\ Grows
<1>1. /\ Known' \subseteq Sha /\ c \in Sha /\ main \in Known /\ main \in Sha
      /\ pull \in [Pull -> Pulls] /\ bases \in [Sha -> SUBSET Known]
  BY KnownNext DEF IndInv, Shape, TypeOK
<1>2. bases' = [bases EXCEPT ![c] = @ \cup {main}]
  BY DEF SetHead
<1>3. /\ bases' \in [Sha -> SUBSET Known']
      /\ \A d \in Sha : d # c => bases'[d] = bases[d]
      /\ bases'[c] = bases[c] \cup {main}
  BY <1>1, <1>2
<1>4. /\ pull' \in [Pull -> Pulls]
      /\ \A q \in Pull : q # p => pull'[q] = pull[q]
      /\ pull'[p].head = c /\ pull'[p].base = main /\ pull'[p].approved = {}
      /\ pull'[p].attested = pull[p].attested
  <2> DEFINE new == [pull[p] EXCEPT !.state = "open", !.head = c, !.base = main,
                                    !.approved = {}]
  <2>1. pull' = [pull EXCEPT ![p] = new]
    BY <1>1 DEF SetHead
  <2>2. /\ new \in Pulls /\ new.head = c /\ new.base = main /\ new.approved = {}
        /\ new.attested = pull[p].attested
    <3>1. pull[p] \in Pulls
      BY <1>1
    <3>2. QED
      BY <1>1, <3>1 DEF Pulls
  <2> HIDE DEF new
  <2>3. QED
    BY <1>1, <2>1, <2>2
<1>5. Shape'
  BY <1>1, <1>3, <1>4 DEF IndInv, Shape, TypeOK
<1>6. Untouched'
  BY <1>3 DEF IndInv, Untouched
<1>7. Grows
  BY <1>1, <1>3 DEF Grows
<1>8. TipsInOrder'
  <2>1. ASSUME NEW d \in Known', NEW b \in bases'[d], b <= d
        PROVE  b \in Known' /\ (main = b \/ main > d)
    <3>1. CASE b = main
      BY <1>1, <3>1
    <3>2. CASE b # main
      <4>1. b \in bases[d]
        BY <1>1, <1>3, <3>2
      <4>2. d \in Known
        BY <1>1, <4>1 DEF IndInv, Untouched
      <4>3. QED
        BY <2>1, <4>1, <4>2 DEF IndInv, TipsInOrder
    <3>3. QED
      BY <3>1, <3>2
  <2>2. \A d \in Known' : \A b \in bases'[d] : b \in Known'
    BY <1>1, <1>3
  <2>3. QED
    BY <2>1, <2>2 DEF TipsInOrder
<1>9. PullsOK'
  <2>1. SUFFICES ASSUME NEW q \in Pull
                 PROVE  /\ pull'[q].state # "new" => pull'[q].head # None
                        /\ pull'[q].head # None => /\ pull'[q].head \in Known'
                                                   /\ pull'[q].base \in bases'[pull'[q].head]
                        /\ pull'[q].approved \subseteq vouched'
                        /\ pull'[q].attested # None /\ q \in AdminAuthored
                               => pull'[q].attested \in vouched'
    BY DEF PullsOK
  <2>2. CASE q = p
    <3>1. (None \notin Known)'
      <4>1. Counted' => (None \notin Known)'
        BY NoneUnknown, PTL
      <4>2. QED
        BY <4>1
    <3>2. QED
      BY <1>3, <1>4, <2>2, <3>1 DEF IndInv, PullsOK
  <2>3. CASE q # p
    BY <1>1, <1>3, <1>4, <2>3, <1>7 DEF IndInv, PullsOK, Grows
  <2>4. QED
    BY <2>2, <2>3
<1>10. QED
  BY <1>5, <1>6, <1>7, <1>8, <1>9

LEMMA PushStep ==
    ASSUME IndInv, NEW p \in Pull, NEW tree \in Trees, NEW update \in BOOLEAN,
           Push(p, tree, update)
    PROVE  IndInv'
<1> DEFINE n == Len(commits) + 1
           parents == IF pull[p].head = None THEN {main}
                      ELSE IF update THEN {pull[p].head, main} ELSE {pull[p].head}
<1>1. /\ Counted /\ TipsInOrder /\ tree \in Tree /\ parents \in SUBSET Known
      /\ p \in Pull \cup {None} /\ p # None
  BY GateAssumption DEF IndInv, Shape, TypeOK, PullsOK
<1>2. /\ NewCommit(tree, parents, p) /\ SetHead(p, n)
      /\ pull[p].state # "merged" /\ Cardinality(ByAuthors) < MaxPushes
      /\ UNCHANGED <<main, gate, job, jobs, mishaps, vouched>>
  BY DEF Push, ByAuthors
<1> HIDE DEF parents
<1>3. /\ n \notin Known /\ Known' = Known \cup {n} /\ n \in Nat /\ Len(commits') = n
      /\ \A c \in Known : c < n /\ commits'[c] = commits[c]
      /\ commits' \in Seq(Commit)
      /\ commits'[n].ancestors \subseteq 1..(n - 1)
      /\ ByAuthors' = ByAuthors \cup {n}
  BY <1>1, <1>2, NewCommitFacts
<1> HIDE DEF n
<1>4. Merged' = Merged
  <2>1. pull \in [Pull -> Pulls]
    BY DEF IndInv, Shape, TypeOK
  <2>2. /\ DOMAIN pull' = Pull /\ \A q \in Pull : q # p => pull'[q] = pull[q]
        /\ pull'[p].state = "open"
    BY <1>2, <2>1 DEF SetHead, Pulls
  <2>3. QED
    BY <1>2, <2>1, <2>2 DEF Merged
<1>5. Counted'
  <2>1. /\ IsFiniteSet(ByAuthors) /\ Cardinality(ByAuthors) \in Nat
        /\ Cardinality(Merged) \in Nat /\ n \notin ByAuthors
    BY <1>1, <1>3, CountedFacts DEF ByAuthors
  <2>2. Cardinality(ByAuthors') = Cardinality(ByAuthors) + 1
    BY <1>3, <2>1, FS_AddElement
  <2>3. n = 2 + Cardinality(ByAuthors) + Cardinality(Merged)
    BY <1>1, <2>1 DEF Counted, n
  <2>4. QED
    BY <1>2, <1>3, <1>4, <2>1, <2>2, <2>3, GateAssumption DEF Counted
<1>6. \A d \in Known' : commits'[d].ancestors \subseteq 1..(d - 1)
  BY <1>1, <1>3 DEF TipsInOrder
<1>7. Shape' /\ Untouched' /\ TipsInOrder' /\ PullsOK' /\ Grows
  BY <1>2, <1>3, <1>5, <1>6, HeadStep
<1>8. QED
  BY <1>2, <1>5, <1>7, OthersStep DEF IndInv

LEMMA ForcePushStep ==
    ASSUME IndInv, NEW p \in Pull, NEW c \in Known, ForcePush(p, c)
    PROVE  IndInv'
<1>1. /\ SetHead(p, c) /\ Opened(p) /\ Known' = Known
      /\ UNCHANGED <<commits, main, gate, job, jobs, mishaps, vouched>>
  BY DEF ForcePush, Known
<1>2. Merged' = Merged
  <2>1. pull \in [Pull -> Pulls]
    BY DEF IndInv, Shape, TypeOK
  <2>2. /\ DOMAIN pull' = Pull /\ \A q \in Pull : q # p => pull'[q] = pull[q]
        /\ pull'[p].state = "open"
    BY <1>1, <2>1 DEF SetHead, Pulls
  <2>3. QED
    BY <1>1, <2>1, <2>2 DEF Merged, Opened
<1>3. Counted'
  BY <1>1, <1>2 DEF IndInv, Shape, Counted, ByAuthors
<1>4. \A d \in Known' : commits'[d].ancestors \subseteq 1..(d - 1)
  BY <1>1 DEF IndInv, TipsInOrder
<1>5. Shape' /\ Untouched' /\ TipsInOrder' /\ PullsOK' /\ Grows
  BY <1>1, <1>3, <1>4, HeadStep
<1>6. QED
  BY <1>1, <1>3, <1>5, OthersStep DEF IndInv

\* An admin's approval or attestation names the head of the moment.
LEMMA VouchStep ==
    ASSUME IndInv, NEW p \in Pull, Opened(p), NEW v \in SUBSET {pull[p].head},
           vouched' = vouched \cup v, pull' \in [Pull -> Pulls],
           \A q \in Pull : /\ pull'[q].state = pull[q].state
                           /\ pull'[q].head = pull[q].head /\ pull'[q].base = pull[q].base
                           /\ pull'[q].approved \subseteq vouched'
                           /\ pull'[q].attested # None /\ q \in AdminAuthored
                                  => pull'[q].attested \in vouched',
           UNCHANGED <<commits, main, gate, job, jobs, mishaps, bases>>
    PROVE  IndInv'
<1>1. Known' = Known /\ pull[p].head \in Known /\ Merged' = Merged
  BY DEF Known, Opened, IndInv, PullsOK, Merged
<1>2. Counted'
  BY <1>1 DEF IndInv, Shape, Counted, ByAuthors
<1>3. Shape'
  BY <1>1, <1>2 DEF IndInv, Shape, TypeOK
<1>4. Untouched' /\ TipsInOrder'
  BY <1>1 DEF IndInv, Untouched, TipsInOrder
<1>5. PullsOK'
  BY <1>1 DEF IndInv, PullsOK
<1>6. Grows
  BY <1>1 DEF Grows
<1>7. QED
  BY <1>2, <1>3, <1>4, <1>5, <1>6, OthersStep DEF IndInv

LEMMA ApproveStep == ASSUME IndInv, NEW p \in Pull, Approve(p) PROVE IndInv'
<1> DEFINE new == [pull[p] EXCEPT !.approved = @ \cup {pull[p].head}]
<1>1. /\ Opened(p) /\ pull' = [pull EXCEPT ![p] = new]
      /\ vouched' = vouched \cup {pull[p].head}
      /\ UNCHANGED <<commits, main, gate, job, jobs, mishaps, bases>>
  BY DEF Approve, IndInv, Shape, TypeOK
<1>2. /\ pull \in [Pull -> Pulls] /\ pull[p] \in Pulls
      /\ pull[p].head \in Known /\ pull[p].head \in Sha
  BY <1>1, KnownInSha DEF IndInv, Shape, TypeOK, PullsOK, Opened
<1>3. /\ new \in Pulls /\ new.state = pull[p].state /\ new.head = pull[p].head
      /\ new.base = pull[p].base /\ new.attested = pull[p].attested
      /\ new.approved = pull[p].approved \cup {pull[p].head}
  BY <1>2 DEF Pulls
<1> HIDE DEF new
<1>4. QED
  BY <1>1, <1>2, <1>3, VouchStep DEF IndInv, PullsOK

LEMMA AttestStep == ASSUME IndInv, NEW p \in Pull, Attest(p) PROVE IndInv'
<1> DEFINE new == [pull[p] EXCEPT !.attested = pull[p].head]
           v == IF p \in AdminAuthored THEN {pull[p].head} ELSE {}
<1>1. /\ Opened(p) /\ pull' = [pull EXCEPT ![p] = new]
      /\ vouched' = vouched \cup v /\ v \in SUBSET {pull[p].head}
      /\ UNCHANGED <<commits, main, gate, job, jobs, mishaps, bases>>
  BY DEF Attest, IndInv, Shape, TypeOK
<1>2. /\ pull \in [Pull -> Pulls] /\ pull[p] \in Pulls
      /\ pull[p].head \in Known /\ pull[p].head \in Sha
  BY <1>1, KnownInSha DEF IndInv, Shape, TypeOK, PullsOK, Opened
<1>3. /\ new \in Pulls /\ new.state = pull[p].state /\ new.head = pull[p].head
      /\ new.base = pull[p].base /\ new.attested = pull[p].head
      /\ new.approved = pull[p].approved
  BY <1>2 DEF Pulls
<1> HIDE DEF new
<1>4. \A q \in Pull : /\ pull'[q].state = pull[q].state
                      /\ pull'[q].head = pull[q].head /\ pull'[q].base = pull[q].base
                      /\ pull'[q].approved \subseteq vouched'
                      /\ pull'[q].attested # None /\ q \in AdminAuthored
                             => pull'[q].attested \in vouched'
  BY <1>1, <1>2, <1>3 DEF IndInv, PullsOK
<1> HIDE DEF v
<1>5. QED
  BY <1>1, <1>2, <1>3, <1>4, VouchStep

\* main has passed every commit that is not in it.
LEMMA MergeStep == ASSUME IndInv, NEW p \in Pull, Merge(p) PROVE IndInv'
<1> DEFINE n == Len(commits) + 1
           h == pull[p].head
           new == [pull[p] EXCEPT !.state = "merged"]
<1>1. /\ Opened(p) /\ NewCommit(TreeOf(h), {main, h}, None)
      /\ main' = n /\ pull' = [pull EXCEPT ![p] = new]
      /\ UNCHANGED <<gate, job, jobs, mishaps, vouched, bases>>
  BY DEF Merge, Mergeable, IndInv, Shape, TypeOK
<1>2. /\ Counted /\ TipsInOrder /\ main \in Known /\ h \in Known
      /\ pull \in [Pull -> Pulls] /\ pull[p] \in Pulls
  BY <1>1 DEF IndInv, Shape, TypeOK, PullsOK, Opened
<1>3. TreeOf(h) \in Tree
  BY <1>2, CountedFacts DEF TreeOf, Commit
<1>4. /\ n \notin Known /\ Known' = Known \cup {n} /\ n \in Nat /\ Len(commits') = n
      /\ \A c \in Known : c < n /\ commits'[c] = commits[c]
      /\ commits' \in Seq(Commit)
      /\ commits'[n].ancestors \subseteq 1..(n - 1)
      /\ ByAuthors' = ByAuthors
  BY <1>1, <1>2, <1>3, NewCommitFacts
<1>5. /\ new \in Pulls /\ new.state = "merged" /\ new.head = h /\ new.base = pull[p].base
      /\ new.attested = pull[p].attested /\ new.approved = pull[p].approved
  BY <1>2 DEF Pulls
<1> HIDE DEF new
<1>6. /\ pull' \in [Pull -> Pulls] /\ pull'[p] = new
      /\ \A q \in Pull : q # p => pull'[q] = pull[q]
  BY <1>1, <1>2, <1>5
<1>7. Merged' = Merged \cup {p} /\ p \notin Merged
  BY <1>1, <1>5, <1>6 DEF Merged, Opened
<1>8. Counted'
  <2>1. /\ Cardinality(ByAuthors) \in Nat /\ Cardinality(Merged) \in Nat
        /\ IsFiniteSet(Merged)
    BY <1>2, CountedFacts
  <2>2. Cardinality(Merged') = Cardinality(Merged) + 1
    BY <1>7, <2>1, FS_AddElement
  <2>3. n = 2 + Cardinality(ByAuthors) + Cardinality(Merged)
    BY <1>2, <2>1 DEF Counted
  <2> HIDE DEF n
  <2>4. Len(commits') = 1 + Cardinality(ByAuthors') + Cardinality(Merged')
    BY <1>4, <2>1, <2>2, <2>3
  <2>5. QED
    BY <1>2, <1>4, <2>4 DEF Counted
<1> HIDE DEF n
<1>9. n \in Sha /\ Known' \subseteq Sha
  BY <1>4, <1>8, KnownNext
<1>10. Shape'
  BY <1>1, <1>4, <1>6, <1>8 DEF IndInv, Shape, TypeOK
<1>11. Untouched'
  BY <1>1, <1>4 DEF IndInv, Untouched
<1>12. TipsInOrder'
  <2>1. bases[n] = {}
    BY <1>4, <1>9 DEF IndInv, Untouched
  <2>2. \A c \in Known' : commits'[c].ancestors \subseteq 1..(c - 1)
    BY <1>2, <1>4 DEF TipsInOrder
  <2>3. \A c \in Known' : \A b \in bases'[c] : b \in Known' /\ (b <= c => main' > c)
    BY <1>1, <1>2, <1>4, <2>1 DEF TipsInOrder
  <2>4. QED
    BY <2>2, <2>3 DEF TipsInOrder
<1>13. PullsOK'
  BY <1>1, <1>2, <1>4, <1>5, <1>6 DEF IndInv, PullsOK, Opened
<1>14. Grows
  BY <1>1, <1>4 DEF Grows
<1>15. QED
  BY <1>1, <1>8, <1>10, <1>11, <1>12, <1>13, <1>14, OthersStep DEF IndInv

-----------------------------------------------------------------------------
(* The controller job.                                                      *)

\* What a step of the job leaves as it was.
LEMMA JobStep ==
    ASSUME IndInv, UNCHANGED <<commits, main, pull, vouched, bases>>,
           jobs' \in 0..MaxJobs, mishaps' \in 0..MaxMishaps,
           gate' \in [Sha -> [Context -> [status : Mark, check : Mark]]],
           \A c \in Sha \ Known : gate'[c] = gate[c]
    PROVE  /\ Shape' /\ Untouched' /\ TipsInOrder' /\ PullsOK' /\ Known' = Known
           /\ \A c \in Known : Judged(c)' <=> Judged(c)
<1>1. Known' = Known /\ ByAuthors' = ByAuthors /\ Merged' = Merged
  BY DEF Known, ByAuthors, Merged
<1>2. Shape' /\ Untouched' /\ TipsInOrder' /\ PullsOK'
  <2>1. Counted' /\ TypeOK'
    BY <1>1 DEF IndInv, Shape, Counted, TypeOK
  <2>2. QED
    BY <1>1, <2>1 DEF IndInv, Shape, Untouched, TipsInOrder, PullsOK
<1>3. \A c \in Known : Judged(c)' <=> Judged(c)
  BY DEF Judged, FreeOn, OwnedOn, Within, TreeOf
<1>4. QED
  BY <1>1, <1>2, <1>3

LEMMA SilentStep ==
    ASSUME IndInv, UNCHANGED <<commits, main, pull, gate, vouched, bases>>,
           jobs' \in 0..MaxJobs, mishaps' \in 0..MaxMishaps, JobOK'
    PROVE  IndInv'
<1>1. /\ gate' \in [Sha -> [Context -> [status : Mark, check : Mark]]]
      /\ \A c \in Sha \ Known : gate'[c] = gate[c]
  BY DEF IndInv, Shape, TypeOK
<1>2. /\ Shape' /\ Untouched' /\ TipsInOrder' /\ PullsOK' /\ Known' = Known
      /\ \A c \in Known : Judged(c)' <=> Judged(c)
  BY <1>1, JobStep
<1>3. GateOK'
  BY <1>2 DEF IndInv, GateOK
<1>4. QED
  BY <1>2, <1>3 DEF IndInv

LEMMA MishapsBounded ==
    ASSUME IndInv, NEW wrong, Mishap(wrong)
    PROVE  jobs \in 0..MaxJobs /\ mishaps' \in 0..MaxMishaps
  BY GateAssumption DEF IndInv, Shape, TypeOK, Mishap

LEMMA StartJobStep ==
    ASSUME IndInv, NEW p \in Pull, NEW c \in Known, NEW ok \in BOOLEAN,
           NEW linked \in BOOLEAN, StartJob(p, c, ok, linked)
    PROVE  IndInv'
<1> DEFINE byHead == {q \in Pull : pull[q].head = c}
           found == IF linked THEN p
                    ELSE IF Cardinality(byHead) = 1
                    THEN CHOOSE q \in byHead : TRUE ELSE None
<1>1. /\ job' = [stage |-> "pull", sha |-> c, ok |-> ok, pull |-> found]
      /\ jobs < MaxJobs /\ jobs' = jobs + 1 /\ Mishap(~ok \/ ~linked)
      /\ UNCHANGED <<commits, main, pull, gate, vouched, bases>>
  BY DEF StartJob
<1>2. found \in Pull \cup {None}
  <2>1. Cardinality({}) = 0
    BY FS_EmptySet
  <2>2. Cardinality(byHead) = 1 => \E q \in Pull : q \in byHead
    BY <2>1
  <2>3. QED
    BY <2>2
<1> HIDE DEF found
<1>3. jobs' \in 0..MaxJobs /\ mishaps' \in 0..MaxMishaps
  BY <1>1, MishapsBounded, GateAssumption
<1>4. JobOK'
  BY <1>1, <1>2 DEF JobOK, Known
<1>5. QED
  BY <1>1, <1>3, <1>4, SilentStep

LEMMA ReadPullStep == ASSUME IndInv, ReadPull PROVE IndInv'
<1> DEFINE lost == [stage |-> "publish", sha |-> job.sha, step |-> 0,
                    passed |-> [governance |-> TRUE, trusted |-> FALSE]]
           q == job.pull
           read == [stage |-> "classify", sha |-> job.sha, ok |-> job.ok, pull |-> q,
                    seen |-> [head |-> pull[q].head, base |-> pull[q].base,
                              attested |-> pull[q].attested]]
<1>1. /\ job # None /\ job.stage = "pull" /\ Mishap(FALSE)
      /\ job' = IF job.pull = None THEN lost ELSE read
      /\ UNCHANGED <<commits, main, pull, gate, jobs, vouched, bases>>
  BY DEF ReadPull, At, Aside
<1>2. /\ job.sha \in Known /\ Known' = Known /\ job.pull \in Pull \cup {None}
      /\ jobs' \in 0..MaxJobs /\ mishaps' \in 0..MaxMishaps
  BY <1>1, MishapsBounded DEF IndInv, JobOK, Known
<1>3. JobOK'
  <2>1. CASE job.pull = None
    <3>1. /\ job'.stage = "publish" /\ job'.sha = job.sha /\ job'.step = 0
          /\ job'.passed["trusted"] = FALSE
      BY <1>1, <2>1
    <3>2. PostedOK(job)'
      BY <3>1 DEF PostedOK
    <3>3. QED
      BY <1>2, <3>1, <3>2 DEF JobOK
  <2>2. CASE job.pull # None
    <3>1. /\ job'.stage = "classify" /\ job'.sha = job.sha /\ job'.pull = q
          /\ job'.seen.head = pull[q].head /\ job'.seen.base = pull[q].base
          /\ job'.seen.attested = pull[q].attested
      BY <1>1, <2>2
    <3>2. SeenOK(job)'
      BY <1>1, <1>2, <2>2, <3>1 DEF SeenOK, IndInv, PullsOK
    <3>3. QED
      BY <1>2, <3>1, <3>2 DEF JobOK
  <2>3. QED
    BY <2>1, <2>2
<1>4. QED
  BY <1>1, <1>2, <1>3, SilentStep

LEMMA ClassifyStep ==
    ASSUME IndInv, NEW readable \in BOOLEAN, Classify(readable)
    PROVE  IndInv'
<1> DEFINE result   == Classification(job.seen, readable)
           required == Required(job.seen, result)
           refused  == required /\ (\/ result \in {"UNVERIFIED", "BLOCK"}
                                    \/ main # job.seen.base)
<1>1. /\ job # None /\ job.stage = "classify" /\ Mishap(~readable)
      /\ job' = [stage |-> "authorize", sha |-> job.sha, ok |-> job.ok, pull |-> job.pull,
                 seen |-> job.seen, refused |-> refused,
                 human |-> result = "HUMAN_REQUIRED"]
      /\ UNCHANGED <<commits, main, pull, gate, jobs, vouched, bases>>
  BY DEF Classify, At, Aside
<1>2. /\ job.sha \in Known /\ Known' = Known /\ SeenOK(job)
      /\ jobs' \in 0..MaxJobs /\ mishaps' \in 0..MaxMishaps
  BY <1>1, MishapsBounded DEF IndInv, JobOK, Known
<1>3. /\ job'.stage = "authorize" /\ job'.sha = job.sha /\ job'.pull = job.pull
      /\ job'.seen = job.seen
      /\ job'.refused <=> refused
      /\ job'.human <=> result = "HUMAN_REQUIRED"
  BY <1>1
<1>4. SeenOK(job)'
  BY <1>1, <1>2, <1>3 DEF SeenOK
<1>5. ASSUME ~job'.refused
      PROVE  \/ FreeOn(job.seen.base, job.seen.head)
             \/ (OwnedOn(job.seen.base, job.seen.head) /\ job'.human)
  <2>1. result \notin {"UNVERIFIED", "BLOCK"}
    BY <1>3, <1>5 DEF Required
  <2>2. /\ Within(job.seen.base, job.seen.head)
        /\ result = ClassifyDiff(TreeOf(job.seen.base), TreeOf(job.seen.head))
    BY <2>1 DEF Classification
  <2>3. result \in {"ALLOW", "HUMAN_REQUIRED"}
    BY <2>1, <2>2 DEF ClassifyDiff
  <2>4. QED
    BY <1>3, <2>2, <2>3 DEF FreeOn, OwnedOn
<1>6. ASSUME ~job'.refused, job'.seen.head = job'.sha
      PROVE  \/ FreeOn(job.seen.base, job.sha)'
             \/ (OwnedOn(job.seen.base, job.sha)' /\ job'.human)
  BY <1>1, <1>3, <1>5, <1>6 DEF FreeOn, OwnedOn, Within, TreeOf
<1>7. JobOK'
  BY <1>2, <1>3, <1>4, <1>6 DEF JobOK
<1>8. QED
  BY <1>1, <1>2, <1>7, SilentStep

LEMMA AuthorizeStep ==
    ASSUME IndInv, NEW evidence \in BOOLEAN, Authorize(evidence)
    PROVE  IndInv'
<1> DEFINE governance == ~job.refused /\ (job.human => Authorized(job.pull, job.seen, job.sha))
           trusted == governance /\ job.ok /\ evidence /\ ~HeadMoved(job.seen, job.sha)
<1>1. /\ job # None /\ job.stage = "authorize" /\ Mishap(~evidence)
      /\ job' = [stage |-> "publish", sha |-> job.sha, step |-> 0,
                 passed |-> [governance |-> governance, trusted |-> trusted]]
      /\ UNCHANGED <<commits, main, pull, gate, jobs, vouched, bases>>
  BY DEF Authorize, At, Aside
<1>2. /\ job.sha \in Known /\ Known' = Known /\ SeenOK(job) /\ job.sha # None
      /\ jobs' \in 0..MaxJobs /\ mishaps' \in 0..MaxMishaps
  BY <1>1, MishapsBounded, NoneUnknown DEF IndInv, Shape, JobOK, Known
<1>3. /\ job'.stage = "publish" /\ job'.sha = job.sha /\ job'.step = 0
      /\ job'.passed["trusted"] <=> trusted
  BY <1>1
<1>4. ASSUME trusted PROVE Judged(job.sha)
  <2>1. /\ job.seen.head = job.sha /\ job.seen.base \in bases[job.sha]
        /\ FreeOn(job.seen.base, job.sha)
           \/ (OwnedOn(job.seen.base, job.sha) /\ job.human)
    BY <1>1, <1>2, <1>4 DEF HeadMoved, IndInv, JobOK, SeenOK
  <2>2. job.human => job.sha \in vouched
    BY <1>2, <1>4 DEF Authorized, IndInv, PullsOK, SeenOK
  <2>3. QED
    BY <2>1, <2>2 DEF Judged
<1>5. Judged(job.sha) => Judged(job.sha)'
  BY <1>1, <1>3 DEF Judged, FreeOn, OwnedOn, Within, TreeOf
<1>6. PostedOK(job)'
  BY <1>3 DEF PostedOK
<1>7. JobOK'
  BY <1>2, <1>3, <1>4, <1>5, <1>6 DEF JobOK
<1>8. QED
  BY <1>1, <1>2, <1>7, SilentStep

LEMMA DieStep == ASSUME IndInv, Die PROVE IndInv'
<1>1. /\ job' = None /\ Mishap(TRUE)
      /\ UNCHANGED <<commits, main, pull, gate, jobs, vouched, bases>>
  BY DEF Die, Aside
<1>2. JobOK'
  BY <1>1 DEF JobOK
<1>3. QED
  BY <1>1, <1>2, MishapsBounded, SilentStep

\* The six requests of _publish, and the context each is about.
LEMMA Steps ==
    ASSUME NEW k \in 0..5
    PROVE  /\ k % 3 \in 0..2
           /\ k # 5 => k + 1 \in 0..5
           /\ k % 3 # 2 => (k < 3 <=> k + 1 < 3) /\ (k + 1) % 3 = (k % 3) + 1
           /\ k % 3 = 2 => (k + 1) % 3 = 0
  OBVIOUS

LEMMA PublishStep == ASSUME IndInv, Publish PROVE IndInv'
<1> DEFINE k == job.step
           c == job.sha
           x == IF k < 3 THEN "governance" ELSE "trusted"
           verdict == IF job.passed[x] THEN "success" ELSE "failure"
           old == gate[c][x]
           new == Post(x, k % 3)
<1>1. /\ job # None /\ job.stage = "publish" /\ Mishap(FALSE)
      /\ gate' = [gate EXCEPT ![c][x] = new]
      /\ job' = IF k = 5 THEN None ELSE [job EXCEPT !.step = @ + 1]
      /\ UNCHANGED <<commits, main, pull, jobs, vouched, bases>>
  BY DEF Publish, At, Aside
<1>2. /\ c \in Known /\ c \in Sha /\ k \in 0..5 /\ x \in Context /\ Known' = Known
      /\ gate \in [Sha -> [Context -> [status : Mark, check : Mark]]]
      /\ k % 3 # 0 => old.status # "success"
      /\ k % 3 = 2 => old.check = verdict
      /\ job.passed["trusted"] => Judged(c)
  BY <1>1, KnownInSha
     DEF IndInv, Shape, TypeOK, JobOK, PostedOK, Current, Context, Known
<1>3. jobs' \in 0..MaxJobs /\ mishaps' \in 0..MaxMishaps
  BY <1>1, MishapsBounded
<1>4. old \in [status : Mark, check : Mark] /\ verdict \in Mark /\ Verdict(x) = verdict
  BY <1>2 DEF Verdict, Mark
<1> HIDE DEF verdict, old
<1>5. k % 3 \in 0..2
  BY <1>2, Steps
<1>6. /\ k % 3 = 0 => new = [old EXCEPT !.status = "failure"]
      /\ k % 3 = 1 => new = [old EXCEPT !.check = verdict]
      /\ k % 3 = 2 => new = [old EXCEPT !.status = verdict]
  BY <1>4, <1>5 DEF Post, old
<1> DEFINE r == k % 3
<1> HIDE DEF new, r
<1>7. /\ new \in [status : Mark, check : Mark]
      /\ r = 0 => new.status = "failure" /\ new.check = old.check
      /\ r = 1 => new.status = old.status /\ new.check = verdict
      /\ r = 2 => new.status = verdict /\ new.check = old.check
  <2>1. /\ r = 0 => new = [old EXCEPT !.status = "failure"]
        /\ r = 1 => new = [old EXCEPT !.check = verdict]
        /\ r = 2 => new = [old EXCEPT !.status = verdict]
        /\ r = 0 \/ r = 1 \/ r = 2
    BY <1>5, <1>6 DEF r
  <2>2. "failure" \in Mark
    BY DEF Mark
  <2>3. CASE r = 0
    BY <1>4, <2>1, <2>2, <2>3
  <2>4. CASE r = 1
    BY <1>4, <2>1, <2>4
  <2>5. CASE r = 2
    BY <1>4, <2>1, <2>5
  <2>6. QED
    BY <2>1, <2>3, <2>4, <2>5
<1>8. /\ r \in 0..2 /\ (r # 0 => old.status # "success") /\ (r = 2 => old.check = verdict)
  BY <1>2, <1>5 DEF r, old, verdict
<1>9. /\ gate' \in [Sha -> [Context -> [status : Mark, check : Mark]]]
      /\ gate'[c][x] = new
      /\ \A d \in Sha : d # c => gate'[d] = gate[d]
      /\ \A y \in Context : y # x => gate'[c][y] = gate[c][y]
  BY <1>1, <1>2, <1>7
<1>10. /\ Shape' /\ Untouched' /\ TipsInOrder' /\ PullsOK'
      /\ \A d \in Known : Judged(d)' <=> Judged(d)
  BY <1>1, <1>2, <1>3, <1>9, JobStep
<1>11. /\ new.status = "success" => new.check = "success"
       /\ x = "trusted" /\ new.check = "success" => Judged(c)
  <2>1. /\ old.status = "success" => old.check = "success"
        /\ x = "trusted" /\ old.check = "success" => Judged(c)
    BY <1>2 DEF IndInv, GateOK, old
  <2>2. x = "trusted" /\ verdict = "success" => Judged(c)
    BY <1>2 DEF verdict
  <2>3. CASE r = 0
    BY <1>7, <1>8, <2>3, <2>1, <2>2
  <2>4. CASE r = 1
    BY <1>7, <1>8, <2>2, <2>4
  <2>5. CASE r = 2
    BY <1>7, <1>8, <2>2, <2>5
  <2>6. QED
    BY <1>8, <2>3, <2>4, <2>5
<1>12. GateOK'
  <2>1. SUFFICES ASSUME NEW d \in Known
                 PROVE  /\ \A y \in Context : gate'[d][y].status = "success"
                                                  => gate'[d][y].check = "success"
                        /\ gate'[d]["trusted"].check = "success" => Judged(d)
    BY <1>2, <1>10 DEF GateOK
  <2>2. d \in Sha
    BY KnownInSha DEF IndInv, Shape
  <2>3. CASE d # c
    BY <1>9, <2>2, <2>3 DEF IndInv, GateOK
  <2>4. CASE d = c
    BY <1>9, <1>11, <2>4 DEF IndInv, GateOK, Context
  <2>5. QED
    BY <2>3, <2>4
<1>13. JobOK'
  <2>1. CASE k = 5
    BY <1>1, <2>1 DEF JobOK
  <2>2. CASE k # 5
    <3>1. /\ job' = [job EXCEPT !.step = k + 1] /\ k + 1 \in 0..5
      BY <1>1, <1>2, <2>2, Steps
    <3>2. /\ job'.stage = "publish" /\ job'.sha = c /\ job'.step = k + 1
          /\ job'.passed = job.passed
      BY <1>1, <3>1
    <3>3. PostedOK(job)'
      <4>1. CASE k % 3 = 2
        BY <1>2, <3>2, <4>1, Steps DEF PostedOK
      <4>2. CASE k % 3 # 2
        <5>1. /\ (k + 1) % 3 = (k % 3) + 1
              /\ (IF k + 1 < 3 THEN "governance" ELSE "trusted") = x
          BY <1>2, <4>2, Steps
        <5>2. new.status # "success" /\ (k % 3 = 1 => new.check = verdict)
          BY <1>7, <1>8, <4>2 DEF r
        <5>3. gate'[job'.sha][Current(job')] = new /\ Current(job') = x
          BY <1>9, <3>2, <5>1 DEF Current
        <5>4. QED
          BY <1>5, <3>2, <5>1, <5>2, <5>3 DEF PostedOK, verdict, Current
      <4>3. QED
        BY <4>1, <4>2
    <3>4. QED
      BY <1>2, <1>10, <3>1, <3>2, <3>3 DEF JobOK
  <2>3. QED
    BY <2>1, <2>2
<1>14. QED
  BY <1>10, <1>12, <1>13 DEF IndInv

LEMMA IndInvNext == IndInv /\ [Next]_vars => IndInv'
<1>1. SUFFICES ASSUME IndInv, [Next]_vars PROVE IndInv'
  OBVIOUS
<1>2. CASE UNCHANGED vars
  <2>1. UNCHANGED <<commits, main, pull, gate, job, jobs, mishaps, vouched, bases>>
    BY <1>2 DEF vars
  <2>2. jobs' \in 0..MaxJobs /\ mishaps' \in 0..MaxMishaps
    BY <1>1, <2>1 DEF IndInv, Shape, TypeOK
  <2>3. JobOK'
    BY <1>1, <2>1 DEF IndInv, JobOK, SeenOK, PostedOK, Current, Judged, FreeOn, OwnedOn,
                      Within, TreeOf, Known
  <2>4. QED
    BY <1>1, <2>1, <2>2, <2>3, SilentStep
<1>3. CASE \E p \in Pull, t \in Trees, update \in BOOLEAN : Push(p, t, update)
  BY <1>1, <1>3, PushStep
<1>4. CASE \E p \in Pull, c \in Known : ForcePush(p, c)
  BY <1>1, <1>4, ForcePushStep
<1>5. CASE \E p \in Pull : Approve(p) \/ Attest(p) \/ Merge(p)
  BY <1>1, <1>5, ApproveStep, AttestStep, MergeStep
<1>6. CASE \E p \in Pull, c \in Known, ok, linked \in BOOLEAN : StartJob(p, c, ok, linked)
  BY <1>1, <1>6, StartJobStep
<1>7. CASE ReadPull \/ (\E readable \in BOOLEAN : Classify(readable))
           \/ (\E evidence \in BOOLEAN : Authorize(evidence)) \/ Publish \/ Die
  BY <1>1, <1>7, ReadPullStep, ClassifyStep, AuthorizeStep, PublishStep, DieStep
<1>8. QED
  BY <1>1, <1>2, <1>3, <1>4, <1>5, <1>6, <1>7 DEF Next

LEMMA Inductive == Spec => []IndInv
  BY InitIndInv, IndInvNext, PTL DEF Spec

-----------------------------------------------------------------------------
\* For any number of jobs and wherever each of them dies, a green status stands
\* only over a green check run: _publish posts the sentinel first.
THEOREM SentinelHolds == Spec => []SentinelFailsClosed
<1>1. IndInv => SentinelFailsClosed
  BY DEF IndInv, GateOK, SentinelFailsClosed
<1>2. QED
  BY <1>1, Inductive, PTL

\* What two green contexts say of a commit, on either transport and however many
\* evaluations of earlier and later heads have posted in between.
THEOREM GreenIsJudged == Spec => []GreenMeansJudged
<1>1. IndInv => GreenMeansJudged
  <2>1. SUFFICES ASSUME IndInv, NEW c \in Known,
                        \/ \A x \in Context : gate[c][x].check = "success"
                        \/ \A x \in Context : gate[c][x].status = "success"
                 PROVE  \E b \in bases[c] :
                            \/ ClassifyDiff(TreeOf(b), TreeOf(c)) = "ALLOW"
                            \/ /\ ClassifyDiff(TreeOf(b), TreeOf(c)) = "HUMAN_REQUIRED"
                               /\ c \in vouched
    BY DEF GreenMeansJudged
  <2>2. Judged(c)
    BY <2>1 DEF IndInv, GateOK, Context
  <2>3. QED
    BY <2>2 DEF Judged, FreeOn, OwnedOn
<1>2. QED
  BY <1>1, Inductive, PTL

\* A protected change is merged on the standing authorization of the main it is merged
\* into, or vouched for by an admin: the ruleset's strictness makes the base that was
\* judged, long before, the main of the merge.
THEOREM MergesAreAuthorized == Spec => ProtectedMergeAuthorized
<1> DEFINE Good == \E p \in Pull :
            LET old == TreeOf(main)
                new == TreeOf(pull[p].head)
            IN  /\ Opened(p) /\ pull'[p].state = "merged"
                /\ Protected(old, new) # {} =>
                      /\ ~Mixed(old, new) /\ old.policy # "INVALID"
                      /\ StandingAuto(old, new) \/ pull[p].head \in vouched
<1>1. ASSUME IndInv, [Next]_vars, main' # main PROVE Good
  <2>1. PICK p \in Pull : Merge(p)
    <3>1. Next
      BY <1>1 DEF vars
    <3>2. QED
      BY <1>1, <3>1 DEF Next, Push, ForcePush, Approve, Attest, StartJob, ReadPull, Classify,
                        Authorize, Publish, Die, Aside
  <2> DEFINE h == pull[p].head
  <2>2. /\ Opened(p) /\ Within(main, h) /\ h \in Known /\ main \in Known
        /\ \A x \in Context : gate[h][x].status = "success"
        /\ pull \in [Pull -> Pulls] /\ pull' = [pull EXCEPT ![p].state = "merged"]
    BY <1>1, <2>1 DEF Merge, Mergeable, IndInv, Shape, TypeOK, PullsOK, Opened
  <2>3. pull'[p].state = "merged"
    BY <2>2 DEF Pulls
  <2>4. Judged(h)
    BY <1>1, <2>2 DEF IndInv, GateOK, Context
  <2>5. PICK b \in bases[h] : FreeOn(b, h) \/ (OwnedOn(b, h) /\ h \in vouched)
    BY <2>4 DEF Judged
  <2>6. b = main
    <3>1. h \in Nat /\ main \in Nat /\ commits[h].ancestors \subseteq 1..(h - 1)
      BY <1>1, <2>2, CountedFacts DEF IndInv, Shape, TipsInOrder
    <3>2. \A d : Within(d, h) => d <= h
      BY <3>1 DEF Within
    <3>3. b <= h /\ main <= h
      BY <2>2, <2>5, <3>2 DEF FreeOn, OwnedOn
    <3>4. main = b \/ main > h
      BY <1>1, <2>2, <2>5, <3>3 DEF IndInv, TipsInOrder
    <3>5. QED
      BY <3>1, <3>3, <3>4
  <2>7. \/ ClassifyDiff(TreeOf(main), TreeOf(h)) = "ALLOW"
        \/ ClassifyDiff(TreeOf(main), TreeOf(h)) = "HUMAN_REQUIRED" /\ h \in vouched
    BY <2>5, <2>6 DEF FreeOn, OwnedOn
  <2>8. Protected(TreeOf(main), TreeOf(h)) # {} =>
              /\ ~Mixed(TreeOf(main), TreeOf(h)) /\ TreeOf(main).policy # "INVALID"
              /\ StandingAuto(TreeOf(main), TreeOf(h)) \/ h \in vouched
    BY <2>7 DEF ClassifyDiff
  <2>9. QED
    BY <2>2, <2>3, <2>8
<1>2. IndInv /\ [Next]_vars => [main' # main => Good]_vars
  BY <1>1
<1>3. QED
  BY <1>2, Inductive, PTL DEF ProtectedMergeAuthorized, Spec
=============================================================================
