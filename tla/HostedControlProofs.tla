------------------------- MODULE HostedControlProofs -------------------------
(***************************************************************************)
(* The workflow jobs and the private host for any number of sites, runs,   *)
(* ledgers and leases.  A site decides on what it read and acts later, so  *)
(* the invariants speak about the calls on their way: what they carry is   *)
(* well typed, their run is the only one at work on their disk, and the    *)
(* lease they carry already belongs to that run.  The last part orders the *)
(* states of a run: what is on disks and on its way goes on from what is   *)
(* written in the ledger.                                                  *)
(***************************************************************************)
EXTENDS HostedControl, FiniteSetTheorems, SequenceTheorems, WellFoundedInduction, TLAPS

-----------------------------------------------------------------------------
(* The operators.                                                          *)

LEMMA LowestRank ==
    ASSUME NEW S \in SUBSET Work, S # {}
    PROVE  Selector!First(S) \in S
<1> DEFINE Below(n) == 0 .. n - 1
           T == {Below(Rank[i]) : i \in S}
           R == StrictSubsetOrdering(Nat)
<1>1. \A i \in S : Rank[i] \in Nat
  BY HostedAssumption
<1>2. T \subseteq FiniteSubsetsOf(Nat) /\ T # {}
  <2>1. \A n \in Nat : IsFiniteSet(Below(n))
    BY FS_Interval
  <2>2. QED
    BY <1>1, <2>1 DEF FiniteSubsetsOf
<1>3. IsWellFoundedOn(R, FiniteSubsetsOf(Nat))
  BY FS_StrictSubsetOrderingWellFounded
<1>4. PICK x \in T : \A y \in T : ~ (<<y, x>> \in R)
  <2> HIDE DEF T, R
  <2>1. QED
    BY <1>2, <1>3, WFMin
<1>5. PICK i \in S : x = Below(Rank[i])
  OBVIOUS
<1>6. ASSUME NEW j \in S, ~(Rank[i] <= Rank[j]) PROVE FALSE
  <2>1. Rank[j] \in Below(Rank[i]) /\ Rank[j] \notin Below(Rank[j])
    BY <1>1, <1>6
  <2>2. Below(Rank[j]) \subseteq Below(Rank[i])
    BY <1>1, <1>6
  <2>3. <<Below(Rank[j]), Below(Rank[i])>> \in R
    <3>1. Below(Rank[j]) \in SUBSET Nat /\ Below(Rank[i]) \in SUBSET Nat
      BY <1>1
    <3>2. Below(Rank[j]) # Below(Rank[i])
      BY <2>1
    <3> HIDE DEF Below
    <3>3. QED
      BY <2>2, <3>1, <3>2 DEF StrictSubsetOrdering
  <2>4. QED
    <3>1. Below(Rank[j]) \in T
      OBVIOUS
    <3> HIDE DEF T, R, Below
    <3>2. QED
      BY <1>4, <1>5, <2>3, <3>1
<1>7. QED
  BY <1>5, <1>6 DEF Selector!First

\* The issue of a new run is one of the snapshot.
LEMMA PickedIsOpen ==
    ASSUME NEW open \in SUBSET Work,
           Selector!AuthorizeNextAction(ReadyQueue(open), Healthy, 0).action = "CLAIM_ONE_READY"
    PROVE  Selector!AuthorizeNextAction(ReadyQueue(open), Healthy, 0).issue \in open
<1> DEFINE q == ReadyQueue(open)
<1>1. /\ q.leases = {} /\ DOMAIN q.issues = open
      /\ \A i \in open : q.issues[i].state = "READY"
  BY DEF ReadyQueue
<1> HIDE DEF q
<1>2. Selector!Declared(q.leases) = {}
  BY <1>1 DEF Selector!Declared
<1>3. /\ Selector!InState(q, Selector!ActiveStates) = {}
      /\ Selector!InState(q, {"VERIFICATION", "RECOVERY"}) = {}
  BY <1>1 DEF Selector!InState, Selector!ActiveStates
<1>4. Selector!AuthorizeNextAction(q, Healthy, 0).action = "CLAIM_ONE_READY"
  BY DEF q
<1>5. Selector!AuthorizeNextAction(q, Healthy, 0) = Selector!ClaimReady(q, Healthy)
  BY <1>2, <1>3, <1>4 DEF Selector!AuthorizeNextAction, Selector!Outcome
<1>6. /\ Selector!Candidates(q, Healthy) # {}
      /\ Selector!ClaimReady(q, Healthy).issue = Selector!First(Selector!Candidates(q, Healthy))
  BY <1>4, <1>5 DEF Selector!ClaimReady, Selector!Outcome
<1>7. Selector!Candidates(q, Healthy) \subseteq open
  BY <1>1 DEF Selector!Candidates, Selector!InState
<1>8. Selector!ClaimReady(q, Healthy).issue \in open
  BY <1>6, <1>7, LowestRank
<1>9. QED
  BY <1>5, <1>8 DEF q

\* A run is resumed only under a lease of its own.
LEMMA ResumesOwnLease ==
    ASSUME NEW c, NEW L, c.leases = IF L = None THEN {} ELSE {L},
           DecideResume(c) = "RESUME_EXISTING"
    PROVE  L # None /\ L.worker = c.worker
<1>1. c.leases # {}
  BY DEF DecideResume
<1>2. L # None /\ c.leases = {L}
  BY <1>1
<1>3. (CHOOSE l \in c.leases : TRUE) = L
  BY <1>2
<1>4. DecideOnLease(c, L) = "RESUME_EXISTING"
  BY <1>1, <1>3 DEF DecideResume
<1>5. L.worker = c.worker
  BY <1>4 DEF DecideOnLease
<1>6. QED
  BY <1>2, <1>5

LEMMA Publishing ==
    ASSUME LedgerTypeOK
    PROVE  Published \in Nat
<1> DEFINE f == [i \in DOMAIN ledgers |-> {i} \X DOMAIN ledgers[i].comments]
           S == {f[i] : i \in DOMAIN ledgers}
<1>1. DOMAIN ledgers = 1 .. Len(ledgers) /\ Len(ledgers) \in Nat
  BY DEF LedgerTypeOK
<1>2. IsFiniteSet(DOMAIN ledgers)
  BY <1>1, FS_Interval
<1>3. f \in Surjection(DOMAIN ledgers, S)
  BY DEF Surjection
<1>4. IsFiniteSet(S)
  BY <1>2, <1>3, FS_Surjection
<1>5. ASSUME NEW i \in DOMAIN ledgers PROVE IsFiniteSet(f[i])
  <2>1. ledgers[i].comments \in Seq(Event)
    <3>1. ledgers \in Seq(Ledger)
      BY DEF LedgerTypeOK
    <3>2. ledgers[i] \in Ledger
      BY <3>1
    <3>3. QED
      BY <3>2 DEF Ledger
  <2>2. DOMAIN ledgers[i].comments = 1 .. Len(ledgers[i].comments) /\ Len(ledgers[i].comments) \in Nat
    BY <2>1
  <2>3. IsFiniteSet(DOMAIN ledgers[i].comments) /\ IsFiniteSet({i})
    <3> DEFINE n == Len(ledgers[i].comments)
    <3>1. n \in Int /\ 1 \in Int
      BY <2>2
    <3>2. IsFiniteSet(1 .. n)
      <4> HIDE DEF n
      <4>1. QED
        BY <3>1, FS_Interval
    <3>3. QED
      BY <2>2, <3>2, FS_Singleton
  <2>4. IsFiniteSet({i} \X DOMAIN ledgers[i].comments)
    BY <2>3, FS_Product
  <2>5. QED
    BY <2>4
<1>6. IsFiniteSet(UNION S)
  <2>1. \A T \in S : IsFiniteSet(T)
    BY <1>5
  <2> HIDE DEF S
  <2>2. QED
    BY <1>4, <2>1, FS_UNION
<1>7. Published = Cardinality(UNION S)
  BY DEF Published
<1>8. QED
  BY <1>6, <1>7, FS_CardinalityType

-----------------------------------------------------------------------------
(* Types, and what a site's disk and marker have to do with its call.      *)

Disk == [Run -> RunJournal \cup {None}]

AtWork(d) == {r \in Run : d[r] # None /\ d[r].status \in ActiveRuns}

\* A journal lies under the name of its run, and one run at most is at work.
Tidy(d) ==
    /\ \A r \in Run : d[r] # None => d[r].run = r
    /\ \A a, b \in AtWork(d) : a = b

\* A job restores on an empty checkout, a snapshot is taken when no run is at
\* work, and the run of a tick is the one at work, if it is one still.
Fits(p, c, d, m) ==
    /\ Tidy(d)
    /\ p \in Job /\ c.stage \in {"off", "restore", "restoring"} => d = NoRuns
    /\ c.stage \in {"restore", "restoring"} => p \in Job
    /\ c.stage = "snapshot" => AtWork(d) = {}
    /\ c.stage = "tick" => d[c.run] # None /\ AtWork(d) \subseteq {c.run}
    /\ m # None => d[m] # None

Sites ==
    /\ call \in [Site -> SiteCall]
    /\ disk \in [Site -> Disk]
    /\ marker \in [Site -> Run \cup {None}]
    /\ \A p \in Site : Fits(p, call[p], disk[p], marker[p])

World ==
    /\ LedgerTypeOK
    /\ main \in Nat /\ leases \in Nat /\ seen \in Nat
    /\ work \in [Work -> {"open", "closed"}]
    /\ lease \in WorkLease \cup {None}
    /\ ticked \subseteq Nat \X Run

LEMMA SiteActs ==
    ASSUME Sites, UNCHANGED ledgers, NEW p \in Site, NEW c \in SiteCall, NEW d \in Disk,
           NEW m \in Run \cup {None},
           call' = [call EXCEPT ![p] = c], disk' = [disk EXCEPT ![p] = d],
           marker' = [marker EXCEPT ![p] = m], Fits(p, c, d, m)
    PROVE  Sites'
<1>1. SiteCall' = SiteCall
  BY DEF SiteCall
<1>2. /\ call' \in [Site -> SiteCall] /\ disk' \in [Site -> Disk]
      /\ marker' \in [Site -> Run \cup {None}]
  BY DEF Sites
<1>3. /\ call'[p] = c /\ disk'[p] = d /\ marker'[p] = m
      /\ \A q \in Site : q # p => /\ call'[q] = call[q]
                                  /\ disk'[q] = disk[q]
                                  /\ marker'[q] = marker[q]
  BY DEF Sites
<1>4. \A q \in Site : Fits(q, call'[q], disk'[q], marker'[q])
  BY <1>3 DEF Sites
<1>5. QED
  BY <1>1, <1>2, <1>4 DEF Sites

\* The disk and the marker stay as they are.
LEMMA SiteGoesOn ==
    ASSUME Sites, UNCHANGED ledgers, NEW p \in Site, NEW c \in SiteCall,
           call' = [call EXCEPT ![p] = c], UNCHANGED <<disk, marker>>,
           Fits(p, c, disk[p], marker[p])
    PROVE  Sites'
<1>1. /\ disk' = [disk EXCEPT ![p] = disk[p]] /\ disk[p] \in Disk
      /\ marker' = [marker EXCEPT ![p] = marker[p]] /\ marker[p] \in Run \cup {None}
  BY DEF Sites
<1>2. QED
  BY <1>1, SiteActs

\* A stage of which nothing more is said.
LEMMA AnyStageFits ==
    ASSUME Sites, NEW p \in Site, NEW c,
           \/ c.stage \in {"inbox", "cycle", "persist", "append", "create", "read", "elect",
                           "close", "comment", "tag"}
           \/ c.stage = "off" /\ p \in Host
    PROVE  Fits(p, c, disk[p], marker[p])
<1>1. Fits(p, call[p], disk[p], marker[p]) /\ ~(p \in Job /\ p \in Host)
  BY HostedAssumption DEF Sites
<1>2. QED
  BY <1>1 DEF Fits

\* The call is over, for good or not; a job takes its checkout with it.
LEMMA SiteLeaves ==
    ASSUME Sites, UNCHANGED ledgers, NEW p \in Site, Goto(p, Off), Leave(p)
    PROVE  Sites'
<1>1. Off \in SiteCall
  BY DEF Off, SiteCall
<1>2. CASE p \in Job
  <2>1. /\ NoRuns \in Disk /\ \A r \in Run : NoRuns[r] = None
    BY DEF NoRuns, Disk
  <2>2. Fits(p, Off, NoRuns, None)
    BY <2>1, <1>2 DEF Fits, Tidy, AtWork, Off
  <2>3. QED
    BY <1>1, <1>2, <2>1, <2>2, SiteActs DEF Leave, Goto
<1>3. CASE p \notin Job
  <2>1. p \in Host
    BY <1>3, HostedAssumption
  <2>2. Fits(p, Off, disk[p], marker[p])
    BY <2>1, AnyStageFits DEF Off
  <2>3. QED
    BY <1>1, <1>3, <2>2, SiteGoesOn DEF Leave, Goto
<1>4. QED
  BY <1>2, <1>3

\* A journal is filed where no other run is at work.
LEMMA FileRun ==
    ASSUME NEW d \in Disk, Tidy(d), NEW j \in RunJournal, AtWork(d) \subseteq {j.run}
    PROVE  LET e == [d EXCEPT ![j.run] = j]
           IN  /\ e \in Disk /\ Tidy(e) /\ AtWork(e) \subseteq {j.run}
               /\ e[j.run] = j /\ j # None
               /\ \A r \in Run : d[r] # None => e[r] # None
<1> DEFINE e == [d EXCEPT ![j.run] = j]
<1>1. j.run \in Run /\ j # None
  BY LedgerAssumption DEF RunJournal
<1>2. e \in Disk /\ e[j.run] = j /\ \A r \in Run : r # j.run => e[r] = d[r]
  BY <1>1 DEF Disk
<1>3. \A r \in Run : e[r] # None => e[r].run = r
  BY <1>2 DEF Tidy
<1>4. AtWork(e) \subseteq {j.run}
  BY <1>2 DEF AtWork
<1>5. QED
  BY <1>1, <1>2, <1>3, <1>4 DEF Tidy

LEMMA PutFiles ==
    ASSUME Sites, NEW p \in Site, NEW j \in RunJournal, Put(p, j)
    PROVE  disk' = [disk EXCEPT ![p] = [disk[p] EXCEPT ![j.run] = j]]
  BY DEF Sites, Put

\* The one run at work.
LEMMA TheRunIsAtWork ==
    ASSUME Sites, NEW p \in Site, Cardinality(Active(p)) = 1
    PROVE  /\ TheRun(p) \in RunJournal
           /\ disk[p][TheRun(p).run] = TheRun(p)
           /\ AtWork(disk[p]) = {TheRun(p).run}
<1> DEFINE r == CHOOSE r \in Active(p) : TRUE
<1>1. Active(p) = AtWork(disk[p])
  BY DEF Active, AtWork
<1>2. Active(p) # {}
  BY FS_EmptySet
<1>3. r \in Active(p)
  BY <1>2
<1>4. /\ r \in Run /\ disk[p][r] # None /\ disk[p][r] \in RunJournal
  BY <1>3 DEF Active, Sites, Disk
<1>5. disk[p][r].run = r /\ Active(p) = {r}
  BY <1>1, <1>3, <1>4 DEF Sites, Fits, Tidy
<1>6. TheRun(p) = disk[p][r]
  BY DEF TheRun
<1> HIDE DEF r
<1>7. QED
  BY <1>1, <1>4, <1>5, <1>6

-----------------------------------------------------------------------------
(* The steps of a site before it persists.                                 *)

LEMMA CommentsType ==
    ASSUME LedgerTypeOK, NEW i \in 0 .. Len(ledgers)
    PROVE  CommentsOf(i) \in Seq(Event)
<1>1. ledgers \in Seq(Ledger)
  BY DEF LedgerTypeOK
<1>2. i # 0 => ledgers[i] \in Ledger
  BY <1>1
<1>3. i # 0 => ledgers[i].comments \in Seq(Event)
  BY <1>2 DEF Ledger
<1>4. QED
  BY <1>3 DEF CommentsOf

LEMMA ReadType ==
    ASSUME LedgerTypeOK, NEW visible \in SUBSET OpenLedgers, NEW events \in Readable(visible)
    PROVE  /\ events \in Seq(Event)
           /\ events # <<>> => Last(events) \in Event
<1>1. PICK i \in LedgerRead(visible) : events = CommentsOf(i)
  BY DEF Readable
<1>2. DOMAIN ledgers = 1 .. Len(ledgers) /\ Len(ledgers) \in Nat /\ root \in 0 .. Len(ledgers)
  BY DEF LedgerTypeOK
<1>3. i \in 0 .. Len(ledgers)
  BY <1>1, <1>2 DEF LedgerRead, OpenLedgers
<1>4. events \in Seq(Event)
  BY <1>1, <1>3, CommentsType
<1>5. QED
  BY <1>4 DEF Last

LEMMA RestoredType ==
    ASSUME NEW j \in RunJournal
    PROVE  Restored(j, work) \in RunJournal /\ Restored(j, work).run = j.run
<1> DEFINE k == [j EXCEPT !.status = "BLOCKED", !.rev = j.rev + 1]
<1>1. j.rev + 1 \in Nat /\ "BLOCKED" \in RunStatus
  BY DEF RunJournal, RunStatus
<1>2. k \in RunJournal /\ k.run = j.run
  BY <1>1 DEF RunJournal
<1>3. Restored(j, work) \in {j, k}
  BY DEF Restored, RunJournal
<1>4. QED
  BY <1>2, <1>3

LEMMA AdvancesType ==
    ASSUME NEW j \in RunJournal, NEW k \in Advances(j)
    PROVE  k \in RunJournal /\ k.run = j.run
<1>1. j.rev + 1 \in Nat /\ j.prepared \in BOOLEAN /\ j.run \in Run /\ j.issue \in Work
  BY DEF RunJournal
<1>2. \A s \in Offered : s \in RunStatus
  BY HostedAssumption
<1>3. PICK s \in Offered, b \in {j.prepared, TRUE} :
          k = [run |-> j.run, issue |-> j.issue, rev |-> j.rev + 1, status |-> s, prepared |-> b]
  BY DEF Advances
<1>4. b \in BOOLEAN
  BY <1>1
<1>5. QED
  BY <1>1, <1>2, <1>3, <1>4 DEF RunJournal

LEMMA CallType ==
    ASSUME Sites, NEW p \in Site
    PROVE  /\ call[p].stage = "restoring" => call[p].state \in RunJournal
           /\ call[p].stage = "snapshot" => call[p].open \in SUBSET Work
           /\ call[p].stage = "tick" => call[p].run \in Run /\ call[p].lease \in Nat
           /\ call[p].stage \in {"append", "create", "read", "elect", "close"} =>
                  call[p].state \in RunJournal /\ call[p].checkpoint \in Checkpoint \cup {None}
           /\ call[p].stage \in {"elect", "close"} => call[p].candidate \in 1 .. Len(ledgers)
           /\ call[p].stage \in {"comment", "tag"} => call[p].event \in Event
<1>1. call[p] \in SiteCall
  BY DEF Sites
<1>2. QED
  BY <1>1 DEF SiteCall

LEMMA AfterCycleFits ==
    ASSUME Sites, NEW p \in Site
    PROVE  AfterCycle(p) \in SiteCall /\ Fits(p, AfterCycle(p), disk[p], marker[p])
<1>1. AfterCycle(p) \in SiteCall
  BY DEF AfterCycle, SiteCall, Off
<1>2. CASE p \in Job
  <2> DEFINE c == AfterCycle(p)
  <2>1. c.stage = "persist"
    BY <1>2 DEF AfterCycle
  <2> HIDE DEF c
  <2>2. Fits(p, c, disk[p], marker[p])
    BY <2>1, AnyStageFits
  <2>3. QED
    BY <1>1, <2>2 DEF c
<1>3. CASE p \in Host /\ p \notin Job
  <2> DEFINE c == AfterCycle(p)
  <2>1. c.stage = "off"
    BY <1>3 DEF AfterCycle, Off
  <2> HIDE DEF c
  <2>2. Fits(p, c, disk[p], marker[p])
    BY <1>3, <2>1, AnyStageFits
  <2>3. QED
    BY <1>1, <2>2 DEF c
<1>4. QED
  BY <1>1, <1>2, <1>3, HostedAssumption

\* After a cycle that filed a journal.
LEMMA CycleFiles ==
    ASSUME Sites, UNCHANGED <<ledgers, marker>>, NEW p \in Site, NEW j \in RunJournal, Put(p, j),
           AtWork(disk[p]) \subseteq {j.run}, NEW c \in SiteCall, Goto(p, c),
           c.stage \in {"inbox", "cycle", "persist"} \/ (c.stage = "off" /\ p \in Host)
    PROVE  Sites'
<1> DEFINE d == disk[p]
           e == [d EXCEPT ![j.run] = j]
<1>1. d \in Disk /\ Tidy(d) /\ (marker[p] # None => d[marker[p]] # None)
      /\ marker[p] \in Run \cup {None}
  BY DEF Sites, Fits
<1>2. /\ e \in Disk /\ Tidy(e)
      /\ \A r \in Run : d[r] # None => e[r] # None
  BY <1>1, FileRun
<1>3. disk' = [disk EXCEPT ![p] = e] /\ marker' = [marker EXCEPT ![p] = marker[p]]
  BY PutFiles DEF Sites
<1> HIDE DEF e, d
<1>4. Fits(p, c, e, marker[p])
  <2>1. marker[p] # None => e[marker[p]] # None
    BY <1>1, <1>2
  <2>2. ~(p \in Job /\ p \in Host)
    BY HostedAssumption
  <2>3. QED
    BY <1>2, <2>1, <2>2 DEF Fits
<1>5. QED
  BY <1>1, <1>2, <1>3, <1>4, SiteActs DEF Goto

LEMMA AfterCycleFiles ==
    ASSUME Sites, UNCHANGED <<ledgers, marker>>, NEW p \in Site, NEW j \in RunJournal, Put(p, j),
           AtWork(disk[p]) \subseteq {j.run}, Goto(p, AfterCycle(p))
    PROVE  Sites'
<1>1. AfterCycle(p) \in SiteCall
  BY AfterCycleFits
<1>2. AfterCycle(p).stage = "persist" \/ (AfterCycle(p).stage = "off" /\ p \in Host)
  BY HostedAssumption DEF AfterCycle, Off
<1>3. QED
  BY <1>1, <1>2, CycleFiles

\* A cycle ends, or the run of the site is ticked under a lease of its own.
LEMMA DecideResumes ==
    ASSUME NEW p \in Site, Decide(p)
    PROVE  \/ Goto(p, AfterCycle(p))
           \/ /\ lease # None /\ lease.worker = TheRun(p).run
              /\ Goto(p, [stage |-> "tick", run |-> TheRun(p).run, lease |-> lease.id])
<1> DEFINE j == TheRun(p)
           Context(events, external) ==
               ProviderContext(j, main, work[j.issue], IF lease = None THEN {} ELSE {lease},
                               seen, LatestCheckpoint(events), external)
           Resumes(events, external) ==
               /\ CheckpointBinds(j, LatestCheckpoint(events))
               /\ DecideResume(Context(events, external)) = "RESUME_EXISTING"
           c == [stage |-> "tick", run |-> j.run, lease |-> lease.id]
<1>1. PICK visible \in SUBSET OpenLedgers, external \in {"pending", "done"} :
          Goto(p, IF \E events \in Readable(visible) : Resumes(events, external)
                  THEN c ELSE AfterCycle(p))
  BY DEF Decide
<1>2. CASE ~\E events \in Readable(visible) : Resumes(events, external)
  BY <1>1, <1>2
<1>3. ASSUME NEW events \in Readable(visible), Resumes(events, external)
      PROVE  lease # None /\ lease.worker = j.run
  <2>1. /\ Context(events, external).leases = IF lease = None THEN {} ELSE {lease}
        /\ Context(events, external).worker = j.run
    BY DEF ProviderContext
  <2> HIDE DEF Context
  <2>2. QED
    BY <1>3, <2>1, ResumesOwnLease
<1>4. QED
  BY <1>1, <1>2, <1>3

LEMMA CycleStep ==
    ASSUME World, Sites, NEW p \in Site,
           \/ StartJob(p) \/ StartCycle(p) \/ RestoreRead(p) \/ RestoreWrite(p)
           \/ ConsumeResult(p) \/ Snapshot(p) \/ Bootstrap(p) \/ Decide(p) \/ Tick(p)
    PROVE  Sites'
<1>0. UNCHANGED ledgers
  BY DEF Aside, ledgerVars, StartJob, StartCycle, RestoreRead, RestoreWrite, ConsumeResult,
         Snapshot, Bootstrap, Decide, Tick
<1>1. CASE StartJob(p)
  <2>1. [stage |-> "restore"] \in SiteCall
    BY DEF SiteCall
  <2>2. Fits(p, [stage |-> "restore"], disk[p], marker[p])
    BY <1>1 DEF StartJob, Sites, Fits, Off
  <2>3. QED
    BY <1>0, <1>1, <2>1, <2>2, SiteGoesOn DEF StartJob, Goto
<1>2. CASE StartCycle(p)
  <2>1. [stage |-> "cycle"] \in SiteCall
    BY DEF SiteCall
  <2>2. QED
    BY <1>0, <1>2, <2>1, AnyStageFits, SiteGoesOn DEF StartCycle, Goto
<1>3. CASE RestoreRead(p)
  <2>1. p \in Job /\ disk[p] = NoRuns
    BY <1>3 DEF RestoreRead, At, Sites, Fits
  <2>2. PICK visible \in SUBSET OpenLedgers :
            IF Readable(visible) = {} THEN Goto(p, [stage |-> "persist"])
            ELSE \E events \in Readable(visible) :
                     Goto(p, IF events = <<>> THEN [stage |-> "inbox"]
                             ELSE [stage |-> "restoring", state |-> LatestState(events)])
    BY <1>3 DEF RestoreRead
  <2>3. CASE call' = [call EXCEPT ![p] = [stage |-> "persist"]]
             \/ call' = [call EXCEPT ![p] = [stage |-> "inbox"]]
    <3>1. [stage |-> "persist"] \in SiteCall /\ [stage |-> "inbox"] \in SiteCall
      BY DEF SiteCall
    <3>2. QED
      BY <1>0, <1>3, <2>3, <3>1, AnyStageFits, SiteGoesOn DEF RestoreRead
  <2>4. ASSUME NEW events \in Readable(visible), events # <<>>,
               call' = [call EXCEPT ![p] = [stage |-> "restoring", state |-> LatestState(events)]]
        PROVE  Sites'
    <3> DEFINE c == [stage |-> "restoring", state |-> LatestState(events)]
    <3>1. LatestState(events) \in RunJournal
      BY <2>4, ReadType DEF World, LatestState, Event
    <3>2. c \in SiteCall
      BY <3>1 DEF SiteCall
    <3>3. Fits(p, c, disk[p], marker[p])
      BY <2>1 DEF Sites, Fits
    <3> HIDE DEF c
    <3>4. QED
      BY <1>0, <1>3, <2>4, <3>2, <3>3, SiteGoesOn DEF RestoreRead, c
  <2>5. QED
    BY <2>2, <2>3, <2>4 DEF Goto
<1>4. CASE RestoreWrite(p)
  <2> DEFINE j == Restored(call[p].state, work)
             m == call[p].state.run
             e == [disk[p] EXCEPT ![j.run] = j]
  <2>1. /\ disk[p] = NoRuns /\ NoRuns \in Disk /\ Tidy(NoRuns) /\ AtWork(NoRuns) = {}
    BY <1>4 DEF RestoreWrite, At, Sites, Fits, NoRuns, AtWork, Disk
  <2>2. j \in RunJournal /\ j.run = m /\ m \in Run
    <3>1. call[p].state \in RunJournal
      BY <1>4, CallType DEF RestoreWrite, At
    <3>2. QED
      BY <3>1, RestoredType DEF RunJournal
  <2>3. disk' = [disk EXCEPT ![p] = e] /\ marker' = [marker EXCEPT ![p] = m]
    BY <1>4, <2>2, PutFiles DEF RestoreWrite
  <2>4. call' = [call EXCEPT ![p] = [stage |-> "inbox"]] /\ [stage |-> "inbox"] \in SiteCall
    BY <1>4 DEF RestoreWrite, Goto, SiteCall
  <2> HIDE DEF j
  <2>5. e \in Disk /\ Tidy(e) /\ e[m] # None
    BY <2>1, <2>2, FileRun
  <2>6. Fits(p, [stage |-> "inbox"], e, m)
    BY <2>5 DEF Fits
  <2> HIDE DEF e, m
  <2>7. QED
    BY <1>0, <2>2, <2>3, <2>4, <2>5, <2>6, SiteActs
<1>5. CASE ConsumeResult(p)
  <2>1. /\ call' = [call EXCEPT ![p] = [stage |-> "cycle"]] /\ [stage |-> "cycle"] \in SiteCall
        /\ UNCHANGED marker
    BY <1>5 DEF ConsumeResult, Goto, SiteCall
  <2>2. CASE UNCHANGED disk
    BY <1>0, <2>1, <2>2, AnyStageFits, SiteGoesOn
  <2>3. CASE /\ Cardinality(Active(p)) = 1
             /\ \E j \in Advances(TheRun(p)) : Put(p, j)
    <3>1. PICK j \in Advances(TheRun(p)) : Put(p, j)
      BY <2>3
    <3>2. j \in RunJournal /\ j.run = TheRun(p).run /\ AtWork(disk[p]) = {TheRun(p).run}
      BY <2>3, TheRunIsAtWork, AdvancesType
    <3>3. QED
      <4> DEFINE c == [stage |-> "cycle"]
      <4>1. c \in SiteCall /\ c.stage = "cycle" /\ Goto(p, c)
        BY <2>1 DEF Goto
      <4> HIDE DEF c
      <4>2. QED
        BY <1>0, <2>1, <3>1, <3>2, <4>1, CycleFiles
  <2>4. QED
    BY <1>5, <2>2, <2>3 DEF ConsumeResult
<1>6. CASE Snapshot(p)
  <2> DEFINE c == [stage |-> "snapshot", main |-> main, open |-> {i \in Work : work[i] = "open"}]
  <2>1. c \in SiteCall
    BY DEF SiteCall, World
  <2>2. AtWork(disk[p]) = {}
    BY <1>6 DEF Snapshot, Active, AtWork
  <2>3. Fits(p, c, disk[p], marker[p])
    BY <2>2 DEF Fits, Sites
  <2>4. call' = [call EXCEPT ![p] = c]
    BY <1>6 DEF Snapshot, Goto
  <2> HIDE DEF c
  <2>5. QED
    BY <1>0, <1>6, <2>1, <2>3, <2>4, SiteGoesOn DEF Snapshot
<1>7. CASE Bootstrap(p)
  <2> DEFINE pick == Selector!AuthorizeNextAction(ReadyQueue(call[p].open), Healthy, 0)
  <2>1. call[p].open \in SUBSET Work /\ AtWork(disk[p]) = {}
    BY <1>7, CallType DEF Bootstrap, At, Sites, Fits
  <2>2. CASE Goto(p, AfterCycle(p)) /\ UNCHANGED disk
    BY <1>0, <1>7, <2>2, AfterCycleFits, SiteGoesOn DEF Bootstrap, Goto
  <2>3. ASSUME NEW r \in Run, pick.action = "CLAIM_ONE_READY",
               Put(p, [run |-> r, issue |-> pick.issue, rev |-> 0,
                       status |-> "RUNNING", prepared |-> FALSE]),
               Goto(p, [stage |-> "cycle"])
        PROVE  Sites'
    <3> DEFINE j == [run |-> r, issue |-> pick.issue, rev |-> 0,
                     status |-> "RUNNING", prepared |-> FALSE]
    <3>1. pick.issue \in Work
      BY <2>1, <2>3, PickedIsOpen
    <3>2. j \in RunJournal /\ j.run = r
      BY <3>1 DEF RunJournal, RunStatus
    <3>3. [stage |-> "cycle"] \in SiteCall /\ UNCHANGED marker
      BY <1>7 DEF SiteCall, Bootstrap
    <3>4. Put(p, j)
      BY <2>3
    <3> DEFINE c == [stage |-> "cycle"]
    <3>5. c \in SiteCall /\ c.stage = "cycle" /\ Goto(p, c)
      BY <2>3, <3>3
    <3> HIDE DEF j, c
    <3>6. QED
      BY <1>0, <2>1, <3>2, <3>3, <3>4, <3>5, CycleFiles
  <2>4. QED
    BY <1>7, <2>2, <2>3 DEF Bootstrap
<1>8. CASE Decide(p)
  <2>1. UNCHANGED <<disk, marker>>
    BY <1>8 DEF Decide
  <2>2. CASE Goto(p, AfterCycle(p))
    BY <1>0, <2>1, <2>2, AfterCycleFits, SiteGoesOn DEF Goto
  <2>3. CASE lease # None /\ Goto(p, [stage |-> "tick", run |-> TheRun(p).run, lease |-> lease.id])
    <3> DEFINE c == [stage |-> "tick", run |-> TheRun(p).run, lease |-> lease.id]
    <3>1. /\ TheRun(p) \in RunJournal /\ disk[p][TheRun(p).run] = TheRun(p)
          /\ AtWork(disk[p]) = {TheRun(p).run}
      BY <1>8, TheRunIsAtWork DEF Decide
    <3>2. TheRun(p).run \in Run /\ TheRun(p) # None /\ lease.id \in Nat
      BY <2>3, <3>1, LedgerAssumption DEF RunJournal, World, WorkLease
    <3>3. c \in SiteCall
      BY <3>2 DEF SiteCall
    <3>4. Fits(p, c, disk[p], marker[p])
      BY <3>1, <3>2 DEF Fits, Sites
    <3>5. call' = [call EXCEPT ![p] = c]
      BY <2>3 DEF Goto
    <3> HIDE DEF c
    <3>6. QED
      BY <1>0, <2>1, <3>3, <3>4, <3>5, SiteGoesOn
  <2>4. QED
    BY <1>8, <2>2, <2>3, DecideResumes
<1>9. CASE Tick(p)
  <2> DEFINE j == disk[p][call[p].run]
  <2>1. /\ call[p].run \in Run /\ j \in RunJournal /\ j.run = call[p].run
        /\ AtWork(disk[p]) \subseteq {call[p].run}
    BY <1>9, CallType DEF Tick, At, Sites, Fits, Tidy, Disk
  <2>2. PICK k \in Advances(j) : Put(p, k)
    BY <1>9 DEF Tick
  <2>3. k \in RunJournal /\ k.run = j.run
    BY <2>1, AdvancesType
  <2>4. Goto(p, AfterCycle(p)) /\ UNCHANGED marker
    BY <1>9 DEF Tick
  <2> HIDE DEF j
  <2>5. QED
    BY <1>0, <2>1, <2>2, <2>3, <2>4, AfterCycleFiles
<1>10. QED
  BY <1>1, <1>2, <1>3, <1>4, <1>5, <1>6, <1>7, <1>8, <1>9

-----------------------------------------------------------------------------
(* The steps of persisting, and those that end a call.                     *)

\* Whoever reads, writes or closes a ledger in an append found a root.
Rooted == \A p \in Site : call[p].stage \in {"read", "close", "comment", "tag"} => root # 0

LEMMA CallsGrow ==
    ASSUME Len(ledgers) \in Nat, Len(ledgers') \in Nat, Len(ledgers) <= Len(ledgers')
    PROVE  SiteCall \subseteq SiteCall'
<1>1. 1 .. Len(ledgers) \subseteq 1 .. Len(ledgers')
  OBVIOUS
<1>2. QED
  BY <1>1 DEF SiteCall

LEMMA AppendGoesOn ==
    ASSUME Sites, SiteCall \subseteq SiteCall', NEW p \in Site, NEW c, c \in SiteCall',
           Goto(p, c), c.stage \in {"read", "create", "elect", "close", "comment", "tag"},
           IF call'[p] = Off THEN Leave(p) ELSE UNCHANGED <<disk, marker>>
    PROVE  Sites'
<1>1. call'[p] = c /\ \A q \in Site : q # p => call'[q] = call[q]
  BY DEF Goto, Sites
<1>2. c # Off
  BY DEF Off
<1>3. UNCHANGED <<disk, marker>>
  BY <1>1, <1>2
<1>4. Fits(p, c, disk[p], marker[p])
  BY AnyStageFits
<1>5. call' \in [Site -> SiteCall']
  BY DEF Goto, Sites
<1>6. \A q \in Site : Fits(q, call'[q], disk'[q], marker'[q])
  BY <1>1, <1>3, <1>4 DEF Sites
<1>7. QED
  BY <1>3, <1>5, <1>6 DEF Sites

LEMMA AppendEnds ==
    ASSUME Sites, UNCHANGED ledgers, NEW p \in Site, Goto(p, Off),
           IF call'[p] = Off THEN Leave(p) ELSE UNCHANGED <<disk, marker>>
    PROVE  Sites'
<1>1. call'[p] = Off
  BY DEF Goto, Sites
<1>2. QED
  BY <1>1, SiteLeaves

LEMMA EventType ==
    ASSUME LedgerTypeOK, NEW p \in Site, NEW state \in RunJournal,
           NEW checkpoint \in Checkpoint \cup {None}
    PROVE  LET events == CommentsOf(root)
           IN  [stamp |-> <<p, Published>>, sequence |-> Len(events) + 1,
                prev |-> IF events = <<>> THEN None ELSE Last(events).stamp,
                state |-> state, checkpoint |-> checkpoint] \in Event
<1> DEFINE events == CommentsOf(root)
<1>1. events \in Seq(Event)
  BY CommentsType DEF LedgerTypeOK
<1>2. <<p, Published>> \in Stamp
  BY Publishing DEF Stamp
<1> HIDE DEF events
<1>3. Len(events) + 1 \in Nat
  BY <1>1
<1>4. events # <<>> => Last(events).stamp \in Stamp
  <2>1. events # <<>> => Last(events) \in Event
    BY <1>1 DEF Last
  <2>2. QED
    BY <2>1 DEF Event
<1>5. (IF events = <<>> THEN None ELSE Last(events).stamp) \in Stamp \cup {None}
  BY <1>4
<1> DEFINE prev == IF events = <<>> THEN None ELSE Last(events).stamp
<1> HIDE DEF prev
<1>6. [stamp |-> <<p, Published>>, sequence |-> Len(events) + 1, prev |-> prev,
       state |-> state, checkpoint |-> checkpoint] \in Event
  BY <1>2, <1>3, <1>5 DEF Event, prev
<1>7. QED
  BY <1>6 DEF prev, events

LEMMA PersistSitesStep ==
    ASSUME LedgerTypeOK, LedgerTypeOK', Sites, NEW p \in Site, PersistStep(p)
    PROVE  Sites'
<1> DEFINE k == call[p]
           leaving == IF call'[p] = Off THEN Leave(p) ELSE UNCHANGED <<disk, marker>>
<1>0. leaving /\ Len(ledgers) \in Nat /\ Len(ledgers') \in Nat
  BY DEF PersistStep, LedgerTypeOK
<1>1. CASE EnsureIssue(p, Off)
  <2>1. UNCHANGED ledgers /\ SiteCall \subseteq SiteCall' /\ k.stage = "append"
    BY <1>1 DEF EnsureIssue, ledgerVars, SiteCall, At
  <2>2. k.state \in RunJournal /\ k.checkpoint \in Checkpoint \cup {None} /\ k \in SiteCall
    BY <2>1, CallType DEF Sites
  <2>3. k = Appending("append", k.state, k.checkpoint)
    BY <2>1, <2>2 DEF SiteCall, Appending
  <2> DEFINE c(s) == [k EXCEPT !.stage = s]
  <2>4. ASSUME NEW s \in {"read", "create"}, Goto(p, c(s)) PROVE Sites'
    <3>1. c(s) \in SiteCall /\ c(s).stage = s
      BY <2>2, <2>3 DEF Appending, SiteCall
    <3> HIDE DEF c
    <3>2. QED
      BY <1>0, <2>1, <2>4, <3>1, AppendGoesOn
  <2>5. ASSUME NEW visible \in SUBSET OpenLedgers, visible # {},
               Goto(p, [stage |-> "elect", state |-> k.state, checkpoint |-> k.checkpoint,
                        candidate |-> CHOOSE i \in visible : TRUE, created |-> FALSE])
        PROVE  Sites'
    <3> DEFINE i == CHOOSE i \in visible : TRUE
               e == [stage |-> "elect", state |-> k.state, checkpoint |-> k.checkpoint,
                     candidate |-> i, created |-> FALSE]
    <3>1. i \in visible
      BY <2>5
    <3>2. i \in 1 .. Len(ledgers)
      BY <3>1 DEF OpenLedgers, LedgerTypeOK
    <3> HIDE DEF i
    <3>3. e \in SiteCall /\ e.stage = "elect"
      BY <2>2, <3>2 DEF SiteCall
    <3>4. Goto(p, e)
      BY <2>5 DEF i
    <3> HIDE DEF e
    <3>5. QED
      BY <1>0, <2>1, <3>3, <3>4, AppendGoesOn
  <2>6. Goto(p, Off) => Sites'
    BY <1>0, <2>1, AppendEnds
  <2>7. QED
    BY <1>1, <2>4, <2>5, <2>6 DEF EnsureIssue
<1>2. CASE CreateLedger(p)
  <2> DEFINE e == [stage |-> "elect", state |-> k.state, checkpoint |-> k.checkpoint,
                   candidate |-> Len(ledgers) + 1, created |-> TRUE]
  <2>1. k.state \in RunJournal /\ k.checkpoint \in Checkpoint \cup {None}
    BY <1>2, CallType DEF CreateLedger, At
  <2>2. Len(ledgers') = Len(ledgers) + 1
    BY <1>2 DEF CreateLedger, LedgerTypeOK
  <2>3. e \in SiteCall' /\ e.stage = "elect"
    BY <1>0, <2>1, <2>2 DEF SiteCall
  <2>4. SiteCall \subseteq SiteCall'
    BY <1>0, <2>2, CallsGrow
  <2>5. Goto(p, e)
    BY <1>2 DEF CreateLedger
  <2> HIDE DEF e
  <2>6. QED
    BY <1>0, <2>3, <2>4, <2>5, AppendGoesOn
<1>3. CASE Elect(p, Off)
  <2>1. UNCHANGED ledgers /\ SiteCall \subseteq SiteCall' /\ k.stage = "elect" /\ k \in SiteCall
    BY <1>3 DEF Elect, SiteCall, At, Sites
  <2>2. k.state \in RunJournal /\ k.checkpoint \in Checkpoint \cup {None}
    BY <2>1, CallType
  <2> DEFINE r == Appending("read", k.state, k.checkpoint)
             c == [k EXCEPT !.stage = "close"]
  <2>3. r \in SiteCall /\ r.stage = "read"
    BY <2>2 DEF Appending, SiteCall
  <2>4. c \in SiteCall /\ c.stage = "close"
    BY <2>1 DEF SiteCall
  <2>5. Goto(p, r) \/ Goto(p, c) \/ Goto(p, Off)
    BY <1>3 DEF Elect
  <2> HIDE DEF r, c
  <2>6. QED
    BY <1>0, <2>1, <2>3, <2>4, <2>5, AppendGoesOn, AppendEnds
<1>4. CASE CloseCandidate(p)
  <2>1. k.state \in RunJournal /\ k.checkpoint \in Checkpoint \cup {None}
    BY <1>4, CallType DEF CloseCandidate, At
  <2> DEFINE r == Appending("read", k.state, k.checkpoint)
  <2>2. r \in SiteCall /\ r.stage = "read"
    BY <2>1 DEF Appending, SiteCall
  <2>3. Len(ledgers') = Len(ledgers)
    BY <1>4 DEF CloseCandidate, LedgerTypeOK
  <2>4. SiteCall \subseteq SiteCall'
    BY <1>0, <2>3, CallsGrow
  <2>5. Goto(p, r)
    BY <1>4 DEF CloseCandidate
  <2> HIDE DEF r
  <2>6. QED
    BY <1>0, <2>2, <2>4, <2>5, AppendGoesOn
<1>5. CASE ReadLedger(p, Off)
  <2>1. UNCHANGED ledgers /\ SiteCall \subseteq SiteCall'
    BY <1>5 DEF ReadLedger, ledgerVars, SiteCall
  <2>2. k.state \in RunJournal /\ k.checkpoint \in Checkpoint \cup {None}
    BY <1>5, CallType DEF ReadLedger, At
  <2> DEFINE events == CommentsOf(root)
             event  == [stamp |-> <<p, Published>>, sequence |-> Len(events) + 1,
                        prev |-> IF events = <<>> THEN None ELSE Last(events).stamp,
                        state |-> k.state, checkpoint |-> k.checkpoint]
             c == [stage |-> "comment", event |-> event]
  <2>3. event \in Event
    BY <2>2, EventType
  <2>4. Goto(p, c) \/ Goto(p, Off)
    BY <1>5 DEF ReadLedger
  <2> HIDE DEF event
  <2>5. c \in SiteCall /\ c.stage = "comment"
    BY <2>3 DEF SiteCall
  <2> HIDE DEF c
  <2>6. QED
    BY <1>0, <2>1, <2>4, <2>5, AppendGoesOn, AppendEnds
<1>6. CASE AddComment(p)
  <2>1. k \in SiteCall /\ k.stage = "comment"
    BY <1>6 DEF AddComment, At, Sites
  <2> DEFINE c == [k EXCEPT !.stage = "tag"]
  <2>2. c \in SiteCall /\ c.stage = "tag"
    BY <2>1 DEF SiteCall
  <2>3. Len(ledgers') = Len(ledgers)
    BY <1>6 DEF AddComment, LedgerTypeOK
  <2>4. SiteCall \subseteq SiteCall'
    BY <1>0, <2>3, CallsGrow
  <2>5. Goto(p, c)
    BY <1>6 DEF AddComment
  <2> HIDE DEF c
  <2>6. QED
    BY <1>0, <2>2, <2>4, <2>5, AppendGoesOn
<1>7. CASE AddTag(p, Off)
  BY <1>0, <1>7, AppendEnds DEF AddTag
<1>8. QED
  BY <1>1, <1>2, <1>3, <1>4, <1>5, <1>6, <1>7 DEF PersistStep, AppendStep

\* The ledgers keep their type: a comment is added, or one is gone.
LEMMA LedgerKeepsType ==
    ASSUME LedgerTypeOK, NEW i \in 1 .. Len(ledgers), NEW g \in Ledger,
           ledgers' = [ledgers EXCEPT ![i] = g], UNCHANGED <<root, tags, acked>>
    PROVE  LedgerTypeOK' /\ Len(ledgers') = Len(ledgers)
<1>1. ledgers \in Seq(Ledger)
  BY DEF LedgerTypeOK
<1>2. ledgers' \in Seq(Ledger) /\ Len(ledgers') = Len(ledgers)
  BY <1>1, ExceptSeq
<1>3. QED
  BY <1>2 DEF LedgerTypeOK

LEMMA LedgerType ==
    ASSUME LedgerTypeOK, NEW i \in 1 .. Len(ledgers)
    PROVE  /\ ledgers[i] \in Ledger
           /\ ledgers[i].comments \in Seq(Event)
           /\ [ledgers[i] EXCEPT !.open = FALSE] \in Ledger
           /\ \A es \in Seq(Event) : [ledgers[i] EXCEPT !.comments = es] \in Ledger
<1>1. ledgers \in Seq(Ledger)
  BY DEF LedgerTypeOK
<1>2. ledgers[i] \in Ledger
  BY <1>1
<1>3. QED
  BY <1>2 DEF Ledger

LEMMA LedgerTypeStep ==
    ASSUME LedgerTypeOK, Sites, Rooted, NEW p \in Site, PersistStep(p)
    PROVE  LedgerTypeOK'
<1>0. Len(ledgers) \in Nat /\ ledgers \in Seq(Ledger) /\ root \in 0 .. Len(ledgers)
  BY DEF LedgerTypeOK
<1>1. CASE EnsureIssue(p, Off) \/ ReadLedger(p, Off)
  BY <1>1 DEF EnsureIssue, ReadLedger, ledgerVars, LedgerTypeOK
<1>2. CASE CreateLedger(p)
  <2>1. [open |-> TRUE, comments |-> <<>>] \in Ledger
    BY DEF Ledger
  <2>2. ledgers' \in Seq(Ledger) /\ Len(ledgers') = Len(ledgers) + 1
    BY <1>0, <1>2, <2>1, AppendProperties DEF CreateLedger
  <2>3. QED
    BY <1>0, <1>2, <2>2, LedgerAssumption DEF CreateLedger, LedgerTypeOK
<1>3. CASE Elect(p, Off)
  <2>1. call[p].candidate \in 1 .. Len(ledgers)
    BY <1>3, CallType DEF Elect, At
  <2>2. QED
    BY <1>0, <1>3, <2>1 DEF Elect, LedgerTypeOK
<1>4. CASE CloseCandidate(p)
  <2> DEFINE i == call[p].candidate
  <2>1. i \in 1 .. Len(ledgers)
    BY <1>4, CallType DEF CloseCandidate, At
  <2>2. ledgers' = [ledgers EXCEPT ![i] = [ledgers[i] EXCEPT !.open = FALSE]]
    BY <1>4 DEF CloseCandidate
  <2>3. UNCHANGED <<root, tags, acked>>
    BY <1>4 DEF CloseCandidate
  <2> HIDE DEF i
  <2>4. QED
    BY <2>1, <2>2, <2>3, LedgerType, LedgerKeepsType
<1>5. CASE AddComment(p)
  <2> DEFINE es == Append(ledgers[root].comments, call[p].event)
  <2>1. call[p].event \in Event /\ root \in 1 .. Len(ledgers)
    BY <1>0, <1>5, CallType DEF AddComment, At, Rooted
  <2>2. es \in Seq(Event)
    BY <2>1, LedgerType, AppendProperties
  <2>3. ledgers' = [ledgers EXCEPT ![root] = [ledgers[root] EXCEPT !.comments = es]]
    BY <1>5 DEF AddComment
  <2>4. UNCHANGED <<root, tags, acked>>
    BY <1>5 DEF AddComment
  <2> HIDE DEF es
  <2>5. QED
    BY <2>1, <2>2, <2>3, <2>4, LedgerType, LedgerKeepsType
<1>6. CASE AddTag(p, Off)
  <2>1. call[p].event.stamp \in Stamp
    BY <1>6, CallType DEF AddTag, At, Event
  <2>2. QED
    BY <1>6, <2>1 DEF AddTag, LedgerTypeOK
<1>7. QED
  BY <1>1, <1>2, <1>3, <1>4, <1>5, <1>6 DEF PersistStep, AppendStep

LEMMA LossKeepsType ==
    ASSUME LedgerTypeOK, NEW i \in DOMAIN ledgers, NEW k, LoseComment(i, k)
    PROVE  LedgerTypeOK' /\ Len(ledgers') = Len(ledgers)
<1> DEFINE es == ledgers[i].comments
           left == SubSeq(es, 1, k - 1)
           right == SubSeq(es, k + 1, Len(es))
<1>1. i \in 1 .. Len(ledgers)
  BY DEF LedgerTypeOK
<1>2. es \in Seq(Event)
  BY <1>1, LedgerType
<1>3. k \in 1 .. Len(es) /\ Len(es) \in Nat
  BY <1>2 DEF LoseComment
<1> HIDE DEF es
<1>4. left \in Seq(Event)
  <2>1. 1 \in Int /\ k - 1 \in Int /\ \A n \in 1 .. k - 1 : es[n] \in Event
    BY <1>2, <1>3
  <2>2. QED
    BY <2>1, SubSeqProperties
<1>5. right \in Seq(Event)
  <2>1. k + 1 \in Int /\ Len(es) \in Int /\ \A n \in k + 1 .. Len(es) : es[n] \in Event
    BY <1>2, <1>3
  <2>2. QED
    BY <2>1, SubSeqProperties
<1>6. left \o right \in Seq(Event)
  BY <1>4, <1>5, ConcatProperties
<1>7. ledgers' = [ledgers EXCEPT ![i] = [ledgers[i] EXCEPT !.comments = left \o right]]
  BY DEF LoseComment, RemoveAt, es
<1>8. UNCHANGED <<root, tags, acked>>
  BY DEF LoseComment
<1> HIDE DEF left, right
<1>9. QED
  BY <1>1, <1>6, <1>7, <1>8, LedgerType, LedgerKeepsType

LEMMA OtherSitesStep ==
    ASSUME World, Sites, NEW p \in Site,
           Persist(p) \/ PersistByHand(p) \/ FailStep(p) \/ Die(p)
    PROVE  Sites'
<1>0. UNCHANGED ledgers
  BY DEF Aside, ledgerVars, Persist, PersistByHand, FailStep, Die
<1>1. ASSUME NEW j \in RunJournal, NEW k \in Checkpoint \cup {None},
             Goto(p, Appending("append", j, k)), UNCHANGED <<disk, marker>>
      PROVE  Sites'
  <2> DEFINE c == Appending("append", j, k)
  <2>1. c \in SiteCall /\ c.stage = "append"
    BY DEF Appending, SiteCall
  <2> HIDE DEF c
  <2>2. Fits(p, c, disk[p], marker[p])
    BY <2>1, AnyStageFits
  <2>3. call' = [call EXCEPT ![p] = c]
    BY <1>1 DEF Goto, c
  <2>4. QED
    BY <1>0, <1>1, <2>1, <2>2, <2>3, SiteGoesOn
<1>2. CASE Persist(p)
  <2>1. CASE PersistState(p) = {}
    BY <1>0, <1>2, <2>1, SiteLeaves DEF Persist
  <2>2. CASE PersistState(p) # {}
    <3> DEFINE j == CHOOSE j \in PersistState(p) : TRUE
    <3>1. PersistState(p) \subseteq RunJournal
      <4>1. Cardinality(Active(p)) = 1 => TheRun(p) \in RunJournal
        BY TheRunIsAtWork
      <4>2. marker[p] # None => disk[p][marker[p]] \in RunJournal
        BY DEF Sites, Fits, Disk
      <4>3. QED
        BY <4>1, <4>2 DEF PersistState
    <3>2. j \in RunJournal
      BY <2>2, <3>1
    <3> HIDE DEF j
    <3>3. CheckpointOf(j) \in Checkpoint
      <4>1. WorkBranch(j) \in Run \cup {Trunk} /\ j.issue \in Work
        BY <3>2 DEF WorkBranch, RunJournal
      <4>2. (IF lease # None /\ lease.worker = j.run THEN lease.id ELSE None) \in Nat \cup {None}
        BY DEF World, WorkLease
      <4>3. QED
        BY <4>1, <4>2 DEF CheckpointOf, Checkpoint, World
    <3>4. \E k \in {None} \cup (IF Handed < Handovers THEN {CheckpointOf(j)} ELSE {}) :
              Goto(p, Appending("append", j, k))
      BY <1>2, <2>2 DEF Persist, j
    <3>5. PICK k \in {None, CheckpointOf(j)} : Goto(p, Appending("append", j, k))
      BY <3>4
    <3>6. UNCHANGED <<disk, marker>>
      BY <1>2, <2>2 DEF Persist
    <3>7. k \in Checkpoint \cup {None}
      BY <3>3, <3>5
    <3>8. QED
      BY <1>1, <3>2, <3>5, <3>6, <3>7
  <2>3. QED
    BY <2>1, <2>2
<1>3. CASE PersistByHand(p)
  <2>1. PICK r \in Run : disk[p][r] # None /\ Goto(p, Appending("append", disk[p][r], None))
    BY <1>3 DEF PersistByHand
  <2>2. disk[p][r] \in RunJournal /\ UNCHANGED <<disk, marker>>
    BY <1>3, <2>1 DEF PersistByHand, Sites, Disk
  <2>3. QED
    BY <1>1, <2>1, <2>2
<1>4. CASE FailStep(p)
  BY <1>0, <1>4, AfterCycleFits, SiteGoesOn DEF FailStep, Goto
<1>5. CASE Die(p)
  BY <1>0, <1>5, SiteLeaves DEF Die
<1>6. QED
  BY <1>2, <1>3, <1>4, <1>5

-----------------------------------------------------------------------------
(* The world, and every step.                                              *)

LEMMA RunsAtWorkType ==
    ASSUME World, Sites
    PROVE  RunsAtWork \subseteq RunJournal
<1>1. ASSUME NEW p \in Site, NEW r \in Active(p) PROVE disk[p][r] \in RunJournal
  BY <1>1 DEF Active, Sites, Disk
<1>2. ASSUME NEW g \in ToSet(ledgers), g.comments # <<>> PROVE Last(g.comments).state \in RunJournal
  <2>1. PICK i \in 1 .. Len(ledgers) : g = ledgers[i]
    BY <1>2 DEF ToSet, World, LedgerTypeOK
  <2>2. g.comments \in Seq(Event)
    BY <2>1, LedgerType DEF World
  <2>3. Last(g.comments) \in Event
    BY <1>2, <2>2 DEF Last
  <2>4. QED
    BY <2>3 DEF Event
<1>3. ASSUME NEW j \in RunsAtWork PROVE j \in RunJournal
  <2>1. CASE \E p \in Site : j \in {disk[p][r] : r \in Active(p)}
    BY <1>1, <2>1
  <2>2. CASE j \in {Last(g.comments).state : g \in {g \in ToSet(ledgers) : g.comments # <<>>}}
    BY <1>2, <2>2
  <2> DEFINE onDisk   == UNION {{disk[p][r] : r \in Active(p)} : p \in Site}
             recorded == {Last(g.comments).state : g \in {g \in ToSet(ledgers) : g.comments # <<>>}}
  <2>3. RunsAtWork = onDisk \cup recorded
    BY DEF RunsAtWork
  <2>4. j \in onDisk \/ j \in recorded
    <3> HIDE DEF onDisk, recorded
    <3>1. QED
      BY <1>3, <2>3
  <2>5. QED
    BY <2>1, <2>2, <2>4
<1>4. QED
  BY <1>3

LEMMA WorldStep ==
    ASSUME World, Sites, Rooted, Next
    PROVE  World'
<1>1. ASSUME NEW p \in Site, PersistStep(p) PROVE World'
  <2>1. LedgerTypeOK'
    BY <1>1, LedgerTypeStep DEF World
  <2>2. QED
    BY <1>1, <2>1 DEF PersistStep, worldVars, World
<1>2. ASSUME UNCHANGED ledgerVars PROVE LedgerTypeOK'
  BY <1>2 DEF World, LedgerTypeOK, ledgerVars
<1>3. ASSUME NEW p \in Site, Tick(p) PROVE World'
  <2> DEFINE j == disk[p][call[p].run]
  <2>1. call[p].run \in Run /\ call[p].lease \in Nat /\ j.run = call[p].run
    BY <1>3, CallType DEF Tick, At, Sites, Fits, Tidy
  <2>2. ticked' = ticked \cup {<<call[p].lease, j.run>>}
    BY <1>3 DEF Tick
  <2>3. ticked' \subseteq Nat \X Run
    BY <2>1, <2>2 DEF World
  <2>4. QED
    BY <1>2, <1>3, <2>3 DEF Tick, Aside, worldVars, World
<1>4. ASSUME NEW p \in Site,
             \/ StartJob(p) \/ StartCycle(p) \/ RestoreRead(p) \/ RestoreWrite(p)
             \/ ConsumeResult(p) \/ Snapshot(p) \/ Bootstrap(p) \/ Decide(p)
             \/ Persist(p) \/ PersistByHand(p) \/ FailStep(p) \/ Die(p)
      PROVE  World'
  <2>1. UNCHANGED <<ledgerVars, main, work, lease, leases, seen, ticked>>
    BY <1>4 DEF Aside, worldVars, StartJob, StartCycle, RestoreRead, RestoreWrite,
           ConsumeResult, Snapshot, Bootstrap, Decide, Persist, PersistByHand, FailStep, Die
  <2>2. QED
    BY <1>2, <2>1 DEF World
<1>5. ASSUME NEW j \in RunsAtWork, AcquireLease(j) PROVE World'
  <2>1. j \in RunJournal
    BY RunsAtWorkType
  <2>2. WorkBranch(j) \in Run \cup {Trunk} /\ j.run \in Run /\ j.issue \in Work
    BY <2>1 DEF WorkBranch, RunJournal
  <2>3. lease' \in WorkLease
    BY <1>5, <2>2 DEF AcquireLease, WorkLease, World
  <2>4. leases' \in Nat /\ seen' \in Nat
    BY <1>5 DEF AcquireLease, World
  <2>5. QED
    BY <1>2, <1>5, <2>3, <2>4 DEF AcquireLease, Elsewhere, World
<1>6. ASSUME NEW i \in Work, SetIssue(i) PROVE World'
  <2>1. work' \in [Work -> {"open", "closed"}]
    BY <1>6 DEF SetIssue, World
  <2>2. QED
    BY <1>2, <1>6, <2>1 DEF SetIssue, Elsewhere, World
<1>7. ASSUME MoveMain PROVE World'
  BY <1>2, <1>7 DEF MoveMain, Elsewhere, World
<1>8. ASSUME LeaseGoesOn PROVE World'
  <2>1. lease' \in WorkLease \cup {None}
    BY <1>8 DEF LeaseGoesOn, WorkLease, World
  <2>2. seen' \in Nat
    BY <1>8 DEF LeaseGoesOn, World
  <2>3. QED
    BY <1>2, <1>8, <2>1, <2>2 DEF LeaseGoesOn, Elsewhere, World
<1>9. ASSUME Lose PROVE World'
  BY <1>9, LossKeepsType DEF Lose, World
<1>10. QED
  BY <1>1, <1>3, <1>4, <1>5, <1>6, <1>7, <1>8, <1>9 DEF Next, SiteStep

LEMMA SitesStep ==
    ASSUME World, Sites, Rooted, Next
    PROVE  Sites'
<1>1. ASSUME NEW p \in Site, PersistStep(p) PROVE Sites'
  BY <1>1, LedgerTypeStep, PersistSitesStep DEF World
<1>2. ASSUME UNCHANGED <<ledgers, call, disk, marker>> PROVE Sites'
  <2>1. SiteCall' = SiteCall
    BY <1>2 DEF SiteCall
  <2>2. QED
    BY <1>2, <2>1 DEF Sites
<1>3. ASSUME Lose PROVE Sites'
  <2>1. LedgerTypeOK' /\ Len(ledgers') = Len(ledgers) /\ UNCHANGED <<call, disk, marker>>
    BY <1>3, LossKeepsType DEF Lose, LoseComment, World
  <2>2. SiteCall \subseteq SiteCall'
    BY <2>1, CallsGrow DEF World, LedgerTypeOK
  <2>3. QED
    BY <2>1, <2>2 DEF Sites
<1>4. ASSUME \/ \E j \in RunsAtWork : AcquireLease(j)
             \/ \E i \in Work : SetIssue(i)
             \/ MoveMain \/ LeaseGoesOn
      PROVE  Sites'
  BY <1>2, <1>4 DEF AcquireLease, SetIssue, MoveMain, LeaseGoesOn, Elsewhere, ledgerVars
<1>5. QED
  BY <1>1, <1>3, <1>4, CycleStep, OtherSitesStep DEF Next, SiteStep

\* The stage a site is at changes only by its own step.
LEMMA SiteMoves ==
    ASSUME Sites, NEW p \in Site, NEW c, Goto(p, c)
    PROVE  call'[p] = c /\ \A q \in Site : q # p => call'[q] = call[q]
  BY DEF Sites, Goto

LEMMA AfterCycleStage ==
    ASSUME NEW p
    PROVE  AfterCycle(p).stage \in {"persist", "off"} /\ Off.stage = "off"
  BY DEF AfterCycle, Off

AppendStages == {"append", "create", "elect", "read", "close", "comment", "tag"}

\* Only a decision leads to a tick, and only persisting to an append.
LEMMA QuietMoves ==
    ASSUME Sites, NEW p \in Site,
           \/ StartJob(p) \/ StartCycle(p) \/ RestoreRead(p) \/ RestoreWrite(p)
           \/ ConsumeResult(p) \/ Snapshot(p) \/ Bootstrap(p) \/ Tick(p)
           \/ Persist(p) \/ PersistByHand(p) \/ FailStep(p) \/ Die(p)
    PROVE  /\ UNCHANGED <<root, ledgers, tags, acked>>
           /\ \A q \in Site : q # p => call'[q] = call[q]
           /\ call'[p].stage \notin (AppendStages \ {"append"}) \cup {"tick"}
<1>1. UNCHANGED <<root, ledgers, tags, acked>>
  BY DEF Aside, ledgerVars, StartJob, StartCycle, RestoreRead, RestoreWrite, ConsumeResult,
         Snapshot, Bootstrap, Tick, Persist, PersistByHand, FailStep, Die
<1> DEFINE moved == /\ \A q \in Site : q # p => call'[q] = call[q]
                    /\ call'[p].stage \notin (AppendStages \ {"append"}) \cup {"tick"}
<1>2. ASSUME NEW c, Goto(p, c), c.stage \notin (AppendStages \ {"append"}) \cup {"tick"} PROVE moved
  BY <1>2, SiteMoves
<1>f. call \in [Site -> SiteCall]
  BY DEF Sites
<1>3. Goto(p, AfterCycle(p)) \/ Goto(p, Off) => moved
  <2>1. Goto(p, AfterCycle(p)) => call'[p] = AfterCycle(p) /\ moved
    BY SiteMoves, AfterCycleStage DEF AppendStages
  <2>2. Goto(p, Off) => call'[p] = Off /\ moved
    BY SiteMoves, AfterCycleStage DEF AppendStages
  <2>3. QED
    BY <2>1, <2>2
<1>4. ASSUME StartJob(p) \/ StartCycle(p) \/ RestoreWrite(p) \/ ConsumeResult(p) \/ Snapshot(p) PROVE moved
  <2>1. \/ Goto(p, [stage |-> "restore"]) \/ Goto(p, [stage |-> "cycle"])
        \/ Goto(p, [stage |-> "inbox"])
        \/ \E m, o : Goto(p, [stage |-> "snapshot", main |-> m, open |-> o])
    BY <1>4 DEF StartJob, StartCycle, RestoreWrite, ConsumeResult, Snapshot
  <2>2. QED
    BY <1>f, <2>1 DEF Goto, AppendStages
<1>5. ASSUME RestoreRead(p) PROVE moved
  <2>1. \/ Goto(p, [stage |-> "persist"]) \/ Goto(p, [stage |-> "inbox"])
        \/ \E events : Goto(p, [stage |-> "restoring", state |-> LatestState(events)])
    BY <1>5 DEF RestoreRead
  <2>2. QED
    BY <1>f, <2>1 DEF Goto, AppendStages
<1>6. ASSUME Bootstrap(p) PROVE moved
  <2>1. Goto(p, AfterCycle(p)) \/ Goto(p, [stage |-> "cycle"])
    BY <1>6 DEF Bootstrap
  <2>2. QED
    BY <1>3, <1>f, <2>1 DEF Goto, AppendStages
<1>8. ASSUME Tick(p) \/ FailStep(p) \/ Die(p) PROVE moved
  <2>1. Goto(p, AfterCycle(p)) \/ Goto(p, Off)
    BY <1>8 DEF Tick, FailStep, Die
  <2> HIDE DEF moved
  <2>2. QED
    BY <1>3, <2>1
<1>9. ASSUME Persist(p) \/ PersistByHand(p) PROVE moved
  <2>1. Goto(p, Off) \/ \E j, k : Goto(p, Appending("append", j, k))
    BY <1>9 DEF Persist, PersistByHand
  <2>2. ASSUME NEW j, NEW k, Goto(p, Appending("append", j, k)) PROVE moved
    BY <1>f, <2>2 DEF Goto, Appending, AppendStages
  <2> HIDE DEF moved
  <2>3. QED
    BY <1>3, <2>1, <2>2
<1>10. QED
  BY <1>1, <1>4, <1>5, <1>6, <1>8, <1>9

LEMMA DecideMoves ==
    ASSUME Sites, NEW p \in Site, Decide(p)
    PROVE  /\ UNCHANGED <<root, ledgers, tags, acked>>
           /\ \A q \in Site : q # p => call'[q] = call[q]
           /\ call'[p].stage \notin AppendStages
<1>1. UNCHANGED <<root, ledgers, tags, acked>>
  BY DEF Aside, ledgerVars, Decide
<1>2. CASE Goto(p, AfterCycle(p))
  <2>1. call'[p] = AfterCycle(p) /\ \A q \in Site : q # p => call'[q] = call[q]
    BY <1>2, SiteMoves
  <2>2. QED
    BY <1>1, <2>1, AfterCycleStage DEF AppendStages
<1>3. CASE Goto(p, [stage |-> "tick", run |-> TheRun(p).run, lease |-> lease.id])
  BY <1>1, <1>3 DEF Goto, Sites, AppendStages
<1>4. QED
  BY <1>2, <1>3, DecideResumes

LEMMA CycleMoves ==
    ASSUME Sites, NEW p \in Site,
           \/ StartJob(p) \/ StartCycle(p) \/ RestoreRead(p) \/ RestoreWrite(p)
           \/ ConsumeResult(p) \/ Snapshot(p) \/ Bootstrap(p) \/ Decide(p) \/ Tick(p)
           \/ Persist(p) \/ PersistByHand(p) \/ FailStep(p) \/ Die(p)
    PROVE  /\ UNCHANGED <<root, ledgers, tags, acked>>
           /\ \A q \in Site : q # p => call'[q] = call[q]
           /\ call'[p].stage \notin AppendStages \ {"append"}
  BY QuietMoves, DecideMoves

\* What an append does to the calls.
LEMMA AppendMoves ==
    ASSUME Sites, NEW p \in Site, PersistStep(p)
    PROVE  /\ \A q \in Site : q # p => call'[q] = call[q]
           /\ call[p].stage \in AppendStages
           /\ call'[p].stage \in AppendStages \cup {"off"}
           /\ call'[p].stage = "read" => EnsureIssue(p, Off) \/ Elect(p, Off) \/ CloseCandidate(p)
           /\ call'[p].stage = "close" => Elect(p, Off)
           /\ call'[p].stage = "comment" => ReadLedger(p, Off)
           /\ call'[p].stage = "tag" => AddComment(p)
<1> DEFINE k == call[p]
<1>0. k \in SiteCall /\ Off.stage = "off"
  BY DEF Sites, Off
<1>f. call \in [Site -> SiteCall]
  BY DEF Sites
<1> DEFINE read   == [k EXCEPT !.stage = "read"]
           create == [k EXCEPT !.stage = "create"]
           close  == [k EXCEPT !.stage = "close"]
           tag    == [k EXCEPT !.stage = "tag"]
<1>1. /\ read.stage = "read" /\ create.stage = "create"
      /\ close.stage = "close" /\ tag.stage = "tag"
  BY <1>0 DEF SiteCall
<1> HIDE DEF read, create, close, tag
<1>2. \A s, j, c : Appending(s, j, c).stage = s
  BY DEF Appending
<1>3. ASSUME NEW c, Goto(p, c)
      PROVE  call'[p] = c /\ \A q \in Site : q # p => call'[q] = call[q]
  BY <1>3, SiteMoves
<1>4. CASE EnsureIssue(p, Off)
  <2>1. \/ Goto(p, read) \/ Goto(p, create) \/ Goto(p, Off)
        \/ \E i : Goto(p, [stage |-> "elect", state |-> k.state, checkpoint |-> k.checkpoint,
                           candidate |-> i, created |-> FALSE])
    BY <1>4 DEF EnsureIssue, read, create
  <2>2. k.stage \in AppendStages
    BY <1>4 DEF EnsureIssue, At, AppendStages
  <2>3. call'[p].stage \in {"read", "create", "elect", "off"}
    BY <1>0, <1>1, <1>f, <2>1, <2>2 DEF Goto
  <2>4. QED
    BY <1>3, <1>4, <2>1, <2>2, <2>3 DEF AppendStages
<1>5. CASE CreateLedger(p)
  BY <1>3, <1>5 DEF CreateLedger, At, AppendStages
<1>6. CASE Elect(p, Off)
  <2>1. k.stage \in AppendStages
    BY <1>6 DEF Elect, At, AppendStages
  <2>2. \/ Goto(p, Appending("read", k.state, k.checkpoint))
        \/ Goto(p, close) \/ Goto(p, Off)
    BY <1>6 DEF Elect, close
  <2>3. call'[p].stage \in {"read", "close", "off"}
    BY <1>0, <1>1, <1>2, <1>f, <2>1, <2>2 DEF Goto
  <2>4. QED
    BY <1>3, <1>6, <2>1, <2>2, <2>3 DEF AppendStages
<1>7. CASE CloseCandidate(p)
  <2>1. k.stage \in AppendStages /\ Goto(p, Appending("read", k.state, k.checkpoint))
    BY <1>7 DEF CloseCandidate, At, AppendStages
  <2>2. QED
    BY <1>2, <1>3, <1>7, <2>1 DEF AppendStages
<1>8. CASE ReadLedger(p, Off)
  <2>1. k.stage \in AppendStages
    BY <1>8 DEF ReadLedger, At, AppendStages
  <2>2. Goto(p, Off) \/ \E e : Goto(p, [stage |-> "comment", event |-> e])
    BY <1>8 DEF ReadLedger
  <2>3. call'[p].stage \in {"comment", "off"}
    BY <1>0, <1>f, <2>2 DEF Goto
  <2>4. QED
    BY <1>3, <1>8, <2>1, <2>2, <2>3 DEF AppendStages
<1>9. CASE AddComment(p)
  <2>1. k.stage \in AppendStages /\ Goto(p, tag)
    BY <1>9 DEF AddComment, At, AppendStages, tag
  <2>2. call'[p].stage = "tag"
    BY <1>1, <1>f, <2>1 DEF Goto
  <2>3. QED
    BY <1>3, <1>9, <2>1, <2>2 DEF AppendStages
<1>10. CASE AddTag(p, Off)
  BY <1>0, <1>3, <1>10 DEF AddTag, At, AppendStages
<1>11. QED
  BY <1>4, <1>5, <1>6, <1>7, <1>8, <1>9, <1>10 DEF PersistStep, AppendStep

LEMMA RootedMoves ==
    ASSUME Rooted, NEW p \in Site, \A q \in Site : q # p => call'[q] = call[q],
           root # 0 => UNCHANGED root,
           call'[p].stage \in {"read", "close", "comment", "tag"} => root' # 0
    PROVE  Rooted'
  BY DEF Rooted

LEMMA RootedStep ==
    ASSUME World, Sites, Rooted, Next
    PROVE  Rooted'
<1>1. ASSUME NEW p \in Site,
             \/ StartJob(p) \/ StartCycle(p) \/ RestoreRead(p) \/ RestoreWrite(p)
             \/ ConsumeResult(p) \/ Snapshot(p) \/ Bootstrap(p) \/ Decide(p) \/ Tick(p)
             \/ Persist(p) \/ PersistByHand(p) \/ FailStep(p) \/ Die(p)
      PROVE  Rooted'
  BY <1>1, CycleMoves, RootedMoves DEF AppendStages
<1>2. ASSUME NEW p \in Site, PersistStep(p) PROVE Rooted'
  <2>1. root # 0 => UNCHANGED root
    BY <1>2 DEF PersistStep, AppendStep, EnsureIssue, CreateLedger, Elect, CloseCandidate,
           ReadLedger, AddComment, AddTag, ledgerVars
  <2>2. Elect(p, Off) => root' # 0
    <3>1. Elect(p, Off) => call[p].candidate # 0
      BY CallType DEF Elect, At, World, LedgerTypeOK
    <3>2. QED
      BY <3>1 DEF Elect
  <2>3. CloseCandidate(p) \/ ReadLedger(p, Off) \/ AddComment(p) => root # 0
    BY DEF CloseCandidate, ReadLedger, AddComment, At, Rooted
  <2>4. EnsureIssue(p, Off) /\ call'[p].stage = "read" => root # 0
    <3>1. ASSUME EnsureIssue(p, Off), root = 0 PROVE call'[p].stage # "read"
      <4>1. call[p] \in SiteCall /\ call[p].stage = "append"
        BY <3>1 DEF EnsureIssue, At, Sites
      <4> DEFINE c == [call[p] EXCEPT !.stage = "create"]
      <4>2. c.stage = "create" /\ Off.stage = "off" /\ call \in [Site -> SiteCall]
        BY <4>1 DEF SiteCall, Off, Sites
      <4>3. \/ Goto(p, c) \/ Goto(p, Off)
            \/ \E i : Goto(p, [stage |-> "elect", state |-> call[p].state,
                               checkpoint |-> call[p].checkpoint,
                               candidate |-> i, created |-> FALSE])
        BY <3>1 DEF EnsureIssue
      <4> HIDE DEF c
      <4>4. QED
        BY <4>2, <4>3 DEF Goto
    <3>2. QED
      BY <3>1
  <2>5. QED
    BY <1>2, <2>1, <2>2, <2>3, <2>4, AppendMoves, RootedMoves
<1>3. ASSUME \/ \E j \in RunsAtWork : AcquireLease(j)
             \/ \E i \in Work : SetIssue(i)
             \/ MoveMain \/ LeaseGoesOn \/ Lose
      PROVE  Rooted'
  BY <1>3 DEF AcquireLease, SetIssue, MoveMain, LeaseGoesOn, Elsewhere, ledgerVars,
         Lose, LoseComment, Rooted
<1>4. QED
  BY <1>1, <1>2, <1>3 DEF Next, SiteStep

-----------------------------------------------------------------------------
(* One run for each lease.                                                 *)

\* The run of a lease: the one the supervisor ran for it, the one a cycle will
\* run for it, and the worker the registry names.
Bindings ==
    ticked
    \cup {<<call[p].lease, call[p].run>> : p \in {q \in Site : call[q].stage = "tick"}}
    \cup {<<l.id, l.worker>> : l \in {lease} \ {None}}

\* All of them agree, and no later lease has the number of an earlier one.
BoundOnce ==
    /\ \A a \in Bindings : a[1] <= leases
    /\ \A a, b \in Bindings : a[1] = b[1] => a[2] = b[2]

LEMMA BindingsType ==
    ASSUME World, Sites
    PROVE  Bindings \subseteq Nat \X Run
<1>1. \A p \in {q \in Site : call[q].stage = "tick"} : <<call[p].lease, call[p].run>> \in Nat \X Run
  BY CallType
<1>2. \A l \in {lease} \ {None} : <<l.id, l.worker>> \in Nat \X Run
  BY DEF World, WorkLease
<1>3. QED
  BY <1>1, <1>2 DEF Bindings, World

LEMMA BindingsStay ==
    ASSUME BoundOnce, Bindings' \subseteq Bindings, leases' = leases
    PROVE  BoundOnce'
  BY DEF BoundOnce

LEMMA BoundOnceStep ==
    ASSUME World, Sites, BoundOnce, Next
    PROVE  BoundOnce'
<1> DEFINE Tickers == {q \in Site : call[q].stage = "tick"}
           Calls == {<<call[p].lease, call[p].run>> : p \in Tickers}
           Worker == {<<l.id, l.worker>> : l \in {lease} \ {None}}
<1>0. /\ Bindings = ticked \cup Calls \cup Worker
      /\ Bindings' = ticked' \cup Calls' \cup Worker'
  BY DEF Bindings
<1>1. ASSUME NEW p \in Site, \A q \in Site : q # p => call'[q] = call[q]
      PROVE  Calls' \subseteq Calls \cup {<<call'[p].lease, call'[p].run>>}
  BY <1>1
<1>2. ASSUME NEW p \in Site, \A q \in Site : q # p => call'[q] = call[q], call'[p].stage # "tick"
      PROVE  Calls' \subseteq Calls
  BY <1>2
<1>3. ASSUME NEW p \in Site,
             \/ StartJob(p) \/ StartCycle(p) \/ RestoreRead(p) \/ RestoreWrite(p)
             \/ ConsumeResult(p) \/ Snapshot(p) \/ Bootstrap(p)
             \/ Persist(p) \/ PersistByHand(p) \/ FailStep(p) \/ Die(p) \/ PersistStep(p)
      PROVE  BoundOnce'
  <2>1. UNCHANGED <<ticked, lease, leases>>
    BY <1>3 DEF Aside, worldVars, StartJob, StartCycle, RestoreRead, RestoreWrite, ConsumeResult,
           Snapshot, Bootstrap, Persist, PersistByHand, FailStep, Die, PersistStep
  <2>2. /\ \A q \in Site : q # p => call'[q] = call[q]
        /\ call'[p].stage # "tick"
    BY <1>3, QuietMoves, AppendMoves DEF AppendStages
  <2>3. Calls' \subseteq Calls /\ Worker' = Worker
    BY <1>2, <2>1, <2>2
  <2> HIDE DEF Calls, Worker
  <2>4. Bindings' \subseteq Bindings
    BY <1>0, <2>1, <2>3
  <2>5. QED
    BY <2>1, <2>4, BindingsStay
<1>4. ASSUME NEW p \in Site, Decide(p) PROVE BoundOnce'
  <2>1. UNCHANGED <<ticked, lease, leases>> /\ Worker' = Worker
    BY <1>4 DEF Decide, Aside, worldVars
  <2>2. CASE Goto(p, AfterCycle(p))
    <3>1. /\ \A q \in Site : q # p => call'[q] = call[q]
          /\ call'[p].stage # "tick"
      BY <2>2, SiteMoves, AfterCycleStage
    <3>2. Calls' \subseteq Calls
      BY <1>2, <3>1
    <3> HIDE DEF Calls, Worker
    <3>3. Bindings' \subseteq Bindings
      BY <1>0, <2>1, <3>2
    <3>4. QED
      BY <2>1, <3>3, BindingsStay
  <2>3. CASE /\ lease # None /\ lease.worker = TheRun(p).run
             /\ Goto(p, [stage |-> "tick", run |-> TheRun(p).run, lease |-> lease.id])
    <3>1. /\ \A q \in Site : q # p => call'[q] = call[q]
          /\ call'[p].lease = lease.id /\ call'[p].run = lease.worker
      BY <2>3 DEF Goto, Sites
    <3>2. Calls' \subseteq Calls \cup {<<lease.id, lease.worker>>}
      BY <1>1, <3>1
    <3>3. <<lease.id, lease.worker>> \in Worker
      BY <2>3
    <3> HIDE DEF Calls, Worker
    <3>4. Bindings' \subseteq Bindings
      BY <1>0, <2>1, <3>2, <3>3
    <3>5. QED
      BY <2>1, <3>4, BindingsStay
  <2>4. QED
    BY <1>4, <2>2, <2>3, DecideResumes
<1>5. ASSUME NEW p \in Site, Tick(p) PROVE BoundOnce'
  <2>1. UNCHANGED <<lease, leases>> /\ Worker' = Worker
    BY <1>5 DEF Tick, Aside, worldVars
  <2>2. /\ call[p].stage = "tick"
        /\ ticked' = ticked \cup {<<call[p].lease, disk[p][call[p].run].run>>}
        /\ Goto(p, AfterCycle(p))
    BY <1>5 DEF Tick, At
  <2>3. disk[p][call[p].run].run = call[p].run
    BY <2>2, CallType DEF Sites, Fits, Tidy
  <2>4. <<call[p].lease, call[p].run>> \in Calls
    BY <2>2
  <2>5. /\ \A q \in Site : q # p => call'[q] = call[q]
        /\ call'[p].stage # "tick"
    BY <2>2, SiteMoves, AfterCycleStage
  <2>6. Calls' \subseteq Calls
    BY <1>2, <2>5
  <2> HIDE DEF Calls, Worker
  <2>7. Bindings' \subseteq Bindings
    BY <1>0, <2>1, <2>2, <2>3, <2>4, <2>6
  <2>8. QED
    BY <2>1, <2>7, BindingsStay
<1>6. ASSUME NEW j \in RunsAtWork, AcquireLease(j) PROVE BoundOnce'
  <2>1. UNCHANGED <<ticked, call>> /\ Calls' = Calls /\ leases' = leases + 1 /\ leases \in Nat
    BY <1>6 DEF AcquireLease, Elsewhere, World
  <2>2. Worker' \subseteq {<<leases + 1, j.run>>}
    BY <1>6 DEF AcquireLease
  <2> HIDE DEF Calls, Worker
  <2>3. Bindings' \subseteq Bindings \cup {<<leases + 1, j.run>>}
    BY <1>0, <2>1, <2>2
  <2>4. \A a \in Bindings : a[1] \in Nat /\ a[1] <= leases
    BY BindingsType DEF BoundOnce
  <2>5. \A a \in Bindings' : a \in Bindings \/ (a[1] = leases + 1 /\ a[2] = j.run)
    BY <2>3
  <2>6. QED
    BY <2>1, <2>4, <2>5 DEF BoundOnce
<1>7. ASSUME LeaseGoesOn PROVE BoundOnce'
  <2>1. UNCHANGED <<ticked, call, leases>> /\ Calls' = Calls
    BY <1>7 DEF LeaseGoesOn, Elsewhere
  <2>2. \/ lease' = None
        \/ lease' # None /\ lease # None /\ lease'.id = lease.id /\ lease'.worker = lease.worker
    BY <1>7 DEF LeaseGoesOn, World, WorkLease
  <2>3. Worker' \subseteq Worker
    BY <2>2
  <2> HIDE DEF Calls, Worker
  <2>4. Bindings' \subseteq Bindings
    BY <1>0, <2>1, <2>3
  <2>5. QED
    BY <2>1, <2>4, BindingsStay
<1>8. ASSUME MoveMain \/ Lose \/ \E i \in Work : SetIssue(i) PROVE BoundOnce'
  <2>1. UNCHANGED <<ticked, call, lease, leases>>
    BY <1>8 DEF MoveMain, Lose, LoseComment, SetIssue, Elsewhere
  <2>2. Bindings' = Bindings
    BY <2>1 DEF Bindings
  <2>3. QED
    BY <2>1, <2>2, BindingsStay
<1>9. QED
  BY <1>3, <1>4, <1>5, <1>6, <1>7, <1>8 DEF Next, SiteStep

-----------------------------------------------------------------------------
(* What was acknowledged is read.                                          *)

\* The one ledger has an event.
Recorded == root # 0 /\ ledgers[root].comments # <<>>

\* An anchor follows its comment, and the last comment of a ledger stays.
Anchors ==
    /\ tags # {} => Recorded
    /\ \A p \in Site : call[p].stage = "tag" => Recorded

LEMMA RecordedStays ==
    ASSUME World, Sites, Rooted, Recorded, ~LoseAll, Next
    PROVE  Recorded'
<1>0. /\ ledgers \in Seq(Ledger) /\ Len(ledgers) \in Nat /\ root \in 1 .. Len(ledgers)
      /\ ledgers[root].comments \in Seq(Event) /\ ledgers[root] \in Ledger
  <2>1. LedgerTypeOK /\ ledgers \in Seq(Ledger) /\ Len(ledgers) \in Nat
        /\ root \in 1 .. Len(ledgers)
    BY DEF World, LedgerTypeOK, Recorded
  <2>2. QED
    BY <2>1, LedgerType
<1>1. ASSUME UNCHANGED <<root, ledgers>> PROVE Recorded'
  BY <1>1 DEF Recorded
<1>2. ASSUME NEW p \in Site, CreateLedger(p) PROVE Recorded'
  BY <1>0, <1>2 DEF CreateLedger, Recorded
<1>3. ASSUME NEW p \in Site, Elect(p, Off) PROVE Recorded'
  BY <1>0, <1>3 DEF Elect, Recorded
<1>4. ASSUME NEW p \in Site, CloseCandidate(p) PROVE Recorded'
  <2> DEFINE i == call[p].candidate
             g == [ledgers[i] EXCEPT !.open = FALSE]
  <2>1. i \in 1 .. Len(ledgers)
    BY <1>4, CallType DEF CloseCandidate, At
  <2>2. ledgers' = [ledgers EXCEPT ![i] = g] /\ UNCHANGED root
    BY <1>4 DEF CloseCandidate
  <2>3. g.comments = ledgers[i].comments
    BY <2>1, LedgerType DEF World, Ledger
  <2> HIDE DEF i, g
  <2>4. ledgers'[root].comments = ledgers[root].comments
    BY <1>0, <2>1, <2>2, <2>3
  <2>5. QED
    BY <2>2, <2>4 DEF Recorded
<1>5. ASSUME NEW p \in Site, AddComment(p) PROVE Recorded'
  <2> DEFINE es == Append(ledgers[root].comments, call[p].event)
             g  == [ledgers[root] EXCEPT !.comments = es]
  <2>1. ledgers' = [ledgers EXCEPT ![root] = g] /\ UNCHANGED root
    BY <1>5 DEF AddComment
  <2>2. es # <<>>
    <3>1. call[p].event \in Event
      BY <1>5, CallType DEF AddComment, At
    <3>2. QED
      BY <1>0, <3>1, AppendProperties
  <2> HIDE DEF es
  <2>3. g.comments = es
    BY <1>0 DEF Ledger
  <2> HIDE DEF g
  <2>4. ledgers'[root] = g
    BY <1>0, <2>1
  <2>5. QED
    BY <2>1, <2>2, <2>3, <2>4 DEF Recorded
<1>6. ASSUME Lose PROVE Recorded'
  <2>0. PICK i \in DOMAIN ledgers : \E k \in DOMAIN ledgers[i].comments :
            Len(ledgers[i].comments) > 1 /\ LoseComment(i, k)
    BY <1>6 DEF Lose
  <2>1. PICK k \in DOMAIN ledgers[i].comments :
            Len(ledgers[i].comments) > 1 /\ LoseComment(i, k)
    BY <2>0
  <2> DEFINE es == ledgers[i].comments
             left == SubSeq(es, 1, k - 1)
             right == SubSeq(es, k + 1, Len(es))
             g == [ledgers[i] EXCEPT !.comments = left \o right]
  <2>2. i \in 1 .. Len(ledgers) /\ es \in Seq(Event) /\ ledgers[i] \in Ledger
    <3>1. i \in 1 .. Len(ledgers) /\ LedgerTypeOK
      BY <1>0 DEF World
    <3>2. QED
      BY <3>1, LedgerType
  <2>3. ledgers' = [ledgers EXCEPT ![i] = g] /\ UNCHANGED root
    BY <2>1 DEF LoseComment, RemoveAt
  <2>4. k \in 1 .. Len(es) /\ Len(es) > 1 /\ Len(es) \in Nat
    BY <2>1, <2>2
  <2> HIDE DEF es
  <2>5. left \in Seq(Event) /\ Len(left) = k - 1
    <3>1. 1 \in Int /\ k - 1 \in Int /\ \A n \in 1 .. k - 1 : es[n] \in Event
      BY <2>2, <2>4
    <3>2. left \in Seq(Event) /\ Len(left) = IF 1 <= k - 1 THEN k - 1 - 1 + 1 ELSE 0
      BY <3>1, SubSeqProperties
    <3>3. QED
      BY <2>4, <3>2
  <2>6. right \in Seq(Event) /\ Len(right) = Len(es) - k
    <3>1. k + 1 \in Int /\ Len(es) \in Int /\ \A n \in k + 1 .. Len(es) : es[n] \in Event
      BY <2>2, <2>4
    <3>2. right \in Seq(Event)
          /\ Len(right) = IF k + 1 <= Len(es) THEN Len(es) - (k + 1) + 1 ELSE 0
      BY <3>1, SubSeqProperties
    <3>3. QED
      BY <2>4, <3>2
  <2> HIDE DEF left, right
  <2>7. Len(left \o right) = Len(es) - 1 /\ left \o right \in Seq(Event)
    <3>1. left \o right \in Seq(Event) /\ Len(left \o right) = Len(left) + Len(right)
      BY <2>5, <2>6, ConcatProperties
    <3>2. QED
      BY <2>4, <2>5, <2>6, <3>1
  <2>8. left \o right # <<>>
    BY <2>4, <2>7
  <2>9. g.comments = left \o right
    BY <2>2 DEF Ledger
  <2> HIDE DEF g
  <2>10. ledgers'[root] = IF root = i THEN g ELSE ledgers[root]
    BY <1>0, <2>2, <2>3
  <2>11. QED
    BY <2>3, <2>8, <2>9, <2>10 DEF Recorded
<1>7. ASSUME NEW p \in Site, PersistStep(p) PROVE Recorded'
  BY <1>1, <1>2, <1>3, <1>4, <1>5, <1>7
     DEF PersistStep, AppendStep, EnsureIssue, ReadLedger, AddTag, ledgerVars
<1>8. ASSUME \/ \E j \in RunsAtWork : AcquireLease(j)
             \/ \E i \in Work : SetIssue(i)
             \/ MoveMain \/ LeaseGoesOn
      PROVE  Recorded'
  BY <1>1, <1>8 DEF AcquireLease, SetIssue, MoveMain, LeaseGoesOn, Elsewhere, ledgerVars
<1>9. QED
  BY <1>1, <1>6, <1>7, <1>8, CycleMoves DEF Next, SiteStep

LEMMA AnchorsStep ==
    ASSUME World, Sites, Rooted, Anchors, ~LoseAll, Next
    PROVE  Anchors'
<1>0. Recorded => Recorded'
  BY RecordedStays
<1>1. ASSUME UNCHANGED tags, \A q \in Site : call'[q].stage = "tag" => call[q].stage = "tag"
      PROVE  Anchors'
  BY <1>0, <1>1 DEF Anchors
<1>2. ASSUME NEW p \in Site,
             \/ StartJob(p) \/ StartCycle(p) \/ RestoreRead(p) \/ RestoreWrite(p)
             \/ ConsumeResult(p) \/ Snapshot(p) \/ Bootstrap(p) \/ Decide(p) \/ Tick(p)
             \/ Persist(p) \/ PersistByHand(p) \/ FailStep(p) \/ Die(p)
      PROVE  Anchors'
  <2>1. /\ UNCHANGED tags /\ \A q \in Site : q # p => call'[q] = call[q]
        /\ call'[p].stage # "tag"
    BY <1>2, CycleMoves DEF AppendStages
  <2>2. QED
    BY <1>1, <2>1
<1>3. ASSUME NEW p \in Site, PersistStep(p) PROVE Anchors'
  <2>1. /\ \A q \in Site : q # p => call'[q] = call[q]
        /\ call'[p].stage = "tag" => AddComment(p)
    BY <1>3, AppendMoves
  <2>2. CASE AddComment(p)
    <3>1. Recorded'
      <4> DEFINE es == Append(ledgers[root].comments, call[p].event)
                 g  == [ledgers[root] EXCEPT !.comments = es]
      <4>1. call[p].event \in Event /\ root \in 1 .. Len(ledgers)
        BY <2>2, CallType DEF AddComment, At, Rooted, World, LedgerTypeOK
      <4>2. /\ ledgers[root] \in Ledger /\ ledgers[root].comments \in Seq(Event)
            /\ ledgers \in Seq(Ledger)
        BY <4>1, LedgerType DEF World, LedgerTypeOK
      <4>3. es # <<>>
        BY <4>1, <4>2, AppendProperties
      <4>4. ledgers' = [ledgers EXCEPT ![root] = g] /\ UNCHANGED root
        BY <2>2 DEF AddComment
      <4> HIDE DEF es
      <4>5. g.comments = es
        BY <4>2 DEF Ledger
      <4> HIDE DEF g
      <4>6. ledgers'[root] = g /\ root # 0
        BY <4>1, <4>2, <4>4
      <4>7. QED
        BY <4>3, <4>4, <4>5, <4>6 DEF Recorded
    <3>2. QED
      BY <3>1 DEF Anchors
  <2>3. CASE AddTag(p, Off)
    <3>1. call[p].stage = "tag"
      BY <2>3 DEF AddTag, At
    <3>2. Recorded'
      BY <1>0, <3>1 DEF Anchors
    <3>3. QED
      BY <3>2 DEF Anchors
  <2>4. CASE ~AddComment(p) /\ ~AddTag(p, Off)
    <3>1. UNCHANGED tags
      BY <1>3, <2>4 DEF PersistStep, AppendStep, EnsureIssue, CreateLedger, Elect,
             CloseCandidate, ReadLedger, ledgerVars
    <3>2. QED
      BY <1>1, <2>1, <2>4, <3>1
  <2>5. QED
    BY <2>2, <2>3, <2>4
<1>4. ASSUME \/ \E j \in RunsAtWork : AcquireLease(j)
             \/ \E i \in Work : SetIssue(i)
             \/ MoveMain \/ LeaseGoesOn \/ Lose
      PROVE  Anchors'
  <2>1. UNCHANGED <<tags, call>>
    BY <1>4 DEF AcquireLease, SetIssue, MoveMain, LeaseGoesOn, Elsewhere, ledgerVars,
           Lose, LoseComment
  <2>2. QED
    BY <1>1, <2>1
<1>5. QED
  BY <1>2, <1>3, <1>4 DEF Next, SiteStep

\* A valid ledger with anchors has the acknowledged events among its own.
LEMMA ReadFindsAcknowledged ==
    ASSUME World, Anchors
    PROVE  AcknowledgedIsRead
<1> SUFFICES ASSUME NEW visible \in SUBSET OpenLedgers, NEW events \in Readable(visible),
                    NEW stamp \in acked
             PROVE  stamp \in {events[i].stamp : i \in DOMAIN events}
  BY DEF AcknowledgedIsRead
<1>1. stamp \in tags /\ Recorded
  BY DEF World, LedgerTypeOK, Anchors
<1>2. PICK i \in LedgerRead(visible) : events = CommentsOf(i) /\ Verified(events)
  BY DEF Readable
<1>3. i = root /\ events # <<>>
  BY <1>1, <1>2 DEF LedgerRead, CommentsOf, Recorded
<1>4. QED
  BY <1>1, <1>2, <1>3 DEF Verified, Anchored

-----------------------------------------------------------------------------
(* The theorems.                                                           *)

IndInv == World /\ Sites /\ Rooted /\ BoundOnce

LEMMA InitInv ==
    ASSUME Init
    PROVE  IndInv /\ Anchors
<1>1. LedgerTypeOK
  <2>1. ledgers = <<>> /\ ledgers \in Seq(Ledger) /\ Len(ledgers) = 0
    BY DEF Init, LedgerInit
  <2>2. QED
    BY <2>1, LedgerAssumption DEF Init, LedgerInit, LedgerTypeOK
<1>2. World
  BY <1>1 DEF Init, World
<1>3. Sites
  <2>1. /\ Off \in SiteCall /\ NoRuns \in Disk /\ AtWork(NoRuns) = {}
        /\ \A r \in Run : NoRuns[r] = None
    BY DEF Off, SiteCall, NoRuns, Disk, AtWork
  <2>2. /\ call \in [Site -> SiteCall] /\ disk \in [Site -> Disk]
        /\ marker \in [Site -> Run \cup {None}]
    BY <2>1 DEF Init
  <2>3. \A p \in Site : Fits(p, Off, NoRuns, None)
    BY <2>1 DEF Fits, Tidy, Off
  <2>4. \A p \in Site : call[p] = Off /\ disk[p] = NoRuns /\ marker[p] = None
    BY DEF Init
  <2>5. QED
    BY <2>2, <2>3, <2>4 DEF Sites
<1>4. \A p \in Site : call[p].stage = "off"
  BY DEF Init, Off
<1>5. Rooted /\ Anchors
  BY <1>4 DEF Rooted, Anchors, Init, LedgerInit
<1>6. BoundOnce
  <2>1. Bindings = {}
    BY <1>4 DEF Bindings, Init
  <2>2. QED
    BY <2>1 DEF BoundOnce
<1>7. QED
  BY <1>2, <1>3, <1>5, <1>6 DEF IndInv

LEMMA Stutters ==
    ASSUME UNCHANGED vars
    PROVE  (IndInv => IndInv') /\ (Anchors => Anchors')
<1>1. UNCHANGED <<root, ledgers, tags, acked, call, disk, marker, main, work, lease, leases, seen,
                  ticked>>
  BY DEF vars, ledgerVars, worldVars
<1>2. SiteCall' = SiteCall /\ Bindings' = Bindings
  BY <1>1 DEF SiteCall, Bindings
<1>3. (World => World') /\ (Sites => Sites')
  BY <1>1, <1>2 DEF World, LedgerTypeOK, Sites
<1>4. (Rooted => Rooted') /\ (BoundOnce => BoundOnce') /\ (Anchors => Anchors')
  BY <1>1, <1>2 DEF Rooted, BoundOnce, Anchors, Recorded
<1>5. QED
  BY <1>3, <1>4 DEF IndInv

\* What a site does with its checkout, its run and its lease fits together after
\* every step of every job and host (github_runtime_sync.py, run_active_supervisor).
THEOREM Invariance == Spec => []IndInv
<1>1. Init => IndInv
  BY InitInv
<1>2. IndInv /\ [Next]_vars => IndInv'
  BY WorldStep, SitesStep, RootedStep, BoundOnceStep, Stutters DEF IndInv
<1>3. QED
  BY <1>1, <1>2, PTL DEF Spec

\* Ledger, journals, leases and the calls on their way always have their types, and
\* no site has two active runs.
THEOREM TypeCorrect == Spec => []TypeOK
<1>1. IndInv => TypeOK
  <2>1. ASSUME IndInv, NEW p \in Site PROVE Cardinality(Active(p)) <= 1
    <3>1. Active(p) = AtWork(disk[p]) /\ \A a, b \in AtWork(disk[p]) : a = b
      BY <2>1 DEF IndInv, Sites, Fits, Tidy, Active, AtWork
    <3>2. CASE Active(p) = {}
      BY <3>2, FS_EmptySet
    <3>3. ASSUME NEW r \in Active(p) PROVE Cardinality(Active(p)) <= 1
      <4>1. Active(p) = {r}
        BY <3>1, <3>3
      <4>2. QED
        BY <4>1, FS_Singleton
    <3>4. QED
      BY <3>2, <3>3
  <2>2. QED
    BY <2>1 DEF IndInv, World, Sites, TypeOK, Disk
<1>2. QED
  BY <1>1, Invariance, PTL

\* The supervisor only ever runs one run for a lease (decide_resume).
THEOREM LeaseRunsOnce == Spec => []OneRunPerLease
<1>1. IndInv => OneRunPerLease
  BY DEF IndInv, BoundOnce, Bindings, OneRunPerLease
<1>2. QED
  BY <1>1, Invariance, PTL

\* Whoever reads the ledger finds every checkpoint that was acknowledged, or is told
\* that the ledger is invalid, as long as the provider does not lose a ledger's only
\* comment (github_runtime_store.append and read).
THEOREM AcknowledgedRead ==
    ASSUME ~LoseAll
    PROVE  Spec => []AcknowledgedIsRead
<1>1. Init => IndInv /\ Anchors
  BY InitInv
<1>2. IndInv /\ Anchors /\ [Next]_vars => Anchors'
  BY AnchorsStep, Stutters DEF IndInv
<1>3. IndInv /\ Anchors => AcknowledgedIsRead
  BY ReadFindsAcknowledged DEF IndInv
<1>4. QED
  BY <1>1, <1>2, <1>3, Invariance, PTL DEF Spec

-----------------------------------------------------------------------------
(* A run only goes forward.  Only the root ledger has comments; whatever a   *)
(* site has of a run, on its disk or on the way there, goes on from all that *)
(* is written of it; and a run of a host is elsewhere only when it ended.    *)

\* j goes on from the state e of a comment, if that is one of the same run.
Continues(j, e) == e.run = j.run => (e.rev < j.rev /\ e.status \in ActiveRuns) \/ e = j

Events  == CommentsOf(root)
Written == {Events[k].state : k \in DOMAIN Events}

\* The journals on a site's disk and the one it is about to restore.
HeldBy(p) == {disk[p][r] : r \in {x \in Run : disk[p][x] # None}}
             \cup (IF At(p, "restoring") THEN {call[p].state} ELSE {})

\* The journal an append carries until its comment is there.
Carries(c) == c.stage \in {"append", "create", "elect", "read", "close", "comment"}
Carried(c) == IF c.stage = "comment" THEN c.event.state ELSE c.state

OnlyRoot == \A i \in DOMAIN ledgers : i # root => ledgers[i].comments = <<>>
OneJob   == \A p, q \in Job : call[p] # Off /\ call[q] # Off => p = q

InOrder(events) == \A l \in DOMAIN events : \A k \in 1 .. l - 1 :
    Continues(events[l].state, events[k].state)
Forward == /\ InOrder(Events)
           /\ \A p \in Site : \A j \in HeldBy(p), e \in Written : Continues(j, e)

\* What others have of the run of a host is what the host has, and it ended.
HostsOwn == \A h \in Host : \A j \in HeldBy(h) :
    /\ \A e \in Written : e.run = j.run => e = j /\ j.status \notin ActiveRuns
    /\ \A q \in Site \ {h} : \A k \in HeldBy(q) :
           k.run = j.run => q \in Job /\ k = j /\ j.status \notin ActiveRuns

CallFits(p) ==
    /\ At(p, "tick") => disk[p][call[p].run].status \in ActiveRuns
    /\ At(p, "persist") => p \in Job
    /\ Carries(call[p]) => /\ Carried(call[p]) \in HeldBy(p)
                           /\ p \in Host => Carried(call[p]).status \notin ActiveRuns
CallsFit == \A p \in Site : CallFits(p)

ForwardInv == OnlyRoot /\ OneJob /\ Forward /\ HostsOwn /\ CallsFit

LEMMA HeldType ==
    ASSUME Sites, NEW p \in Site, NEW j \in HeldBy(p)
    PROVE  j \in RunJournal
<1>1. \A r \in Run : disk[p][r] # None => disk[p][r] \in RunJournal
  BY DEF Sites, Disk
<1>2. At(p, "restoring") => call[p].state \in RunJournal
  BY CallType DEF At
<1>3. QED
  BY <1>1, <1>2 DEF HeldBy

LEMMA HeldTypeNext ==
    ASSUME Sites', NEW p \in Site, NEW j \in HeldBy(p)'
    PROVE  j \in RunJournal
<1>1. \A r \in Run : disk'[p][r] # None => disk'[p][r] \in RunJournal
  BY DEF Sites, Disk
<1>2. call'[p].stage = "restoring" => call'[p].state \in RunJournal
  <2>1. call'[p] \in SiteCall'
    BY DEF Sites
  <2>2. QED
    BY <2>1 DEF SiteCall
<1>3. QED
  BY <1>1, <1>2 DEF HeldBy, At

LEMMA EventsType ==
    ASSUME World
    PROVE  /\ Events \in Seq(Event)
           /\ \A k \in DOMAIN Events : Events[k].state \in RunJournal
           /\ Written \subseteq RunJournal
<1>1. Events \in Seq(Event)
  BY CommentsType DEF World, LedgerTypeOK, Events
<1>2. \A k \in DOMAIN Events : Events[k] \in Event
  BY <1>1
<1>3. \A k \in DOMAIN Events : Events[k].state \in RunJournal
  BY <1>2 DEF Event
<1>4. QED
  BY <1>1, <1>3 DEF Written

\* A site without a call in progress that is a job has nothing.
LEMMA IdleJobHolds ==
    ASSUME Sites, NEW p \in Job, p \in Site, call[p] = Off
    PROVE  HeldBy(p) = {}
<1>1. call[p].stage = "off"
  BY DEF Off
<1>2. disk[p] = NoRuns
  BY <1>1 DEF Sites, Fits
<1>3. QED
  BY <1>1, <1>2 DEF HeldBy, At, NoRuns

\* What a site not at a restore has of a run is on its disk under its name.
LEMMA HeldOnDisk ==
    ASSUME Sites, NEW p \in Site, ~At(p, "restoring"), NEW j \in HeldBy(p)
    PROVE  disk[p][j.run] = j /\ j.run \in Run
<1>1. PICK r \in Run : disk[p][r] # None /\ j = disk[p][r]
  BY DEF HeldBy
<1>2. j.run = r
  BY <1>1 DEF Sites, Fits, Tidy
<1>3. QED
  BY <1>1, <1>2

-----------------------------------------------------------------------------
\* A journal that is nowhere yet, the next of one the site has, or the last one
\* of the ledger.
Fresh(j)       == /\ \A e \in Written : e.run # j.run
                  /\ \A q \in Site : \A k \in HeldBy(q) : k.run # j.run
Advanced(p, j) == \E i \in HeldBy(p) : i.status \in ActiveRuns /\ j.run = i.run /\ i.rev < j.rev
ReadBack(j)    == j \in Written /\ \A e \in Written : Continues(j, e)

LEMMA SiteHolds ==
    ASSUME World, Sites, Forward, HostsOwn, NEW p \in Site, Events' = Events,
           \A q \in Site : q # p => HeldBy(q)' = HeldBy(q),
           \A j \in HeldBy(p)' : j \in RunJournal,
           \A j \in HeldBy(p)' : \/ j \in HeldBy(p) \/ Fresh(j) \/ Advanced(p, j)
                                 \/ p \in Job /\ ReadBack(j)
    PROVE  Forward' /\ HostsOwn'
<1>0. Written' = Written /\ ~(p \in Job /\ p \in Host)
  BY HostedAssumption DEF Written
<1>t. /\ \A e \in Written : e.rev \in Nat
      /\ \A q \in Site : \A j \in HeldBy(q) : j.rev \in Nat
      /\ \A j \in HeldBy(p)' : j.rev \in Nat
  BY EventsType, HeldType DEF RunJournal
<1>1. ASSUME NEW j \in HeldBy(p)', NEW e \in Written PROVE Continues(j, e)
  <2>1. CASE j \in HeldBy(p)
    BY <2>1 DEF Forward
  <2>2. CASE Fresh(j)
    BY <2>2 DEF Fresh, Continues
  <2>3. CASE Advanced(p, j)
    <3>1. PICK i \in HeldBy(p) : i.status \in ActiveRuns /\ j.run = i.run /\ i.rev < j.rev
      BY <2>3 DEF Advanced
    <3>2. Continues(i, e)
      BY DEF Forward
    <3>3. e.rev \in Nat /\ i.rev \in Nat /\ j.rev \in Nat
      BY <1>t
    <3>4. QED
      BY <3>1, <3>2, <3>3 DEF Continues
  <2>4. CASE ReadBack(j)
    BY <2>4 DEF ReadBack
  <2>5. QED
    BY <2>1, <2>2, <2>3, <2>4
<1>2. Forward'
  <2>1. InOrder(Events)'
    BY DEF Forward, InOrder
  <2>2. ASSUME NEW q \in Site, NEW j \in HeldBy(q)', NEW e \in Written' PROVE Continues(j, e)
    <3>1. CASE q = p
      BY <1>0, <1>1, <3>1
    <3>2. CASE q # p
      BY <1>0, <3>2 DEF Forward
    <3>3. QED
      BY <3>1, <3>2
  <2>3. QED
    BY <2>1, <2>2 DEF Forward, Continues
<1>3. ASSUME NEW h \in Host, h \in Site, NEW j \in HeldBy(h)', NEW e \in Written, e.run = j.run
      PROVE  e = j /\ j.status \notin ActiveRuns
  <2>1. CASE j \in HeldBy(h)
    BY <1>3, <2>1 DEF HostsOwn
  <2>2. CASE h = p /\ Fresh(j)
    BY <1>3, <2>2 DEF Fresh
  <2>3. CASE h = p /\ Advanced(p, j)
    BY <1>3, <2>3 DEF Advanced, HostsOwn
  <2>4. QED
    BY <1>0, <1>3, <2>1, <2>2, <2>3
<1>4. ASSUME NEW h \in Host, h \in Site, NEW j \in HeldBy(h)', NEW q \in Site, q # h,
             NEW k \in HeldBy(q)', k.run = j.run
      PROVE  q \in Job /\ k = j /\ j.status \notin ActiveRuns
  <2>1. CASE j \in HeldBy(h) /\ k \in HeldBy(q)
    BY <1>4, <2>1 DEF HostsOwn
  <2>2. CASE h = p /\ k \in HeldBy(q) /\ Fresh(j)
    BY <1>4, <2>2 DEF Fresh
  <2>3. CASE h = p /\ k \in HeldBy(q) /\ Advanced(p, j)
    BY <1>4, <2>3 DEF Advanced, HostsOwn
  <2>4. CASE q = p /\ j \in HeldBy(h) /\ Fresh(k)
    BY <1>4, <2>4 DEF Fresh
  <2>5. CASE q = p /\ j \in HeldBy(h) /\ Advanced(p, k)
    <3>1. PICK i \in HeldBy(p) : i.status \in ActiveRuns /\ k.run = i.run
      BY <2>5 DEF Advanced
    <3>2. i = j /\ j.status \notin ActiveRuns
      BY <1>4, <2>5, <3>1 DEF HostsOwn
    <3>3. QED
      BY <3>1, <3>2
  <2>6. CASE q = p /\ j \in HeldBy(h) /\ p \in Job /\ ReadBack(k)
    BY <1>4, <2>6 DEF ReadBack, HostsOwn
  <2>7. QED
    BY <1>0, <1>4, <2>1, <2>2, <2>3, <2>4, <2>5, <2>6
<1>5. Host \subseteq Site
  BY HostedAssumption
<1>6. HostsOwn'
  BY <1>0, <1>3, <1>4, <1>5 DEF HostsOwn
<1>7. QED
  BY <1>2, <1>6

LEMMA CallMoves ==
    ASSUME CallsFit, NEW p \in Site, CallFits(p)',
           \A q \in Site : q # p => call'[q] = call[q] /\ disk'[q] = disk[q]
    PROVE  CallsFit'
  BY DEF CallsFit, CallFits, HeldBy, At

LEMMA JobMoves ==
    ASSUME OneJob, NEW p \in Site, \A q \in Site : q # p => call'[q] = call[q],
           \/ call[p] # Off \/ p \in Host \/ call'[p] = Off
           \/ \A q \in Job : call[q] = Off
    PROVE  OneJob'
<1>1. Job \subseteq Site /\ ~(p \in Job /\ p \in Host)
  BY HostedAssumption
<1>2. QED
  BY <1>1 DEF OneJob

LEMMA HeldStays ==
    ASSUME NEW q, call'[q] = call[q], disk'[q] = disk[q]
    PROVE  HeldBy(q)' = HeldBy(q)
  BY DEF HeldBy, At

-----------------------------------------------------------------------------
(* The steps of a site.                                                      *)

\* A step that leaves the ledger alone.
LEMMA SiteStepHolds ==
    ASSUME World, Sites, Sites', ForwardInv, NEW p \in Site,
           UNCHANGED <<root, ledgers>> \/ (OnlyRoot' /\ Events' = Events),
           \A q \in Site : q # p => call'[q] = call[q] /\ disk'[q] = disk[q],
           \/ call[p] # Off \/ p \in Host \/ call'[p] = Off
           \/ \A q \in Job : call[q] = Off,
           CallFits(p)',
           \A j \in HeldBy(p)' : \/ j \in HeldBy(p) \/ Fresh(j) \/ Advanced(p, j)
                                 \/ p \in Job /\ ReadBack(j)
    PROVE  ForwardInv'
<1>1. OnlyRoot' /\ Events' = Events
  BY DEF ForwardInv, OnlyRoot, Events, CommentsOf
<1>2. OneJob' /\ CallsFit'
  BY JobMoves, CallMoves DEF ForwardInv
<1>3. \A j \in HeldBy(p)' : j \in RunJournal
  BY HeldTypeNext
<1>4. \A q \in Site : q # p => HeldBy(q)' = HeldBy(q)
  BY HeldStays
<1>5. Forward' /\ HostsOwn'
  BY <1>1, <1>3, <1>4, SiteHolds DEF ForwardInv
<1>6. QED
  BY <1>1, <1>2, <1>5 DEF ForwardInv

\* The call goes on to a step that carries nothing, or is over.
LEMMA QuietHolds ==
    ASSUME World, Sites, Sites', ForwardInv, NEW p \in Site,
           UNCHANGED <<root, ledgers>> \/ (OnlyRoot' /\ Events' = Events),
           NEW c, Goto(p, c),
           c.stage \in {"restore", "inbox", "cycle", "persist", "off", "snapshot", "tag"},
           c.stage = "persist" => p \in Job,
           UNCHANGED disk \/ Leave(p),
           call[p] # Off \/ p \in Host \/ c = Off \/ \A q \in Job : call[q] = Off
    PROVE  ForwardInv'
<1>1. call'[p] = c /\ \A q \in Site : q # p => call'[q] = call[q]
  BY SiteMoves
<1>2. /\ \A q \in Site : q # p => disk'[q] = disk[q]
      /\ disk'[p] = disk[p] \/ disk'[p] = NoRuns
  BY DEF Sites, Leave
<1>3. CallFits(p)'
  BY <1>1 DEF CallFits, At, Carries
<1>4. HeldBy(p)' \subseteq HeldBy(p)
  BY <1>1, <1>2 DEF HeldBy, At, NoRuns
<1>5. QED
  BY <1>1, <1>2, <1>3, <1>4, SiteStepHolds

\* A journal is filed.
LEMMA FileHolds ==
    ASSUME World, Sites, Sites', ForwardInv, NEW p \in Site, UNCHANGED <<root, ledgers>>,
           NEW c, Goto(p, c), c.stage \in {"inbox", "cycle", "persist", "off"},
           c.stage = "persist" => p \in Job, call[p] # Off,
           NEW j \in RunJournal, Put(p, j),
           j \in HeldBy(p) \/ Fresh(j) \/ Advanced(p, j)
    PROVE  ForwardInv'
<1>1. call'[p] = c /\ \A q \in Site : q # p => call'[q] = call[q]
  BY SiteMoves
<1>2. /\ \A q \in Site : q # p => disk'[q] = disk[q]
      /\ disk'[p] = [disk[p] EXCEPT ![j.run] = j]
  BY PutFiles DEF Sites
<1>3. CallFits(p)'
  BY <1>1 DEF CallFits, At, Carries
<1>4. HeldBy(p)' \subseteq HeldBy(p) \cup {j}
  <2>1. disk[p] \in Disk
    BY DEF Sites
  <2>2. \A r \in Run : disk'[p][r] = disk[p][r] \/ disk'[p][r] = j
    BY <1>2, <2>1 DEF Disk
  <2>3. QED
    BY <1>1, <2>2 DEF HeldBy, At
<1>5. QED
  BY <1>1, <1>2, <1>3, <1>4, SiteStepHolds

\* The call carries a journal that lies on the disk.
LEMMA CarryHolds ==
    ASSUME World, Sites, Sites', ForwardInv, NEW p \in Site, UNCHANGED disk,
           UNCHANGED <<root, ledgers>> \/ (OnlyRoot' /\ Events' = Events),
           NEW c, Goto(p, c), Carries(c), \E r \in Run : disk[p][r] = Carried(c) /\ disk[p][r] # None,
           p \in Host => Carried(c).status \notin ActiveRuns,
           call[p] # Off \/ p \in Host
    PROVE  ForwardInv'
<1>1. call'[p] = c /\ \A q \in Site : q # p => call'[q] = call[q]
  BY SiteMoves
<1>2. c.stage # "restoring" /\ c.stage # "tick" /\ c.stage # "persist"
  BY DEF Carries
<1>3. Carried(c) \in HeldBy(p)'
  BY DEF HeldBy
<1>4. CallFits(p)'
  BY <1>1, <1>2, <1>3 DEF CallFits, At
<1>5. HeldBy(p)' \subseteq HeldBy(p)
  BY <1>1, <1>2 DEF HeldBy, At
<1>6. QED
  BY <1>1, <1>4, <1>5, SiteStepHolds

LEMMA AfterCycleOf ==
    ASSUME NEW p \in Site
    PROVE  /\ AfterCycle(p).stage \in {"persist", "off"}
           /\ AfterCycle(p).stage = "persist" => p \in Job
  BY DEF AfterCycle, Off

LEMMA NotOff ==
    ASSUME NEW p, call[p].stage # "off"
    PROVE  call[p] # Off
  BY DEF Off

\* What a phase makes of an active run the site has.
LEMMA AdvancesHolds ==
    ASSUME Sites, NEW p \in Site, NEW i \in HeldBy(p), i.status \in ActiveRuns, NEW j \in Advances(i)
    PROVE  j \in RunJournal /\ Advanced(p, j)
<1>1. i \in RunJournal
  BY HeldType
<1>2. j \in RunJournal /\ j.run = i.run
  BY <1>1, AdvancesType
<1>3. j.rev = i.rev + 1 /\ i.rev \in Nat
  BY <1>1 DEF Advances, RunJournal
<1>4. QED
  BY <1>2, <1>3 DEF Advanced

LEMMA TheRunHeld ==
    ASSUME Sites, NEW p \in Site, Cardinality(Active(p)) = 1
    PROVE  /\ TheRun(p) \in HeldBy(p) /\ TheRun(p).status \in ActiveRuns
           /\ TheRun(p).run \in Run /\ disk[p][TheRun(p).run] = TheRun(p) /\ TheRun(p) # None
<1>1. /\ TheRun(p) \in RunJournal /\ disk[p][TheRun(p).run] = TheRun(p)
      /\ AtWork(disk[p]) = {TheRun(p).run}
  BY TheRunIsAtWork
<1>2. TheRun(p).run \in AtWork(disk[p])
  BY <1>1
<1>3. TheRun(p).run \in Run /\ disk[p][TheRun(p).run] # None
      /\ disk[p][TheRun(p).run].status \in ActiveRuns
  BY <1>2 DEF AtWork
<1>4. QED
  BY <1>1, <1>3 DEF HeldBy

\* The last event of what is read says the latest of its run.
LEMMA LatestIsReadBack ==
    ASSUME World, OnlyRoot, Forward, NEW visible \in SUBSET OpenLedgers,
           NEW events \in Readable(visible), events # <<>>
    PROVE  ReadBack(LatestState(events))
<1>1. PICK i \in LedgerRead(visible) : events = CommentsOf(i)
  BY DEF Readable
<1>2. i # root => i \in DOMAIN ledgers \/ i = 0
  BY <1>1 DEF LedgerRead, OpenLedgers
<1>3. events = Events
  BY <1>1, <1>2 DEF OnlyRoot, CommentsOf, Events
<1>4. Events \in Seq(Event) /\ Len(Events) \in Nat /\ DOMAIN Events = 1 .. Len(Events)
  BY EventsType
<1> DEFINE n == Len(Events)
<1>5. n \in DOMAIN Events /\ n \in Nat
  BY <1>3, <1>4
<1>6. LatestState(events) = Events[n].state
  BY <1>3 DEF LatestState, Last
<1>7. ASSUME NEW k \in DOMAIN Events PROVE Continues(Events[n].state, Events[k].state)
  <2>1. CASE k = n
    BY <2>1 DEF Continues
  <2>2. CASE k # n
    <3>1. k \in 1 .. n - 1
      BY <1>4, <1>5, <2>2
    <3> HIDE DEF n
    <3>2. QED
      BY <1>5, <3>1 DEF Forward, InOrder
  <2>3. QED
    BY <2>1, <2>2
<1> HIDE DEF n
<1>8. QED
  BY <1>5, <1>6, <1>7 DEF ReadBack, Written

LEMMA RestoreReadHolds ==
    ASSUME World, Sites, Sites', ForwardInv, NEW p \in Site, RestoreRead(p)
    PROVE  ForwardInv'
<1>1. UNCHANGED <<root, ledgers, disk>> /\ call[p].stage = "restore"
  BY DEF RestoreRead, Aside, ledgerVars, At
<1>2. call[p] # Off /\ p \in Job
  BY <1>1, NotOff DEF Sites, Fits
<1>3. ASSUME NEW c, Goto(p, c), c.stage \in {"persist", "inbox"} PROVE ForwardInv'
  BY <1>1, <1>2, <1>3, QuietHolds
<1>4. ASSUME NEW visible \in SUBSET OpenLedgers, NEW events \in Readable(visible), events # <<>>,
             Goto(p, [stage |-> "restoring", state |-> LatestState(events)])
      PROVE  ForwardInv'
  <2>1. ReadBack(LatestState(events))
    BY <1>4, LatestIsReadBack DEF ForwardInv
  <2>2. /\ call'[p] = [stage |-> "restoring", state |-> LatestState(events)]
        /\ \A q \in Site : q # p => call'[q] = call[q] /\ disk'[q] = disk[q]
    BY <1>1, <1>4, SiteMoves
  <2>3. CallFits(p)'
    BY <2>2 DEF CallFits, At, Carries
  <2>4. HeldBy(p)' \subseteq HeldBy(p) \cup {LatestState(events)}
    BY <1>1, <2>2 DEF HeldBy, At
  <2>5. QED
    BY <1>1, <1>2, <2>1, <2>2, <2>3, <2>4, SiteStepHolds
<1>5. PICK visible \in SUBSET OpenLedgers :
          IF Readable(visible) = {} THEN Goto(p, [stage |-> "persist"])
          ELSE \E events \in Readable(visible) :
                   Goto(p, IF events = <<>> THEN [stage |-> "inbox"]
                           ELSE [stage |-> "restoring", state |-> LatestState(events)])
  BY DEF RestoreRead
<1>6. CASE Goto(p, [stage |-> "persist"])
  BY <1>3, <1>6
<1>7. ASSUME NEW events \in Readable(visible),
             Goto(p, IF events = <<>> THEN [stage |-> "inbox"]
                     ELSE [stage |-> "restoring", state |-> LatestState(events)])
      PROVE  ForwardInv'
  <2>1. CASE events = <<>>
    <3>1. Goto(p, [stage |-> "inbox"])
      BY <1>7, <2>1
    <3>2. QED
      BY <1>3, <3>1
  <2>2. CASE events # <<>>
    <3>1. Goto(p, [stage |-> "restoring", state |-> LatestState(events)])
      BY <1>7, <2>2
    <3>2. QED
      BY <1>4, <2>2, <3>1
  <2>3. QED
    BY <2>1, <2>2
<1>8. QED
  BY <1>5, <1>6, <1>7

\* A run whose issue was closed comes back blocked, a revision later.
LEMMA RestoreWriteHolds ==
    ASSUME World, Sites, Sites', ForwardInv, NEW p \in Site, RestoreWrite(p)
    PROVE  ForwardInv'
<1> DEFINE s == call[p].state
           j == Restored(s, work)
           c == [stage |-> "inbox"]
<1>1. /\ UNCHANGED <<root, ledgers>> /\ call[p].stage = "restoring"
      /\ Put(p, j) /\ Goto(p, c)
  BY DEF RestoreWrite, Aside, ledgerVars, At
<1>2. s \in RunJournal /\ s \in HeldBy(p)
  BY <1>1, CallType DEF HeldBy, At
<1>3. j \in RunJournal
  BY <1>2, RestoredType
<1>4. j \in HeldBy(p) \/ Advanced(p, j)
  <2>1. CASE s.status \in ActiveRuns /\ work[s.issue] # "open"
    <3>1. s.rev \in Nat /\ j = [s EXCEPT !.status = "BLOCKED", !.rev = s.rev + 1]
      BY <1>2, <2>1 DEF Restored, RunJournal
    <3>2. j.run = s.run /\ j.rev = s.rev + 1
      BY <1>2, <3>1 DEF RunJournal
    <3> HIDE DEF j, s
    <3>3. QED
      BY <1>2, <2>1, <3>1, <3>2 DEF Advanced
  <2>2. CASE ~(s.status \in ActiveRuns /\ work[s.issue] # "open")
    BY <1>2, <2>2 DEF Restored
  <2>3. QED
    BY <2>1, <2>2
<1>5. c.stage = "inbox" /\ call[p] # Off
  BY <1>1, NotOff
<1> HIDE DEF j, c
<1>6. QED
  BY <1>1, <1>3, <1>4, <1>5, FileHolds

LEMMA ConsumeResultHolds ==
    ASSUME World, Sites, Sites', ForwardInv, NEW p \in Site, ConsumeResult(p)
    PROVE  ForwardInv'
<1> DEFINE c == [stage |-> "cycle"]
<1>1. UNCHANGED <<root, ledgers>> /\ call[p] # Off /\ Goto(p, c) /\ c.stage = "cycle"
  BY NotOff DEF ConsumeResult, Aside, ledgerVars, At
<1> HIDE DEF c
<1>2. CASE UNCHANGED disk
  BY <1>1, <1>2, QuietHolds
<1>3. ASSUME Cardinality(Active(p)) = 1, NEW j \in Advances(TheRun(p)), Put(p, j)
      PROVE  ForwardInv'
  <2>1. j \in RunJournal /\ Advanced(p, j)
    BY <1>3, TheRunHeld, AdvancesHolds
  <2>2. QED
    BY <1>1, <1>3, <2>1, FileHolds
<1>4. QED
  BY <1>2, <1>3 DEF ConsumeResult

\* The id of a new run is a new one.
LEMMA BootstrapHolds ==
    ASSUME World, Sites, Sites', ForwardInv, NEW p \in Site, Bootstrap(p)
    PROVE  ForwardInv'
<1> DEFINE pick == Selector!AuthorizeNextAction(ReadyQueue(call[p].open), Healthy, 0)
           new(r) == [run |-> r, issue |-> pick.issue, rev |-> 0,
                      status |-> "RUNNING", prepared |-> FALSE]
           c == [stage |-> "cycle"]
<1>1. UNCHANGED <<root, ledgers>> /\ call[p] # Off /\ call[p].stage = "snapshot"
      /\ c.stage = "cycle"
  BY NotOff DEF Bootstrap, Aside, ledgerVars, At
<1> HIDE DEF c
<1>2. CASE Goto(p, AfterCycle(p)) /\ UNCHANGED disk
  BY <1>1, <1>2, AfterCycleOf, QuietHolds
<1>3. ASSUME pick.action = "CLAIM_ONE_READY", NEW r \in Run,
             \A q \in Site : /\ disk[q][r] = None
                             /\ At(q, "restoring") => call[q].state.run # r,
             \A i \in DOMAIN ledgers : \A k \in DOMAIN ledgers[i].comments :
                 ledgers[i].comments[k].state.run # r,
             Put(p, new(r)), Goto(p, c)
      PROVE  ForwardInv'
  <2>1. call[p].open \in SUBSET Work
    BY <1>1, CallType
  <2>2. pick.issue \in Work
    BY <1>3, <2>1, PickedIsOpen
  <2>3. new(r) \in RunJournal
    BY <2>2 DEF RunJournal, RunStatus
  <2>4. \A e \in Written : e.run # r
    <3>1. root # 0 => root \in DOMAIN ledgers
      BY DEF World, LedgerTypeOK
    <3>2. QED
      BY <1>3, <3>1 DEF Written, Events, CommentsOf
  <2>5. \A q \in Site : \A k \in HeldBy(q) : k.run # r
    <3>1. ASSUME NEW q \in Site, NEW k \in HeldBy(q) PROVE k.run # r
      <4>1. CASE At(q, "restoring") /\ k = call[q].state
        BY <1>3, <4>1
      <4>2. ASSUME NEW x \in Run, disk[q][x] # None, k = disk[q][x] PROVE k.run # r
        BY <1>3, <4>2 DEF Sites, Fits, Tidy
      <4>3. QED
        BY <4>1, <4>2 DEF HeldBy
    <3>2. QED
      BY <3>1
  <2>6. Fresh(new(r))
    BY <2>4, <2>5 DEF Fresh
  <2> HIDE DEF new
  <2>7. QED
    BY <1>1, <1>3, <2>3, <2>6, FileHolds
<1>4. QED
  BY <1>2, <1>3 DEF Bootstrap, c

LEMMA DecideHolds ==
    ASSUME World, Sites, Sites', ForwardInv, NEW p \in Site, Decide(p)
    PROVE  ForwardInv'
<1>1. UNCHANGED <<root, ledgers, disk>> /\ call[p] # Off /\ Cardinality(Active(p)) = 1
  BY NotOff DEF Decide, Aside, ledgerVars, At
<1>2. CASE Goto(p, AfterCycle(p))
  BY <1>1, <1>2, AfterCycleOf, QuietHolds
<1>3. CASE Goto(p, [stage |-> "tick", run |-> TheRun(p).run, lease |-> lease.id])
  <2>1. /\ call'[p] = [stage |-> "tick", run |-> TheRun(p).run, lease |-> lease.id]
        /\ \A q \in Site : q # p => call'[q] = call[q] /\ disk'[q] = disk[q]
    BY <1>1, <1>3, SiteMoves
  <2>2. disk[p][TheRun(p).run] = TheRun(p) /\ TheRun(p).status \in ActiveRuns
    BY <1>1, TheRunHeld
  <2>3. CallFits(p)'
    BY <1>1, <2>1, <2>2 DEF CallFits, At, Carries
  <2>4. HeldBy(p)' \subseteq HeldBy(p)
    BY <1>1, <2>1 DEF HeldBy, At
  <2>5. QED
    BY <1>1, <2>1, <2>3, <2>4, SiteStepHolds
<1>4. QED
  BY <1>2, <1>3, DecideResumes

LEMMA TickHolds ==
    ASSUME World, Sites, Sites', ForwardInv, NEW p \in Site, Tick(p)
    PROVE  ForwardInv'
<1> DEFINE i == disk[p][call[p].run]
<1>1. /\ UNCHANGED <<root, ledgers>> /\ call[p].stage = "tick" /\ call[p] # Off
      /\ Goto(p, AfterCycle(p))
  BY NotOff DEF Tick, Aside, ledgerVars, At
<1>2. PICK j \in Advances(i) : Put(p, j)
  BY DEF Tick
<1>3. call[p].run \in Run /\ i # None /\ i.status \in ActiveRuns
  BY <1>1, CallType DEF Sites, Fits, ForwardInv, CallsFit, CallFits, At
<1>4. i \in HeldBy(p)
  BY <1>3 DEF HeldBy
<1> HIDE DEF i
<1>5. j \in RunJournal /\ Advanced(p, j)
  BY <1>3, <1>4, AdvancesHolds
<1>6. QED
  BY <1>1, <1>2, <1>5, AfterCycleOf, FileHolds

LEMMA PersistHolds ==
    ASSUME World, Sites, Sites', ForwardInv, NEW p \in Site, Persist(p)
    PROVE  ForwardInv'
<1>1. UNCHANGED <<root, ledgers>> /\ call[p] # Off /\ p \in Job
  BY NotOff DEF Persist, Aside, ledgerVars, At, ForwardInv, CallsFit, CallFits
<1>2. CASE Goto(p, Off) /\ Leave(p)
  BY <1>1, <1>2, QuietHolds DEF Off
<1>3. ASSUME NEW j \in PersistState(p), NEW k, Goto(p, Appending("append", j, k)), UNCHANGED disk
      PROVE  ForwardInv'
  <2> DEFINE c == Appending("append", j, k)
  <2>1. \E r \in Run : disk[p][r] = j /\ disk[p][r] # None
    <3>1. CASE Cardinality(Active(p)) = 1
      <4>1. j = TheRun(p)
        BY <3>1 DEF PersistState
      <4>2. QED
        BY <3>1, <4>1, TheRunHeld
    <3>2. CASE Cardinality(Active(p)) # 1
      <4>1. marker[p] # None /\ j = disk[p][marker[p]]
        BY <3>2 DEF PersistState
      <4>2. QED
        BY <4>1 DEF Sites, Fits
    <3>3. QED
      BY <3>1, <3>2
  <2>2. Carries(c) /\ Carried(c) = j
    BY DEF Appending, Carries, Carried
  <2>3. ~(p \in Host)
    BY <1>1, HostedAssumption
  <2> HIDE DEF c
  <2>4. QED
    BY <1>1, <1>3, <2>1, <2>2, <2>3, CarryHolds DEF c
<1>4. CASE PersistState(p) = {}
  BY <1>2, <1>4 DEF Persist
<1>5. CASE PersistState(p) # {}
  <2>1. (CHOOSE j \in PersistState(p) : TRUE) \in PersistState(p)
    BY <1>5
  <2>2. UNCHANGED disk /\ \E k : Goto(p, Appending("append", CHOOSE j \in PersistState(p) : TRUE, k))
    BY <1>5 DEF Persist
  <2>3. QED
    BY <1>3, <2>1, <2>2
<1>6. QED
  BY <1>4, <1>5

LEMMA PersistByHandHolds ==
    ASSUME World, Sites, Sites', ForwardInv, NEW p \in Site, PersistByHand(p)
    PROVE  ForwardInv'
<1>1. UNCHANGED <<root, ledgers, disk>> /\ p \in Host
  BY DEF PersistByHand, Aside, ledgerVars
<1>2. PICK r \in Run : /\ disk[p][r] # None /\ disk[p][r].status = "COMPLETE"
                       /\ Goto(p, Appending("append", disk[p][r], None))
  BY DEF PersistByHand
<1> DEFINE c == Appending("append", disk[p][r], None)
<1>3. Carries(c) /\ Carried(c) = disk[p][r]
  BY DEF Appending, Carries, Carried
<1> HIDE DEF c
<1>4. Carried(c).status \notin ActiveRuns
  BY <1>2, <1>3 DEF ActiveRuns
<1>5. QED
  BY <1>1, <1>2, <1>3, <1>4, CarryHolds DEF c

-----------------------------------------------------------------------------
(* The steps of an append.                                                   *)

\* The append goes on with the journal it has.
LEMMA CarriesOn ==
    ASSUME World, Sites, Sites', ForwardInv, NEW p \in Site, Carries(call[p]),
           UNCHANGED <<root, ledgers>> \/ (OnlyRoot' /\ Events' = Events),
           NEW c, Goto(p, c), Carries(c), Carried(c) = Carried(call[p]), UNCHANGED disk
    PROVE  ForwardInv'
<1>1. /\ Carried(call[p]) \in HeldBy(p)
      /\ p \in Host => Carried(call[p]).status \notin ActiveRuns
  BY DEF ForwardInv, CallsFit, CallFits
<1>2. ~At(p, "restoring") /\ call[p] # Off
  BY NotOff DEF Carries, At
<1>3. Carried(call[p]) \in RunJournal /\ Carried(call[p]) # None
  BY <1>1, HeldType, LedgerAssumption
<1>4. disk[p][Carried(call[p]).run] = Carried(call[p]) /\ Carried(call[p]).run \in Run
  BY <1>1, <1>2, HeldOnDisk
<1>5. QED
  BY <1>1, <1>2, <1>3, <1>4, CarryHolds

\* The append is over, and a job's checkout with it.
LEMMA AppendOver ==
    ASSUME World, Sites, Sites', ForwardInv, NEW p \in Site, call[p].stage \in AppendStages,
           UNCHANGED <<root, ledgers>> \/ (OnlyRoot' /\ Events' = Events),
           Goto(p, Off), Leave(p)
    PROVE  ForwardInv'
<1>1. Off.stage = "off" /\ call[p] # Off
  BY NotOff DEF Off, AppendStages
<1>2. QED
  BY <1>1, QuietHolds

\* Either the call is over and the site is left, or it keeps its disk.
LEMMA LeavesOrKeeps ==
    ASSUME Sites, NEW p \in Site, PersistStep(p)
    PROVE  /\ \A c : Goto(p, c) /\ c # Off => UNCHANGED disk
           /\ Goto(p, Off) => Leave(p)
<1>1. \A c : Goto(p, c) => call'[p] = c
  BY SiteMoves
<1>2. IF call'[p] = Off THEN Leave(p) ELSE UNCHANGED <<disk, marker>>
  BY DEF PersistStep
<1>3. QED
  BY <1>1, <1>2

LEMMA StageCarries ==
    ASSUME NEW c, Carries(c)
    PROVE  c # Off
  BY DEF Carries, Off

\* A call that only changes its stage carries what it carried.
LEMMA NextStage ==
    ASSUME Sites, NEW p \in Site, call[p].stage \in {"append", "create", "elect", "read", "close"},
           NEW s \in {"append", "create", "elect", "read", "close"}
    PROVE  /\ Carries([call[p] EXCEPT !.stage = s]) /\ Carries(call[p])
           /\ Carried([call[p] EXCEPT !.stage = s]) = Carried(call[p])
           /\ Carries(Appending(s, call[p].state, call[p].checkpoint))
           /\ Carried(Appending(s, call[p].state, call[p].checkpoint)) = Carried(call[p])
<1>1. call[p] \in SiteCall
  BY DEF Sites
<1> DEFINE c == [call[p] EXCEPT !.stage = s]
<1>2. c.stage = s /\ c.state = call[p].state
  BY <1>1 DEF SiteCall
<1>3. s # "comment" /\ call[p].stage # "comment"
  OBVIOUS
<1> HIDE DEF c
<1>4. Carries(c) /\ Carries(call[p]) /\ Carried(c) = Carried(call[p])
  BY <1>2, <1>3 DEF Carries, Carried
<1>5. /\ Carries(Appending(s, call[p].state, call[p].checkpoint))
      /\ Carried(Appending(s, call[p].state, call[p].checkpoint)) = call[p].state
  BY <1>3 DEF Carries, Carried, Appending
<1>6. Carried(call[p]) = call[p].state
  BY <1>3 DEF Carried
<1>7. QED
  BY <1>4, <1>5, <1>6 DEF c

LEMMA EnsureIssueHolds ==
    ASSUME World, Sites, Sites', ForwardInv, NEW p \in Site, PersistStep(p), EnsureIssue(p, Off)
    PROVE  ForwardInv'
<1> DEFINE k == call[p]
           elect(i) == [stage |-> "elect", state |-> k.state, checkpoint |-> k.checkpoint,
                        candidate |-> i, created |-> FALSE]
<1>1. UNCHANGED <<root, ledgers>> /\ k.stage = "append" /\ k.stage \in AppendStages
  BY DEF EnsureIssue, At, ledgerVars, AppendStages
<1>2. ASSUME NEW c, Goto(p, c), Carries(c), Carried(c) = Carried(k) PROVE ForwardInv'
  <2>1. UNCHANGED disk
    BY <1>2, LeavesOrKeeps, StageCarries
  <2>2. Carries(k)
    BY <1>1 DEF Carries
  <2>3. QED
    BY <1>1, <1>2, <2>1, <2>2, CarriesOn
<1>3. CASE Goto(p, Off)
  BY <1>1, <1>3, LeavesOrKeeps, AppendOver
<1>4. CASE Goto(p, [k EXCEPT !.stage = "read"])
  BY <1>1, <1>2, <1>4, NextStage
<1>5. CASE Goto(p, [k EXCEPT !.stage = "create"])
  BY <1>1, <1>2, <1>5, NextStage
<1>6. ASSUME NEW i, Goto(p, elect(i)) PROVE ForwardInv'
  <2>1. Carries(elect(i)) /\ Carried(elect(i)) = Carried(k)
    BY <1>1 DEF Carries, Carried
  <2> HIDE DEF elect
  <2>2. QED
    BY <1>2, <1>6, <2>1
<1>7. QED
  BY <1>3, <1>4, <1>5, <1>6 DEF EnsureIssue

LEMMA CreateLedgerHolds ==
    ASSUME World, Sites, Sites', ForwardInv, NEW p \in Site, PersistStep(p), CreateLedger(p)
    PROVE  ForwardInv'
<1> DEFINE k == call[p]
           c == [stage |-> "elect", state |-> k.state, checkpoint |-> k.checkpoint,
                 candidate |-> Len(ledgers) + 1, created |-> TRUE]
           g == [open |-> TRUE, comments |-> <<>>]
<1>1. /\ ledgers' = Append(ledgers, g) /\ root' = root
      /\ k.stage = "create" /\ Goto(p, c)
  BY DEF CreateLedger, At
<1>2. ledgers \in Seq(Ledger) /\ Len(ledgers) \in Nat /\ root \in 0 .. Len(ledgers)
  BY DEF World, LedgerTypeOK
<1>3. /\ \A i \in DOMAIN ledgers : ledgers'[i] = ledgers[i]
      /\ \A i \in DOMAIN ledgers' : i \in DOMAIN ledgers \/ ledgers'[i] = g
  BY <1>1, <1>2
<1>4. OnlyRoot' /\ Events' = Events
  <2>1. OnlyRoot'
    BY <1>1, <1>3 DEF ForwardInv, OnlyRoot
  <2>2. root # 0 => root \in DOMAIN ledgers
    BY <1>2
  <2>3. QED
    BY <1>1, <1>3, <2>1, <2>2 DEF Events, CommentsOf
<1>5. Carries(c) /\ Carries(k) /\ Carried(c) = Carried(k)
  BY <1>1 DEF Carries, Carried
<1> HIDE DEF c, g
<1>6. UNCHANGED disk
  BY <1>1, <1>5, LeavesOrKeeps, StageCarries
<1>7. QED
  BY <1>1, <1>4, <1>5, <1>6, CarriesOn

LEMMA ElectHolds ==
    ASSUME World, Sites, Sites', ForwardInv, NEW p \in Site, PersistStep(p), Elect(p, Off)
    PROVE  ForwardInv'
<1> DEFINE k == call[p]
<1>1. /\ ledgers' = ledgers /\ root' = IF root = 0 THEN k.candidate ELSE root
      /\ k.stage = "elect" /\ k.stage \in AppendStages
  BY DEF Elect, At, AppendStages
<1>2. k.candidate \in DOMAIN ledgers
  BY <1>1, CallType DEF World, LedgerTypeOK
<1>3. OnlyRoot' /\ Events' = Events
  <2>1. 0 \notin DOMAIN ledgers
    BY DEF World, LedgerTypeOK
  <2>2. CASE root = 0
    <3>1. \A i \in DOMAIN ledgers : ledgers[i].comments = <<>>
      BY <2>1, <2>2 DEF ForwardInv, OnlyRoot
    <3>2. QED
      BY <1>1, <1>2, <2>1, <2>2, <3>1 DEF OnlyRoot, Events, CommentsOf
  <2>3. CASE root # 0
    BY <1>1, <2>3 DEF ForwardInv, OnlyRoot, Events, CommentsOf
  <2>4. QED
    BY <2>2, <2>3
<1>4. ASSUME NEW c, Goto(p, c), Carries(c), Carried(c) = Carried(k) PROVE ForwardInv'
  <2>1. UNCHANGED disk
    BY <1>4, LeavesOrKeeps, StageCarries
  <2>2. Carries(k)
    BY <1>1 DEF Carries
  <2>3. QED
    BY <1>3, <1>4, <2>1, <2>2, CarriesOn
<1>5. CASE Goto(p, Off)
  BY <1>1, <1>3, <1>5, LeavesOrKeeps, AppendOver
<1>6. CASE Goto(p, Appending("read", k.state, k.checkpoint))
  BY <1>1, <1>4, <1>6, NextStage
<1>7. CASE Goto(p, [k EXCEPT !.stage = "close"])
  BY <1>1, <1>4, <1>7, NextStage
<1>8. QED
  BY <1>5, <1>6, <1>7 DEF Elect

LEMMA CloseCandidateHolds ==
    ASSUME World, Sites, Sites', ForwardInv, NEW p \in Site, PersistStep(p), CloseCandidate(p)
    PROVE  ForwardInv'
<1> DEFINE k == call[p]
           i == k.candidate
           g == [ledgers[i] EXCEPT !.open = FALSE]
           c == Appending("read", k.state, k.checkpoint)
<1>1. /\ ledgers' = [ledgers EXCEPT ![i] = g] /\ root' = root
      /\ k.stage = "close" /\ Goto(p, c)
  BY DEF CloseCandidate, At
<1>2. i \in 1 .. Len(ledgers) /\ DOMAIN ledgers = 1 .. Len(ledgers)
  BY <1>1, CallType DEF World, LedgerTypeOK
<1>3. g.comments = ledgers[i].comments
  BY <1>2, LedgerType DEF World, Ledger
<1> HIDE DEF g, i
<1>4. DOMAIN ledgers' = DOMAIN ledgers /\ \A n \in DOMAIN ledgers : ledgers'[n].comments = ledgers[n].comments
  BY <1>1, <1>2, <1>3
<1>5. OnlyRoot' /\ Events' = Events
  <2>1. OnlyRoot'
    BY <1>1, <1>4 DEF ForwardInv, OnlyRoot
  <2>2. root # 0 => root \in DOMAIN ledgers
    BY DEF World, LedgerTypeOK
  <2>3. QED
    BY <1>1, <1>4, <2>1, <2>2 DEF Events, CommentsOf
<1>6. Carries(c) /\ Carries(k) /\ Carried(c) = Carried(k)
  BY <1>1, NextStage
<1> HIDE DEF c
<1>7. UNCHANGED disk
  BY <1>1, <1>6, LeavesOrKeeps, StageCarries
<1>8. QED
  BY <1>1, <1>5, <1>6, <1>7, CarriesOn

LEMMA ReadLedgerHolds ==
    ASSUME World, Sites, Sites', ForwardInv, NEW p \in Site, PersistStep(p), ReadLedger(p, Off)
    PROVE  ForwardInv'
<1> DEFINE k == call[p]
<1>1. UNCHANGED <<root, ledgers>> /\ k.stage = "read" /\ k.stage \in AppendStages
  BY DEF ReadLedger, At, ledgerVars, AppendStages
<1>2. \/ Goto(p, Off)
      \/ \E e : e.state = k.state /\ Goto(p, [stage |-> "comment", event |-> e])
  BY DEF ReadLedger
<1>3. CASE Goto(p, Off)
  BY <1>1, <1>3, LeavesOrKeeps, AppendOver
<1>4. ASSUME NEW e, e.state = k.state, Goto(p, [stage |-> "comment", event |-> e]) PROVE ForwardInv'
  <2> DEFINE c == [stage |-> "comment", event |-> e]
  <2>1. Carries(c) /\ Carries(k) /\ Carried(c) = Carried(k)
    BY <1>1, <1>4 DEF Carries, Carried
  <2> HIDE DEF c
  <2>2. UNCHANGED disk
    BY <1>4, <2>1, LeavesOrKeeps, StageCarries DEF c
  <2>3. QED
    BY <1>1, <1>4, <2>1, <2>2, CarriesOn DEF c
<1>5. QED
  BY <1>2, <1>3, <1>4

LEMMA AddTagHolds ==
    ASSUME World, Sites, Sites', ForwardInv, NEW p \in Site, PersistStep(p), AddTag(p, Off)
    PROVE  ForwardInv'
<1>1. UNCHANGED <<root, ledgers>> /\ call[p].stage \in AppendStages /\ Goto(p, Off)
  BY DEF AddTag, At, AppendStages
<1>2. QED
  BY <1>1, LeavesOrKeeps, AppendOver

\* The comment follows all that is written of its run.
LEMMA AddCommentFacts ==
    ASSUME World, Sites, Rooted, ForwardInv, NEW p \in Site, PersistStep(p), AddComment(p)
    PROVE  /\ root \in DOMAIN ledgers /\ DOMAIN ledgers' = DOMAIN ledgers
           /\ \A i \in DOMAIN ledgers : i # root => ledgers'[i] = ledgers[i]
           /\ ledgers'[root].comments = Append(Events, call[p].event)
           /\ Events = ledgers[root].comments /\ root' = root
           /\ Events' = Append(Events, call[p].event)
           /\ call[p].event \in Event /\ UNCHANGED disk
           /\ call'[p].stage = "tag" /\ \A q \in Site : q # p => call'[q] = call[q]
           /\ call[p].event.state \in HeldBy(p)
           /\ p \in Host => call[p].event.state.status \notin ActiveRuns
<1> DEFINE es == Append(ledgers[root].comments, call[p].event)
           g  == [ledgers[root] EXCEPT !.comments = es]
           c  == [call[p] EXCEPT !.stage = "tag"]
<1>1. /\ call[p].stage = "comment" /\ ledgers' = [ledgers EXCEPT ![root] = g]
      /\ root' = root /\ Goto(p, c)
  BY DEF AddComment, At
<1>2. root # 0 /\ root \in 1 .. Len(ledgers) /\ DOMAIN ledgers = 1 .. Len(ledgers)
  BY <1>1 DEF Rooted, World, LedgerTypeOK
<1>3. ledgers[root] \in Ledger /\ call[p] \in SiteCall /\ call[p].event \in Event
  BY <1>1, <1>2, LedgerType, CallType DEF World, Sites
<1>4. g.comments = es
  BY <1>3 DEF Ledger
<1>5. c.stage = "tag" /\ c # Off
  <2>1. c.stage = "tag"
    BY <1>3 DEF SiteCall
  <2> HIDE DEF c
  <2>2. QED
    BY <2>1 DEF Off
<1>6. Events = ledgers[root].comments
  BY <1>2 DEF Events, CommentsOf
<1> HIDE DEF g, c
<1>7. ledgers'[root].comments = es /\ DOMAIN ledgers' = DOMAIN ledgers
      /\ \A i \in DOMAIN ledgers : i # root => ledgers'[i] = ledgers[i]
  BY <1>1, <1>2, <1>4
<1>8. Events' = es
  BY <1>1, <1>2, <1>7 DEF Events, CommentsOf
<1>9. call'[p] = c /\ UNCHANGED disk /\ \A q \in Site : q # p => call'[q] = call[q]
  BY <1>1, <1>5, SiteMoves, LeavesOrKeeps
<1>10. /\ call[p].event.state \in HeldBy(p)
       /\ p \in Host => call[p].event.state.status \notin ActiveRuns
  BY <1>1 DEF ForwardInv, CallsFit, CallFits, Carries, Carried
<1>11. QED
  BY <1>1, <1>2, <1>3, <1>5, <1>6, <1>7, <1>8, <1>9, <1>10

LEMMA AddCommentHolds ==
    ASSUME World, Sites, Rooted, ForwardInv, NEW p \in Site, PersistStep(p), AddComment(p)
    PROVE  ForwardInv'
<1> DEFINE event == call[p].event
           s == event.state
<1>1. /\ root \in DOMAIN ledgers /\ DOMAIN ledgers' = DOMAIN ledgers
      /\ \A i \in DOMAIN ledgers : i # root => ledgers'[i] = ledgers[i]
      /\ root' = root /\ Events' = Append(Events, event) /\ event \in Event
      /\ UNCHANGED disk /\ call'[p].stage = "tag"
      /\ \A q \in Site : q # p => call'[q] = call[q]
      /\ s \in HeldBy(p) /\ (p \in Host => s.status \notin ActiveRuns)
  BY AddCommentFacts
<1> HIDE DEF event
<1>2. call[p].stage = "comment" /\ call[p] # Off /\ call'[p] # Off
  BY <1>1, NotOff DEF AddComment, At, Off
<1>3. \A q \in Site : HeldBy(q)' = HeldBy(q)
  BY <1>1, <1>2 DEF HeldBy, At
<1>4. OnlyRoot' /\ OneJob'
  <2>1. OnlyRoot'
    BY <1>1 DEF ForwardInv, OnlyRoot
  <2>2. QED
    BY <1>1, <1>2, <2>1, JobMoves DEF ForwardInv
<1>5. CallsFit'
  <2>1. CallFits(p)'
    BY <1>1 DEF CallFits, At, Carries
  <2>2. QED
    BY <1>1, <2>1, CallMoves DEF ForwardInv
<1>6. /\ Events \in Seq(Event) /\ Len(Events) \in Nat
      /\ DOMAIN Events = 1 .. Len(Events)
  BY EventsType
<1>7. /\ Events'[Len(Events) + 1] = event /\ DOMAIN Events' = 1 .. Len(Events) + 1
      /\ \A k \in DOMAIN Events : Events'[k] = Events[k]
  BY <1>1, <1>6
<1>8. \A e \in Written' : e \in Written \/ e = s
  BY <1>6, <1>7 DEF Written
<1>9. InOrder(Events)'
  <2> SUFFICES ASSUME NEW l \in DOMAIN Events', NEW k \in 1 .. l - 1
               PROVE  Continues(Events'[l].state, Events'[k].state)
    BY DEF InOrder, Continues
  <2>1. k \in DOMAIN Events /\ Events'[k] = Events[k]
    BY <1>6, <1>7
  <2>2. CASE l \in DOMAIN Events
    BY <1>7, <2>1, <2>2 DEF ForwardInv, Forward, InOrder
  <2>3. CASE l = Len(Events) + 1
    <3>1. Events[k].state \in Written
      BY <2>1 DEF Written
    <3>2. QED
      BY <1>1, <1>7, <2>1, <2>3, <3>1 DEF ForwardInv, Forward
  <2>4. QED
    BY <1>6, <1>7, <2>2, <2>3
<1>10. ASSUME NEW q \in Site, NEW j \in HeldBy(q), s.run = j.run PROVE s = j
  <2>1. CASE q = p
    <3>1. ~At(p, "restoring")
      BY <1>2 DEF At
    <3>2. QED
      BY <1>1, <1>10, <2>1, <3>1, HeldOnDisk
  <2>2. CASE q # p /\ q \in Host
    BY <1>1, <1>10, <2>2 DEF ForwardInv, HostsOwn
  <2>3. CASE q # p /\ p \in Host
    BY <1>1, <1>10, <2>3 DEF ForwardInv, HostsOwn
  <2>4. CASE q # p /\ q \in Job /\ p \in Job
    <3>1. call[q] = Off
      BY <1>2, <2>4 DEF ForwardInv, OneJob
    <3>2. HeldBy(q) = {}
      BY <2>4, <3>1, IdleJobHolds
    <3>3. QED
      BY <1>10, <3>2
  <2>5. QED
    BY <2>1, <2>2, <2>3, <2>4, HostedAssumption
<1>11. Forward'
  <2>1. ASSUME NEW q \in Site, NEW j \in HeldBy(q), NEW e \in Written' PROVE Continues(j, e)
    <3>1. CASE e \in Written
      BY <3>1 DEF ForwardInv, Forward
    <3>2. CASE e = s
      BY <1>10, <3>2 DEF Continues
    <3>3. QED
      BY <1>8, <3>1, <3>2
  <2>2. QED
    BY <1>3, <1>9, <2>1 DEF Forward, Continues
<1>12. HostsOwn'
  <2>1. ASSUME NEW h \in Host, NEW j \in HeldBy(h), NEW e \in Written', e.run = j.run
        PROVE  e = j /\ j.status \notin ActiveRuns
    <3>0. h \in Site
      BY HostedAssumption
    <3>1. CASE e \in Written
      BY <2>1, <3>1 DEF ForwardInv, HostsOwn
    <3>2. CASE e = s /\ h = p
      BY <1>1, <1>10, <2>1, <3>0, <3>2
    <3>3. CASE e = s /\ h # p
      BY <1>1, <2>1, <3>0, <3>3 DEF ForwardInv, HostsOwn
    <3>4. QED
      BY <1>8, <3>1, <3>2, <3>3
  <2>2. Host \subseteq Site
    BY HostedAssumption
  <2>3. QED
    BY <1>3, <2>1, <2>2 DEF ForwardInv, HostsOwn
<1>13. QED
  BY <1>4, <1>5, <1>11, <1>12 DEF ForwardInv

-----------------------------------------------------------------------------
(* The world's steps.                                                        *)

LEMMA SameCalls ==
    ASSUME CallsFit, UNCHANGED <<call, disk>>
    PROVE  CallsFit' /\ \A q \in Site : HeldBy(q)' = HeldBy(q)
<1>1. \A q \in Site : HeldBy(q)' = HeldBy(q)
  BY DEF HeldBy, At
<1>2. ASSUME NEW q \in Site PROVE CallFits(q)'
  <2>1. call'[q] = call[q] /\ disk'[q] = disk[q] /\ CallFits(q)
    BY DEF CallsFit
  <2>2. QED
    BY <1>1, <2>1 DEF CallFits, At
<1>3. QED
  BY <1>1, <1>2 DEF CallsFit

LEMMA LossFacts ==
    ASSUME World, NEW i \in DOMAIN ledgers, NEW k, LoseComment(i, k)
    PROVE  LET es == ledgers[i].comments
               fs == ledgers'[i].comments
           IN  /\ DOMAIN ledgers' = DOMAIN ledgers
               /\ \A n \in DOMAIN ledgers : n # i => ledgers'[n] = ledgers[n]
               /\ es \in Seq(Event) /\ k \in 1 .. Len(es) /\ Len(es) \in Nat
               /\ DOMAIN fs = 1 .. Len(es) - 1 /\ Len(fs) = Len(es) - 1
               /\ \A n \in DOMAIN fs : fs[n] = IF n < k THEN es[n] ELSE es[n + 1]
<1> DEFINE es == ledgers[i].comments
           left == SubSeq(es, 1, k - 1)
           right == SubSeq(es, k + 1, Len(es))
           g == [ledgers[i] EXCEPT !.comments = left \o right]
<1>1. i \in 1 .. Len(ledgers) /\ LedgerTypeOK
  BY DEF World, LedgerTypeOK
<1>2. es \in Seq(Event) /\ ledgers[i] \in Ledger
  BY <1>1, LedgerType
<1>3. k \in 1 .. Len(es) /\ Len(es) \in Nat
  BY <1>2 DEF LoseComment
<1>4. ledgers' = [ledgers EXCEPT ![i] = g]
  BY DEF LoseComment, RemoveAt
<1> HIDE DEF es
<1>5. left \in Seq(Event) /\ Len(left) = k - 1 /\ \A n \in 1 .. k - 1 : left[n] = es[n]
  <2>1. 1 \in Int /\ k - 1 \in Int /\ \A n \in 1 .. k - 1 : es[n] \in Event
    BY <1>2, <1>3
  <2>2. /\ left \in Seq(Event) /\ Len(left) = IF 1 <= k - 1 THEN k - 1 - 1 + 1 ELSE 0
        /\ \A n \in 1 .. k - 1 - 1 + 1 : left[n] = es[1 + n - 1]
    BY <2>1, SubSeqProperties
  <2>3. \A n \in 1 .. k - 1 : n \in 1 .. k - 1 - 1 + 1 /\ 1 + n - 1 = n
    BY <1>3
  <2> HIDE DEF left
  <2>4. QED
    BY <1>3, <2>2, <2>3
<1>6. /\ right \in Seq(Event) /\ Len(right) = Len(es) - k
      /\ \A n \in 1 .. Len(es) - k : right[n] = es[k + n]
  <2>1. k + 1 \in Int /\ Len(es) \in Int /\ \A n \in k + 1 .. Len(es) : es[n] \in Event
    BY <1>2, <1>3
  <2>2. /\ right \in Seq(Event)
        /\ Len(right) = IF k + 1 <= Len(es) THEN Len(es) - (k + 1) + 1 ELSE 0
        /\ \A n \in 1 .. Len(es) - (k + 1) + 1 : right[n] = es[k + 1 + n - 1]
    BY <2>1, SubSeqProperties
  <2>3. \A n \in 1 .. Len(es) - k : n \in 1 .. Len(es) - (k + 1) + 1 /\ k + 1 + n - 1 = k + n
    BY <1>3
  <2> HIDE DEF right
  <2>4. QED
    BY <1>3, <2>2, <2>3
<1> HIDE DEF left, right
<1>7. g.comments = left \o right
  BY <1>2 DEF Ledger
<1> HIDE DEF g
<1>8. DOMAIN ledgers' = DOMAIN ledgers /\ ledgers'[i].comments = left \o right
      /\ \A n \in DOMAIN ledgers : n # i => ledgers'[n] = ledgers[n]
  BY <1>4, <1>7
<1>9. /\ left \o right \in Seq(Event) /\ Len(left \o right) = Len(es) - 1
      /\ \A n \in 1 .. Len(es) - 1 :
             (left \o right)[n] = IF n < k THEN left[n] ELSE right[n - (k - 1)]
  <2>1. /\ left \o right \in Seq(Event) /\ Len(left \o right) = Len(left) + Len(right)
        /\ \A n \in 1 .. Len(left) + Len(right) :
               (left \o right)[n] = IF n <= Len(left) THEN left[n] ELSE right[n - Len(left)]
    BY <1>5, <1>6, ConcatProperties
  <2>2. QED
    BY <1>3, <1>5, <1>6, <2>1
<1>10. \A n \in 1 .. Len(es) - 1 : (left \o right)[n] = IF n < k THEN es[n] ELSE es[n + 1]
  <2> SUFFICES ASSUME NEW n \in 1 .. Len(es) - 1
               PROVE  (left \o right)[n] = IF n < k THEN es[n] ELSE es[n + 1]
    OBVIOUS
  <2>1. CASE n < k
    BY <1>3, <1>5, <1>9, <2>1
  <2>2. CASE ~(n < k)
    <3>1. n - (k - 1) \in 1 .. Len(es) - k /\ k + (n - (k - 1)) = n + 1
      BY <1>3, <2>2
    <3>2. QED
      BY <1>6, <1>9, <2>2, <3>1
  <2>3. QED
    BY <2>1, <2>2
<1>11. DOMAIN (left \o right) = 1 .. Len(es) - 1
  BY <1>9
<1>12. QED
  BY <1>2, <1>3, <1>8, <1>9, <1>10, <1>11 DEF es

LEMMA LoseHolds ==
    ASSUME World, Sites, ForwardInv, Lose
    PROVE  ForwardInv'
<1>1. UNCHANGED <<call, disk, root>>
  BY DEF Lose, LoseComment
<1>2. PICK i \in DOMAIN ledgers : \E k \in DOMAIN ledgers[i].comments : LoseComment(i, k)
  BY DEF Lose
<1>3. PICK k \in DOMAIN ledgers[i].comments : LoseComment(i, k)
  BY <1>2
<1> DEFINE es == ledgers[i].comments
           fs == ledgers'[i].comments
<1>4. /\ DOMAIN ledgers' = DOMAIN ledgers
      /\ \A n \in DOMAIN ledgers : n # i => ledgers'[n] = ledgers[n]
      /\ es \in Seq(Event) /\ k \in 1 .. Len(es) /\ Len(es) \in Nat
      /\ DOMAIN fs = 1 .. Len(es) - 1 /\ Len(fs) = Len(es) - 1
      /\ \A n \in DOMAIN fs : fs[n] = IF n < k THEN es[n] ELSE es[n + 1]
  BY <1>3, LossFacts
<1>5. i = root /\ root # 0
  <2>1. es # <<>> /\ i # 0
    BY <1>4 DEF World, LedgerTypeOK
  <2>2. QED
    BY <2>1 DEF ForwardInv, OnlyRoot
<1>6. Events = es /\ Events' = fs
  BY <1>1, <1>5 DEF Events, CommentsOf
<1> HIDE DEF es, fs
<1>7. OnlyRoot' /\ OneJob'
  BY <1>1, <1>4, <1>5 DEF ForwardInv, OnlyRoot, OneJob
<1>8. CallsFit' /\ \A q \in Site : HeldBy(q)' = HeldBy(q)
  BY <1>1, SameCalls DEF ForwardInv
<1>9. \A n \in DOMAIN fs : \E m \in DOMAIN es : fs[n] = es[m]
  <2> SUFFICES ASSUME NEW n \in DOMAIN fs PROVE \E m \in DOMAIN es : fs[n] = es[m]
    OBVIOUS
  <2>1. n \in DOMAIN es /\ n + 1 \in DOMAIN es
    BY <1>4
  <2>2. QED
    BY <1>4, <2>1
<1>10. Written' \subseteq Written
  BY <1>6, <1>9 DEF Written
<1>11. InOrder(fs)
  <2> SUFFICES ASSUME NEW l \in DOMAIN fs, NEW m \in 1 .. l - 1
               PROVE  Continues(fs[l].state, fs[m].state)
    BY DEF InOrder
  <2>1. InOrder(es)
    BY <1>6 DEF ForwardInv, Forward
  <2>2. \E a \in DOMAIN es : \E b \in 1 .. a - 1 : fs[l] = es[a] /\ fs[m] = es[b]
    <3>0. m \in DOMAIN fs /\ l \in Nat /\ m \in Nat /\ m < l /\ l <= Len(es) - 1 /\ k \in Nat
      BY <1>4
    <3>1. CASE l < k
      BY <1>4, <3>0, <3>1
    <3>2. CASE ~(l < k) /\ m < k
      <4>1. fs[l] = es[l + 1] /\ fs[m] = es[m] /\ l + 1 \in DOMAIN es /\ m \in 1 .. (l + 1) - 1
        BY <1>4, <3>0, <3>2
      <4>2. QED
        BY <4>1
    <3>3. CASE ~(l < k) /\ ~(m < k)
      <4>1. /\ fs[l] = es[l + 1] /\ fs[m] = es[m + 1] /\ l + 1 \in DOMAIN es
            /\ m + 1 \in 1 .. (l + 1) - 1
        BY <1>4, <3>0, <3>3
      <4>2. QED
        BY <4>1
    <3>4. QED
      BY <3>1, <3>2, <3>3
  <2>3. QED
    BY <2>1, <2>2 DEF InOrder
<1>12. Forward' /\ HostsOwn'
  BY <1>6, <1>8, <1>10, <1>11, HostedAssumption DEF ForwardInv, Forward, HostsOwn, InOrder, Continues
<1>13. QED
  BY <1>7, <1>8, <1>12 DEF ForwardInv

LEMMA NothingMoves ==
    ASSUME ForwardInv, UNCHANGED <<root, ledgers, call, disk>>
    PROVE  ForwardInv'
<1>1. Events' = Events /\ Written' = Written
  BY DEF Events, CommentsOf, Written
<1>2. CallsFit' /\ \A q \in Site : HeldBy(q)' = HeldBy(q)
  BY SameCalls DEF ForwardInv
<1>3. OnlyRoot' /\ OneJob'
  BY DEF ForwardInv, OnlyRoot, OneJob
<1>4. Forward' /\ HostsOwn'
  BY <1>1, <1>2, HostedAssumption DEF ForwardInv, Forward, HostsOwn, InOrder, Continues
<1>5. QED
  BY <1>2, <1>3, <1>4 DEF ForwardInv

LEMMA ForwardStep ==
    ASSUME World, Sites, Rooted, Sites', ForwardInv, Serial, Next
    PROVE  ForwardInv'
<1>1. ASSUME NEW p \in Site, StartJob(p) PROVE ForwardInv'
  <2> DEFINE c == [stage |-> "restore"]
  <2>1. UNCHANGED <<root, ledgers, disk>> /\ Goto(p, c) /\ c.stage = "restore"
        /\ \A q \in Job : call[q] = Off
    BY <1>1 DEF StartJob, Aside, ledgerVars
  <2> HIDE DEF c
  <2>2. QED
    BY <2>1, QuietHolds
<1>2. ASSUME NEW p \in Site, StartCycle(p) PROVE ForwardInv'
  <2> DEFINE c == [stage |-> "cycle"]
  <2>1. UNCHANGED <<root, ledgers, disk>> /\ Goto(p, c) /\ c.stage = "cycle" /\ p \in Host
    BY <1>2 DEF StartCycle, Aside, ledgerVars
  <2> HIDE DEF c
  <2>2. QED
    BY <2>1, QuietHolds
<1>3. ASSUME NEW p \in Site, Snapshot(p) PROVE ForwardInv'
  <2> DEFINE c == [stage |-> "snapshot", main |-> main, open |-> {i \in Work : work[i] = "open"}]
  <2>1. UNCHANGED <<root, ledgers, disk>> /\ Goto(p, c) /\ c.stage = "snapshot" /\ call[p] # Off
    BY <1>3, NotOff DEF Snapshot, Aside, ledgerVars, At
  <2> HIDE DEF c
  <2>2. QED
    BY <2>1, QuietHolds
<1>4. ASSUME NEW p \in Site, FailStep(p) PROVE ForwardInv'
  <2>1. UNCHANGED <<root, ledgers, disk>> /\ Goto(p, AfterCycle(p)) /\ call[p] # Off
    BY <1>4, NotOff DEF FailStep, ledgerVars
  <2>2. QED
    BY <2>1, AfterCycleOf, QuietHolds
<1>5. ASSUME NEW p \in Site, Die(p) PROVE ForwardInv'
  <2>1. UNCHANGED <<root, ledgers>> /\ Goto(p, Off) /\ Leave(p) /\ call[p] # Off /\ Off.stage = "off"
    BY <1>5 DEF Die, ledgerVars, Off
  <2>2. QED
    BY <2>1, QuietHolds
<1>6. ASSUME NEW p \in Site, PersistStep(p) PROVE ForwardInv'
  BY <1>6, EnsureIssueHolds, CreateLedgerHolds, ElectHolds, CloseCandidateHolds, ReadLedgerHolds,
     AddCommentHolds, AddTagHolds DEF PersistStep, AppendStep
<1>7. ASSUME \/ \E j \in RunsAtWork : AcquireLease(j)
             \/ \E i \in Work : SetIssue(i)
             \/ MoveMain \/ LeaseGoesOn
      PROVE  ForwardInv'
  BY <1>7, NothingMoves DEF AcquireLease, SetIssue, MoveMain, LeaseGoesOn, Elsewhere, ledgerVars
<1>8. QED
  BY <1>1, <1>2, <1>3, <1>4, <1>5, <1>6, <1>7, LoseHolds, RestoreReadHolds, RestoreWriteHolds,
     ConsumeResultHolds, BootstrapHolds, DecideHolds, TickHolds, PersistHolds, PersistByHandHolds
     DEF Next, SiteStep

LEMMA ForwardInit ==
    ASSUME Init
    PROVE  ForwardInv
<1>1. \A p \in Site : call[p] = Off /\ call[p].stage = "off" /\ disk[p] = NoRuns
  BY DEF Init, Off
<1>2. Events = <<>> /\ Written = {} /\ ledgers = <<>>
  BY DEF Init, LedgerInit, Events, CommentsOf, Written
<1>3. \A p \in Site : HeldBy(p) = {}
  BY <1>1 DEF HeldBy, At, NoRuns
<1>4. OnlyRoot /\ OneJob /\ CallsFit
  BY <1>1, <1>2, HostedAssumption DEF OnlyRoot, OneJob, CallsFit, CallFits, At, Carries
<1>5. QED
  BY <1>2, <1>3, <1>4, HostedAssumption DEF ForwardInv, Forward, HostsOwn, InOrder

\* The step of RunGoesForward.
GoesForward ==
    \A i \in DOMAIN ledgers' :
        LET old == IF i \in DOMAIN ledgers THEN ledgers[i].comments ELSE <<>>
            new == ledgers'[i].comments
        IN  Len(new) > Len(old) =>
                \A k \in DOMAIN old :
                    old[k].state.run = Last(new).state.run =>
                        \/ /\ old[k].state.rev < Last(new).state.rev
                           /\ old[k].state.status \in ActiveRuns
                        \/ old[k].state = Last(new).state

\* Only a comment makes a ledger longer.
LEMMA StepGoesForward ==
    ASSUME World, Sites, Rooted, ForwardInv, Next
    PROVE  GoesForward
<1>1. DOMAIN ledgers = 1 .. Len(ledgers) /\ Len(ledgers) \in Nat /\ ledgers \in Seq(Ledger)
  BY DEF World, LedgerTypeOK
<1>l. \A i \in DOMAIN ledgers : Len(ledgers[i].comments) \in Nat
  BY <1>1, LedgerType DEF World
<1>2. ASSUME DOMAIN ledgers' = DOMAIN ledgers,
             \A i \in DOMAIN ledgers : Len(ledgers'[i].comments) <= Len(ledgers[i].comments)
      PROVE  GoesForward
  <2>1. ASSUME NEW i \in DOMAIN ledgers, Len(ledgers'[i].comments) \in Nat
        PROVE ~(Len(ledgers'[i].comments) > Len(ledgers[i].comments))
    BY <1>2, <1>l, <2>1
  <2>2. QED
    BY <1>2, <2>1 DEF GoesForward
<1>3. ASSUME UNCHANGED ledgers PROVE GoesForward
  BY <1>3, <1>l DEF GoesForward
<1>4. ASSUME NEW p \in Site, CreateLedger(p) PROVE GoesForward
  <2> DEFINE g == [open |-> TRUE, comments |-> <<>>]
  <2>1. /\ \A i \in DOMAIN ledgers : ledgers'[i] = ledgers[i]
        /\ \A i \in DOMAIN ledgers' : i \in DOMAIN ledgers \/ ledgers'[i] = g
    BY <1>1, <1>4 DEF CreateLedger
  <2>2. Len(g.comments) = 0
    OBVIOUS
  <2> HIDE DEF g
  <2>3. QED
    BY <1>l, <2>1, <2>2 DEF GoesForward
<1>5. ASSUME NEW p \in Site, CloseCandidate(p) PROVE GoesForward
  <2> DEFINE i == call[p].candidate
             g == [ledgers[i] EXCEPT !.open = FALSE]
  <2>1. ledgers' = [ledgers EXCEPT ![i] = g] /\ i \in DOMAIN ledgers
    BY <1>1, <1>5, CallType DEF CloseCandidate, At
  <2>2. g.comments = ledgers[i].comments
    BY <1>1, <2>1, LedgerType DEF World, Ledger
  <2> HIDE DEF g, i
  <2>3. DOMAIN ledgers' = DOMAIN ledgers /\ \A n \in DOMAIN ledgers : ledgers'[n].comments = ledgers[n].comments
    BY <2>1, <2>2
  <2>4. QED
    BY <1>l, <1>2, <2>3
<1>6. ASSUME NEW p \in Site, PersistStep(p), AddComment(p) PROVE GoesForward
  <2> DEFINE event == call[p].event
  <2>1. /\ root \in DOMAIN ledgers /\ DOMAIN ledgers' = DOMAIN ledgers
        /\ \A i \in DOMAIN ledgers : i # root => ledgers'[i] = ledgers[i]
        /\ ledgers'[root].comments = Append(Events, event)
        /\ Events = ledgers[root].comments
        /\ event \in Event /\ event.state \in HeldBy(p)
    BY <1>6, AddCommentFacts
  <2> HIDE DEF event
  <2>2. Events \in Seq(Event)
    BY EventsType
  <2>3. Last(Append(Events, event)) = event
    BY <2>1, <2>2 DEF Last
  <2>4. \A k \in DOMAIN Events : Continues(event.state, Events[k].state)
    BY <2>1 DEF ForwardInv, Forward, Written
  <2>5. ASSUME NEW i \in DOMAIN ledgers, i # root
        PROVE  ~(Len(ledgers'[i].comments) > Len(ledgers[i].comments))
    BY <1>l, <2>1, <2>5
  <2>6. ASSUME NEW k \in DOMAIN Events,
               Events[k].state.run = Last(ledgers'[root].comments).state.run
        PROVE  \/ /\ Events[k].state.rev < Last(ledgers'[root].comments).state.rev
                  /\ Events[k].state.status \in ActiveRuns
               \/ Events[k].state = Last(ledgers'[root].comments).state
    BY <2>1, <2>3, <2>4, <2>6 DEF Continues
  <2>7. QED
    BY <2>1, <2>5, <2>6 DEF GoesForward
<1>7. ASSUME Lose PROVE GoesForward
  <2>1. PICK i \in DOMAIN ledgers : \E k \in DOMAIN ledgers[i].comments : LoseComment(i, k)
    BY <1>7 DEF Lose
  <2>2. PICK k \in DOMAIN ledgers[i].comments : LoseComment(i, k)
    BY <2>1
  <2>3. /\ DOMAIN ledgers' = DOMAIN ledgers
        /\ \A n \in DOMAIN ledgers : n # i => ledgers'[n] = ledgers[n]
        /\ Len(ledgers'[i].comments) = Len(ledgers[i].comments) - 1
    BY <2>2, LossFacts
  <2>4. QED
    BY <1>l, <1>2, <2>3
<1>8. ASSUME NEW p \in Site, PersistStep(p) PROVE GoesForward
  BY <1>3, <1>4, <1>5, <1>6, <1>8 DEF PersistStep, AppendStep, EnsureIssue, Elect, ReadLedger,
     AddTag, ledgerVars
<1>9. ASSUME \/ \E j \in RunsAtWork : AcquireLease(j)
             \/ \E i \in Work : SetIssue(i)
             \/ MoveMain \/ LeaseGoesOn
      PROVE  GoesForward
  BY <1>3, <1>9 DEF AcquireLease, SetIssue, MoveMain, LeaseGoesOn, Elsewhere, ledgerVars
<1>10. QED
  BY <1>3, <1>7, <1>8, <1>9, CycleMoves DEF Next, SiteStep

\* In the ledger a run only goes forward and is not taken up again when it ended,
\* as long as the workflow runs one job after another: no site brings back an older
\* state of a run, whatever dies or is lost (github_runtime_sync.py, restore_latest).
THEOREM RunsGoForward ==
    ASSUME Serial
    PROVE  Spec => RunGoesForward
<1>1. Init => ForwardInv
  BY ForwardInit
<1>2. IndInv /\ IndInv' /\ ForwardInv /\ [Next]_vars => ForwardInv'
  <2>1. ASSUME UNCHANGED vars, ForwardInv PROVE ForwardInv'
    BY <2>1, NothingMoves DEF vars, ledgerVars
  <2>2. QED
    BY <2>1, ForwardStep DEF IndInv
<1>3. IndInv /\ ForwardInv /\ [Next]_vars => [GoesForward]_ledgers
  <2>1. UNCHANGED vars => UNCHANGED ledgers
    BY DEF vars, ledgerVars
  <2>2. QED
    BY <2>1, StepGoesForward DEF IndInv
<1>4. Spec => [][GoesForward]_ledgers
  BY <1>1, <1>2, <1>3, Invariance, PTL DEF Spec
<1>5. QED
  BY <1>4 DEF RunGoesForward, GoesForward
=============================================================================
