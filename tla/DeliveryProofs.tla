--------------------------- MODULE DeliveryProofs ---------------------------
(***************************************************************************)
(* Proofs about Delivery for any number of processes, pieces of work,      *)
(* comments, commits and leases: answers are true, projections come from   *)
(* sources, only checked heads are merged, and an issue is closed only     *)
(* after its lease was given back.                                         *)
(***************************************************************************)
EXTENDS Delivery, SequenceTheorems, WellFoundedInduction, TLAPS

Branches == [base : Nat, commits : History]
Pulls    == [state : {"open", "merged"}, base : Nat, head : History \cup {None}, merge : Nat]
Runs     == [phase : Phases, subject : History \cup {None}, delivery : Nat \cup {None}]
Comment  == [kind : Kinds_, work : Request, main : Nat, base : Nat, revision : Nat,
             lease : Nat, seen : Lease \cup {None}, head : History \cup {None}]

Writes   == {"materialize", "ingest"}
Releases == {"reconcile", "unchanged"}

Rank(phase) == CASE phase = "CLAIM" -> 1 [] phase = "EXECUTE" -> 2 [] phase = "OPEN_PR" -> 3
                 [] phase = "MERGE" -> 4 [] phase = "CLEANUP" -> 5 [] OTHER -> 6
\* Work that is over, or whose pull request was merged: it is claimed no more.
Delivered(w) == pull[w] # None /\ pull[w].merge # 0
Past(w) == run[w].phase = "END" \/ Delivered(w)

-----------------------------------------------------------------------------
(* The shape of a call: a record that has the fields its stage needs.       *)
Fields(c) ==
    /\ c = [x \in DOMAIN c |-> c[x]]
    /\ {"kind", "stage"} \subseteq DOMAIN c
    /\ c.kind = "comment" => "id" \in DOMAIN c
    /\ c.kind = "tick" => {"work", "phase", "base"} \subseteq DOMAIN c
    /\ c.stage \in {"acquire", "branch", "heartbeat", "cleanup", "close"} =>
         {"new", "lease"} \subseteq DOMAIN c
    /\ c.stage = "release" => "new" \in DOMAIN c

Stages(kind) == CASE kind = "claim" -> {"claim", "acquire", "branch", "confirm"}
                  [] kind \in Writes -> {"recheck", "update", "confirm"}
                  [] OTHER -> {"recheck", "read", "release", "confirm"}

PhaseOf(stage) == CASE stage \in {"claim", "acquire", "branch"} -> {"CLAIM"}
                    [] stage = "heartbeat" -> {"OPEN_PR", "MERGE"}
                    [] stage = "execute" -> {"OPEN_PR", "MERGE", "CLEANUP"}
                    [] stage = "merge" -> {"MERGE"}
                    [] stage \in {"cleanup", "close", "closing"} -> {"CLEANUP"}
                    [] stage = "result" -> {"OPEN_PR", "MERGE", "CLEANUP"}
                    [] OTHER -> {}

CallTyped(c) ==
    /\ Fields(c)
    /\ \/ /\ c.kind = "comment" /\ c.id \in DOMAIN comments
          /\ c.stage \in Stages(comments[c.id].kind)
       \/ /\ c.kind = "tick" /\ c.work \in Supervised /\ c.base \in Nat
          /\ c.phase \in PhaseOf(c.stage)

SharedTyped ==
    /\ main \in Nat /\ clock \in Nat /\ reg \in Registry
    /\ branch \in [Request -> Branches \cup {None}]
    /\ pull \in [Request -> Pulls \cup {None}]
    /\ issue \in [Request -> {"open", "closed"}]
    /\ comments \in Seq(Comment)
    /\ run \in [Supervised -> Runs]
CallsTyped ==
    /\ call = [p \in Process |-> call[p]]
    /\ \A p \in Process : ~Idle(p) => CallTyped(call[p])
TypeInv == SharedTyped /\ CallsTyped

(* A registry that was computed still follows the one that is there only if  *)
(* it was computed from it.                                                  *)
Pending(new) == new.revision \in Nat /\ new.revision <= reg.revision + 1
Computed(c, w, base) ==
    /\ Pending(c.new)
    /\ Follows(c.new) =>
         CASE c.stage = "acquire" -> /\ Active(reg) = {} /\ c.lease = Len(reg.leases) + 1
                                     /\ \E now \in Nat : c.new = Acquired(reg, w, base, now)
           [] c.stage = "heartbeat" -> /\ c.lease \in Active(reg)
                                       /\ \E m, now \in Nat : c.new = Renewed(reg, c.lease, m, now)
           [] c.stage = "cleanup" -> /\ c.lease \in Own(w)
                                     /\ \E m \in Nat : c.new = Released(reg, c.lease, m)

ReleasedSeen(r) ==
    /\ r.lease \in DOMAIN reg.leases /\ reg.leases[r.lease].status = "RELEASED"
    /\ reg.leases[r.lease] = [r.seen EXCEPT !.status = "RELEASED"]

(* What a call knows of the provider at its stage.                           *)
TickKnows(c) ==
    LET w == c.work
    IN  /\ Rank(c.phase) <= Rank(run[w].phase)
        /\ c.stage \in {"claim", "acquire"} => c.base <= main /\ (Past(w) => c.base < main)
        /\ c.stage \in {"acquire", "heartbeat", "cleanup"} => Computed(c, w, c.base)
        /\ c.stage = "merge" => <<w, run[w].subject>> \in green
        /\ c.stage \in {"close", "closing"} => Own(w) = {}
        /\ c.stage = "result" /\ c.phase = "MERGE" => c.merge \in Nat /\ Past(w)

ClaimKnows(c, r) ==
    /\ c.stage = "acquire" => Computed(c, r.work, r.main)
    /\ c.stage \in {"branch", "confirm"} =>
         /\ c.lease \in DOMAIN reg.leases
         /\ reg.leases[c.lease].request = r.work /\ reg.leases[c.lease].base = r.main

WriteKnows(c, r) ==
    r.kind = "materialize" /\ c.stage \in {"recheck", "update"} => LineageTrusted(r.head)

ReleaseKnows(c, r) ==
    /\ c.stage \in {"release", "confirm"} => Pending(c.new)
    /\ c.stage = "release" /\ Follows(c.new) =>
         r.lease \in Active(reg) /\ \E m \in Nat : c.new = Released(reg, r.lease, m)
    /\ c.stage = "confirm" /\ c.new.revision = r.revision + 1 => ReleasedSeen(r)

CommentKnows(c) ==
    LET r == comments[c.id]
    IN  /\ r.kind = "claim" => ClaimKnows(c, r)
        /\ r.kind \in Writes => WriteKnows(c, r)
        /\ r.kind \in Releases => ReleaseKnows(c, r)

CallKnows(c) == IF c.kind = "tick" THEN TickKnows(c) ELSE CommentKnows(c)
CallsKnow == \A p \in Process : ~Idle(p) => CallKnows(call[p])

(* A request speaks of a registry and a head that once were there.           *)
RequestOK(r) ==
    /\ r.kind = "claim" => r.work \notin Supervised
    /\ r.kind # "claim" =>
         /\ r.head \in History /\ branch[r.work] # None /\ IsPrefix(r.head, HeadOf(r.work))
         /\ r.revision <= reg.revision
         /\ r.revision = reg.revision => r.lease \in DOMAIN reg.leases /\ reg.leases[r.lease] = r.seen
RequestsOK == \A n \in DOMAIN comments : RequestOK(comments[n])

SoleHolder == \A i, k \in Active(reg) : i = k

ClosedIsOver == \A w \in Supervised : issue[w] = "closed" => Past(w) /\ Own(w) = {}

(* A merge precedes its record in the journal, by the death of a tick for ever. *)
RunsOK == \A w \in Supervised : /\ Past(w) => Rank(run[w].phase) >= 4
                                /\ Rank(run[w].phase) >= 5 => Past(w)

(* What an answer says of its request.                                       *)
Done(n) ==
    LET r == comments[n]
    IN  /\ r.kind \in Writes => branch[r.work] # None /\ IsPrefix(Asked(r, n), HeadOf(r.work))
        /\ r.kind = "claim" =>
             \E i \in DOMAIN reg.leases : reg.leases[i].request = r.work /\ reg.leases[i].base = r.main
        /\ r.kind \in Releases => /\ <<r.lease, n>> \in reconciled /\ r.lease \in DOMAIN reg.leases
                                  /\ reg.leases[r.lease].status = "RELEASED"
AnswerOK(a) ==
    a[1] \in DOMAIN comments =>
        /\ Done(a[1])
        /\ a[2] = "PASS" /\ comments[a[1]].kind \in Releases => ReleasedSeen(comments[a[1]])
AnswersOK == \A a \in answers : a[1] \in DOMAIN comments /\ AnswerOK(a)

IndInv == /\ TypeInv /\ CallsKnow /\ RequestsOK /\ SoleHolder /\ RunsOK /\ ClosedIsOver /\ AnswersOK
          /\ MergedWasChecked /\ ProjectionsTrusted

-----------------------------------------------------------------------------
(* What every transition of the registry keeps of the leases it finds.      *)
Keeps(old, new) ==
    \A i \in DOMAIN old.leases :
        /\ i \in DOMAIN new.leases
        /\ new.leases[i].request = old.leases[i].request /\ new.leases[i].base = old.leases[i].base
        /\ old.leases[i].status = "RELEASED" => new.leases[i] = old.leases[i]

LEMMA AcquiredFacts ==
    ASSUME NEW old \in Registry, NEW q \in Request, NEW m \in Nat, NEW now \in Nat, Active(old) = {}
    PROVE  LET new == Acquired(old, q, m, now)  i == Len(old.leases) + 1
           IN  /\ new \in Registry /\ new.revision = old.revision + 1 /\ Keeps(old, new)
               /\ Active(new) = {i}
               /\ i \in DOMAIN new.leases /\ new.leases[i].request = q /\ new.leases[i].base = m
<1> DEFINE lease == [request |-> q, generation |-> old.revision + 1, base |-> m,
                     beat |-> now, expires |-> now + Ttl, status |-> "ACTIVE"]
           longer == Append(old.leases, lease)
           new == Acquired(old, q, m, now)
           i == Len(old.leases) + 1
<1>1. old.leases \in Seq(Lease) /\ old.revision \in Nat /\ Len(old.leases) \in Nat
  BY DEF Registry
<1>2. lease \in Lease /\ lease.request = q /\ lease.base = m /\ lease.status = "ACTIVE"
  BY <1>1, LeaseAssumption DEF Lease
<1>3. new = [revision |-> old.revision + 1, main |-> m, leases |-> longer]
  BY DEF Acquired, Revised
<1> HIDE DEF lease
<1>4. /\ longer \in Seq(Lease) /\ Len(longer) = i /\ DOMAIN longer = 1..i
      /\ DOMAIN old.leases = 1..Len(old.leases)
      /\ longer[i] = lease /\ \A k \in DOMAIN old.leases : longer[k] = old.leases[k]
  BY <1>1, <1>2
<1> HIDE DEF longer, new
<1>5. new \in Registry /\ new.revision = old.revision + 1 /\ Keeps(old, new)
  <2>1. new \in Registry /\ new.revision = old.revision + 1
    BY <1>1, <1>3, <1>4 DEF Registry
  <2>2. \A k \in DOMAIN old.leases : k \in DOMAIN longer
    BY <1>1, <1>4
  <2>3. QED
    BY <2>1, <2>2, <1>3, <1>4 DEF Keeps
<1>6. Active(new) = {i}
  <2>1. \A k \in DOMAIN old.leases : old.leases[k].status # "ACTIVE"
    BY DEF Active
  <2>2. \A k \in DOMAIN longer : longer[k].status = "ACTIVE" <=> k = i
    BY <2>1, <1>1, <1>2, <1>4
  <2>3. QED
    BY <2>2, <1>1, <1>3, <1>4 DEF Active
<1>7. QED
  BY <1>1, <1>2, <1>3, <1>4, <1>5, <1>6 DEF new

LEMMA UpdatedFacts ==
    ASSUME NEW old \in Registry, NEW i \in Active(old), NEW m \in Nat, NEW lease \in Lease,
           lease.request = old.leases[i].request, lease.base = old.leases[i].base
    PROVE  LET new == Revised(old, m, [old.leases EXCEPT ![i] = lease])
           IN  /\ new \in Registry /\ new.revision = old.revision + 1 /\ Keeps(old, new)
               /\ DOMAIN new.leases = DOMAIN old.leases /\ new.leases[i] = lease
               /\ \A k \in DOMAIN old.leases : k # i => new.leases[k] = old.leases[k]
<1> DEFINE updated == [old.leases EXCEPT ![i] = lease]
           new == Revised(old, m, updated)
<1>1. old.leases \in Seq(Lease) /\ old.revision \in Nat
  BY DEF Registry
<1>2. i \in DOMAIN old.leases /\ old.leases[i].status = "ACTIVE"
  BY DEF Active
<1>3. /\ updated \in Seq(Lease) /\ DOMAIN updated = DOMAIN old.leases
      /\ \A k \in DOMAIN old.leases : updated[k] = IF k = i THEN lease ELSE old.leases[k]
  BY <1>1, <1>2
<1> HIDE DEF updated
<1>4. new = [revision |-> old.revision + 1, main |-> m, leases |-> updated]
  BY DEF Revised
<1>5. new \in Registry /\ new.revision = old.revision + 1
  BY <1>1, <1>3, <1>4 DEF Registry
<1>6. Keeps(old, new)
  BY <1>2, <1>3, <1>4 DEF Keeps
<1>7. QED
  BY <1>2, <1>3, <1>4, <1>5, <1>6 DEF updated

LEMMA RenewedFacts ==
    ASSUME NEW old \in Registry, NEW i \in Active(old), NEW m \in Nat, NEW now \in Nat
    PROVE  LET new == Renewed(old, i, m, now)
           IN  /\ new \in Registry /\ new.revision = old.revision + 1 /\ Keeps(old, new)
               /\ Active(new) = Active(old)
<1> DEFINE lease == [old.leases[i] EXCEPT !.beat = now, !.expires = now + Ttl]
           new == Renewed(old, i, m, now)
<1>1. i \in DOMAIN old.leases /\ old.leases[i].status = "ACTIVE" /\ old.leases[i] \in Lease
  BY DEF Active, Registry
<1>2. /\ lease \in Lease /\ lease.request = old.leases[i].request
      /\ lease.base = old.leases[i].base /\ lease.status = "ACTIVE"
  <2>1. now + Ttl \in Nat
    BY LeaseAssumption
  <2>2. lease = [old.leases[i] EXCEPT !.beat = now, !.expires = now + Ttl]
    OBVIOUS
  <2>3. QED
    BY <1>1, <2>1 DEF Lease
<1>3. new = Revised(old, m, [old.leases EXCEPT ![i] = lease])
  BY DEF Renewed
<1> HIDE DEF lease, new
<1>4. /\ new \in Registry /\ new.revision = old.revision + 1 /\ Keeps(old, new)
      /\ DOMAIN new.leases = DOMAIN old.leases /\ new.leases[i] = lease
      /\ \A k \in DOMAIN old.leases : k # i => new.leases[k] = old.leases[k]
  BY <1>2, <1>3, UpdatedFacts
<1>5. Active(new) = Active(old)
  BY <1>1, <1>2, <1>4 DEF Active
<1>6. QED
  BY <1>4, <1>5 DEF new

LEMMA ReleasedFacts ==
    ASSUME NEW old \in Registry, NEW i \in Active(old), NEW m \in Nat
    PROVE  LET new == Released(old, i, m)
           IN  /\ new \in Registry /\ new.revision = old.revision + 1 /\ Keeps(old, new)
               /\ Active(new) = Active(old) \ {i} /\ i \in DOMAIN new.leases
               /\ new.leases[i] = [old.leases[i] EXCEPT !.status = "RELEASED"]
               /\ new.leases[i].status = "RELEASED"
<1> DEFINE lease == [old.leases[i] EXCEPT !.status = "RELEASED"]
           new == Released(old, i, m)
<1>1. i \in DOMAIN old.leases /\ old.leases[i].status = "ACTIVE" /\ old.leases[i] \in Lease
  BY DEF Active, Registry
<1>2. /\ lease \in Lease /\ lease.request = old.leases[i].request
      /\ lease.base = old.leases[i].base /\ lease.status = "RELEASED"
  BY <1>1 DEF Lease
<1>3. new = Revised(old, m, [old.leases EXCEPT ![i] = lease])
  BY DEF Released
<1> HIDE DEF lease, new
<1>4. /\ new \in Registry /\ new.revision = old.revision + 1 /\ Keeps(old, new)
      /\ DOMAIN new.leases = DOMAIN old.leases /\ new.leases[i] = lease
      /\ \A k \in DOMAIN old.leases : k # i => new.leases[k] = old.leases[k]
  BY <1>2, <1>3, UpdatedFacts
<1>5. Active(new) = Active(old) \ {i}
  BY <1>1, <1>2, <1>4 DEF Active
<1>6. QED
  BY <1>1, <1>2, <1>4, <1>5 DEF new, lease

-----------------------------------------------------------------------------
(* Histories only grow.                                                     *)
LEMMA PrefixOfSelf ==
    ASSUME NEW h \in History
    PROVE  IsPrefix(h, h)
BY DEF IsPrefix, History

LEMMA PrefixOfAppend ==
    ASSUME NEW g \in History, NEW h \in History, NEW c \in Commits, IsPrefix(g, h)
    PROVE  IsPrefix(g, Append(h, c)) /\ Append(h, c) \in History
<1>1. g \in Seq(Commits) /\ h \in Seq(Commits) /\ Len(g) \in Nat /\ Len(h) \in Nat /\ Len(g) <= Len(h)
  BY DEF IsPrefix, History
<1>2. \A i \in 1..Len(g) : g[i] = h[i]
  BY <1>1 DEF IsPrefix
<1>3. /\ Append(h, c) \in Seq(Commits) /\ Len(Append(h, c)) = Len(h) + 1
      /\ \A i \in 1..Len(g) : Append(h, c)[i] = h[i]
  BY <1>1
<1>4. SubSeq(g, 1, Len(g)) = SubSeq(Append(h, c), 1, Len(g))
  BY <1>1, <1>2, <1>3
<1>5. QED
  BY <1>1, <1>3, <1>4 DEF IsPrefix, History

LEMMA PrefixTransitive ==
    ASSUME NEW f \in History, NEW g \in History, NEW h \in History, IsPrefix(f, g), IsPrefix(g, h)
    PROVE  IsPrefix(f, h)
<1>1. /\ f \in Seq(Commits) /\ g \in Seq(Commits) /\ h \in Seq(Commits)
      /\ Len(f) \in Nat /\ Len(g) \in Nat /\ Len(h) \in Nat /\ Len(f) <= Len(g) /\ Len(g) <= Len(h)
  BY DEF IsPrefix, History
<1>2. (\A i \in 1..Len(f) : f[i] = g[i]) /\ \A i \in 1..Len(g) : g[i] = h[i]
  BY <1>1 DEF IsPrefix
<1>3. SubSeq(f, 1, Len(f)) = SubSeq(h, 1, Len(f))
  BY <1>1, <1>2
<1>4. QED
  BY <1>1, <1>3 DEF IsPrefix

(* A branch that is asked for one commit more than a request named either    *)
(* still has that head or has the commit already.                            *)
LEMMA NextCommit ==
    ASSUME NEW g \in History, NEW h \in History, NEW c \in Commits,
           IsPrefix(g, h), IsPrefix(h, Append(g, c))
    PROVE  h = g \/ h = Append(g, c)
<1>1. /\ g \in Seq(Commits) /\ h \in Seq(Commits) /\ Len(g) \in Nat /\ Len(h) \in Nat
      /\ Len(g) <= Len(h) /\ Append(g, c) \in Seq(Commits) /\ Len(Append(g, c)) = Len(g) + 1
      /\ Len(h) <= Len(g) + 1
  BY DEF IsPrefix, History
<1>2. \A i \in 1..Len(h) : h[i] = Append(g, c)[i]
  BY <1>1 DEF IsPrefix
<1>3. CASE Len(h) = Len(g) + 1
  BY <1>1, <1>2, <1>3
<1>4. CASE Len(h) = Len(g)
  <2>1. \A i \in 1..Len(h) : h[i] = g[i]
    BY <1>1, <1>2, <1>4
  <2>2. QED
    BY <1>1, <1>4, <2>1
<1>5. QED
  BY <1>1, <1>3, <1>4

-----------------------------------------------------------------------------
(* What every step does to the state that calls and requests speak of.       *)
RegGrows == /\ reg' \in Registry
            /\ reg' = reg \/ (reg'.revision = reg.revision + 1 /\ Keeps(reg, reg'))
RunMoves(w) ==
    /\ Rank(run[w].phase) <= Rank(run'[w].phase)
    /\ Rank(run[w].phase) >= 3 => run'[w].subject = run[w].subject
    /\ Past(w) => Past(w)'
    /\ ~Past(w) /\ Past(w)' => main < main' /\ Rank(run'[w].phase) >= 4
    /\ Rank(run'[w].phase) >= 5 => Past(w)'
RunGrows == \A w \in Supervised : RunMoves(w) /\ (Past(w) => Own(w)' \subseteq Own(w))
CommentsGrow == \A n \in DOMAIN comments : n \in DOMAIN comments' /\ comments'[n] = comments[n]
Grow == /\ main' \in Nat /\ main <= main' /\ RegGrows /\ RunGrows /\ CommentsGrow
        /\ green \subseteq green'

LEMMA ReleasedStaysSeen ==
    ASSUME TypeInv, Grow, NEW r, ReleasedSeen(r)
    PROVE  ReleasedSeen(r)'
BY DEF ReleasedSeen, Grow, RegGrows, Keeps

LEMMA PendingStays ==
    ASSUME TypeInv, Grow, NEW new, Pending(new)
    PROVE  /\ new.revision \in Nat /\ new.revision <= reg'.revision + 1
           /\ new.revision = reg'.revision + 1 => reg' = reg
<1>1. reg.revision \in Nat
  BY DEF TypeInv, SharedTyped, Registry
<1>2. QED
  BY <1>1 DEF Grow, RegGrows, Pending

LEMMA ComputedStays ==
    ASSUME TypeInv, Grow, NEW c, NEW w, NEW base, Computed(c, w, base)
    PROVE  Computed(c, w, base)'
<1>1. /\ Pending(c.new)'
      /\ Follows(c.new)' => reg' = reg
  BY PendingStays DEF Computed, Pending, Follows
<1>2. CASE Follows(c.new)'
  <2>1. reg' = reg /\ Follows(c.new)
    BY <1>1, <1>2 DEF Follows
  <2>2. QED
    BY <1>1, <2>1 DEF Computed, Follows, Own, Pending
<1>3. CASE ~Follows(c.new)'
  BY <1>1, <1>3 DEF Computed
<1>4. QED
  BY <1>2, <1>3

(* A call whose process does nothing keeps what it knows.                    *)
LEMMA TypedStays ==
    ASSUME Grow, NEW c, CallTyped(c)
    PROVE  CallTyped(c)'
BY DEF Grow, CommentsGrow, CallTyped, Fields

LEMMA TickStays ==
    ASSUME TypeInv, RunsOK, Grow, NEW c, CallTyped(c), c.kind = "tick", TickKnows(c)
    PROVE  TickKnows(c)'
<1> DEFINE w == c.work
<1>1. w \in Supervised /\ c.phase \in PhaseOf(c.stage) /\ c.base \in Nat
  BY DEF CallTyped
<1>2. /\ Rank(run[w].phase) <= Rank(run'[w].phase)
      /\ Rank(run[w].phase) >= 3 => run'[w].subject = run[w].subject
      /\ (Past(w) => Past(w)') /\ (~Past(w) /\ Past(w)' => main < main')
      /\ Past(w) => Own(w)' \subseteq Own(w)
      /\ main \in Nat /\ main' \in Nat /\ main <= main'
  BY <1>1 DEF Grow, RunGrows, RunMoves, TypeInv, SharedTyped
<1>3. Rank(run[w].phase) \in Nat /\ Rank(run'[w].phase) \in Nat /\ Rank(c.phase) \in Nat
  BY DEF Rank
<1>4. Rank(c.phase) <= Rank(run'[w].phase)
  BY <1>2, <1>3 DEF TickKnows
<1>5. c.stage \in {"claim", "acquire"} => c.base <= main' /\ (Past(w)' => c.base < main')
  BY <1>1, <1>2 DEF TickKnows
<1>6. c.stage \in {"acquire", "heartbeat", "cleanup"} => Computed(c, w, c.base)'
  BY ComputedStays DEF TickKnows
<1>7. c.stage = "merge" => <<w, run'[w].subject>> \in green'
  <2>1. c.stage = "merge" => Rank(c.phase) >= 3
    BY <1>1 DEF PhaseOf, Rank
  <2>2. QED
    BY <2>1, <1>2, <1>3 DEF TickKnows, Grow
<1>8. c.stage \in {"close", "closing"} => Own(w)' = {}
  <2> HAVE c.stage \in {"close", "closing"}
  <2>1. Rank(c.phase) >= 5
    BY <1>1 DEF PhaseOf, Rank
  <2>2. Rank(run[w].phase) >= 5
    BY <2>1, <1>3 DEF TickKnows
  <2>3. Past(w)
    BY <1>1, <2>2 DEF RunsOK
  <2>4. QED
    BY <2>3, <1>2 DEF TickKnows
<1>9. c.stage = "result" /\ c.phase = "MERGE" => c.merge \in Nat /\ Past(w)'
  BY <1>2 DEF TickKnows
<1>10. QED
  BY <1>4, <1>5, <1>6, <1>7, <1>8, <1>9 DEF TickKnows

LEMMA CommentStays ==
    ASSUME TypeInv, Grow, NEW c, CallTyped(c), c.kind = "comment", CommentKnows(c)
    PROVE  CommentKnows(c)'
<1> DEFINE r == comments[c.id]
<1>1. c.id \in DOMAIN comments /\ c.stage \in Stages(r.kind)
  BY DEF CallTyped
<1>2. comments'[c.id] = r
  BY <1>1 DEF Grow, CommentsGrow
<1>3. r.kind = "claim" => ClaimKnows(c, r)'
  <2> HAVE r.kind = "claim"
  <2>1. ClaimKnows(c, r)
    BY DEF CommentKnows
  <2>2. c.stage = "acquire" => Computed(c, r.work, r.main)'
    <3>1. PICK q, b : q = r.work /\ b = r.main
      OBVIOUS
    <3>2. c.stage = "acquire" => Computed(c, q, b)
      BY <2>1, <3>1 DEF ClaimKnows
    <3>3. c.stage = "acquire" => Computed(c, q, b)'
      BY <3>2, ComputedStays
    <3>4. QED
      BY <3>1, <3>3, <1>2 DEF Computed
  <2>3. QED
    BY <1>2, <2>1, <2>2 DEF ClaimKnows, Grow, RegGrows, Keeps, Computed
<1>4. r.kind \in Writes => WriteKnows(c, r)'
  BY <1>2 DEF CommentKnows, WriteKnows, Writes
<1>5. r.kind \in Releases => ReleaseKnows(c, r)'
  <2> HAVE r.kind \in Releases
  <2>1. ReleaseKnows(c, r)
    BY DEF CommentKnows
  <2>2. PICK s : s = r
    OBVIOUS
  <2>3. ReleaseKnows(c, s)
    BY <2>1, <2>2
  <2>4. ReleaseKnows(c, s)'
    <3>1. c.stage \in {"release", "confirm"} =>
             /\ Pending(c.new)'
             /\ Follows(c.new)' => reg' = reg
      BY <2>3, PendingStays DEF ReleaseKnows, Pending, Follows
    <3>2. c.stage = "confirm" /\ c.new.revision = s.revision + 1 => ReleasedSeen(s)'
      BY <2>3, ReleasedStaysSeen DEF ReleaseKnows
    <3>3. QED
      BY <2>3, <3>1, <3>2 DEF ReleaseKnows, Follows
  <2>5. QED
    BY <1>2, <2>2, <2>4 DEF ReleaseKnows, ReleasedSeen
<1>6. QED
  BY <1>2, <1>3, <1>4, <1>5 DEF CommentKnows

-----------------------------------------------------------------------------
(* The rest of the invariant under a step that only lets the state grow.    *)
BranchGrows == \A w \in Request :
    branch[w] # None => branch'[w] # None /\ IsPrefix(HeadOf(w), HeadOf(w)')

CallsStep ==
    /\ call' = [p \in Process |-> call'[p]]
    /\ \A p \in Process : \/ call'[p] = call[p]
                          \/ call'[p] = None
                          \/ CallTyped(call[p])' /\ CallKnows(call[p])'

LEMMA CallsStay ==
    ASSUME TypeInv, RunsOK, CallsKnow, Grow, CallsStep
    PROVE  CallsTyped' /\ CallsKnow'
<1>1. ASSUME NEW p \in Process, ~Idle(p)'
      PROVE  CallTyped(call[p])' /\ CallKnows(call[p])'
  <2>1. CASE call'[p] = call[p]
    <3>1. PICK c : c = call[p]
      OBVIOUS
    <3>2. CallTyped(c) /\ CallKnows(c)
      BY <1>1, <2>1, <3>1 DEF TypeInv, CallsTyped, CallsKnow, Idle
    <3>3. CallTyped(c)' /\ CallKnows(c)'
      <4>1. CASE c.kind = "tick"
        BY <3>2, <4>1, TypedStays, TickStays DEF CallKnows
      <4>2. CASE c.kind # "tick"
        <5>1. c.kind = "comment"
          BY <3>2, <4>2 DEF CallTyped
        <5>2. QED
          BY <3>2, <5>1, TypedStays, CommentStays DEF CallKnows
      <4>3. QED
        BY <4>1, <4>2
    <3>4. call'[p] = c
      BY <2>1, <3>1
    <3>5. QED
      BY <3>3, <3>4
  <2>2. QED
    BY <1>1, <2>1 DEF CallsStep, Idle
<1>2. QED
  BY <1>1 DEF CallsStep, CallsTyped, CallsKnow

LEMMA CommentFacts ==
    ASSUME SharedTyped, NEW n \in DOMAIN comments
    PROVE  /\ n \in Nat /\ comments[n] \in Comment
           /\ comments[n].work \in Request /\ comments[n].kind \in Kinds_
           /\ comments[n].revision \in Nat /\ comments[n].main \in Nat
<1>1. comments \in Seq(Comment)
  BY DEF SharedTyped
<1>2. n \in Nat /\ comments[n] \in Comment
  BY <1>1
<1>3. QED
  BY <1>2 DEF Comment

LEMMA RequestStays ==
    ASSUME TypeInv, Grow, BranchGrows, NEW n \in DOMAIN comments, RequestOK(comments[n]), SharedTyped'
    PROVE  RequestOK(comments[n])'
<1>0. PICK r : r = comments[n]
  OBVIOUS
<1>1. comments'[n] = r
  BY <1>0 DEF Grow, CommentsGrow
<1>2. r.work \in Request /\ r.revision \in Nat
  BY <1>0, CommentFacts DEF TypeInv
<1>3. r.kind = "claim" => r.work \notin Supervised
  BY <1>0 DEF RequestOK
<1>4. ASSUME r.kind # "claim"
      PROVE  /\ r.head \in History /\ branch'[r.work] # None /\ IsPrefix(r.head, HeadOf(r.work)')
             /\ r.revision <= reg'.revision
             /\ r.revision = reg'.revision => r.lease \in DOMAIN reg'.leases /\ reg'.leases[r.lease] = r.seen
  <2>1. /\ r.head \in History /\ branch[r.work] # None /\ IsPrefix(r.head, HeadOf(r.work))
        /\ r.revision <= reg.revision
        /\ r.revision = reg.revision => r.lease \in DOMAIN reg.leases /\ reg.leases[r.lease] = r.seen
    BY <1>0, <1>4 DEF RequestOK
  <2>2. branch'[r.work] # None /\ IsPrefix(HeadOf(r.work), HeadOf(r.work)')
    BY <1>2, <2>1 DEF BranchGrows
  <2>3. HeadOf(r.work) \in History /\ HeadOf(r.work)' \in History
    BY <1>2, <2>1, <2>2 DEF HeadOf, TypeInv, SharedTyped, Branches
  <2>4. IsPrefix(r.head, HeadOf(r.work)')
    BY <2>1, <2>2, <2>3, PrefixTransitive
  <2>5. reg.revision \in Nat /\ (reg' = reg \/ reg'.revision = reg.revision + 1)
    BY DEF TypeInv, SharedTyped, Registry, Grow, RegGrows
  <2>6. QED
    BY <1>2, <2>1, <2>2, <2>4, <2>5
<1>5. QED
  BY <1>1, <1>3, <1>4 DEF RequestOK, HeadOf

LEMMA AskedTyped ==
    ASSUME NEW r, r.head \in History, r.kind \in Writes, NEW n \in Nat
    PROVE  Asked(r, n) = Append(r.head, Commit(r.kind, n)) /\ Commit(r.kind, n) \in Commits
           /\ Asked(r, n) \in History
BY DEF Asked, Commit, Commits, History, Writes, Kinds

LEMMA AnswerStays ==
    ASSUME TypeInv, Grow, BranchGrows, reconciled \subseteq reconciled', SharedTyped',
           NEW a, a[1] \in DOMAIN comments, AnswerOK(a), RequestOK(comments[a[1]])
    PROVE  a[1] \in DOMAIN comments' /\ AnswerOK(a)'
<1>0. PICK n, r : n = a[1] /\ r = comments[n]
  OBVIOUS
<1>1. n \in DOMAIN comments' /\ comments'[n] = r
  BY <1>0 DEF Grow, CommentsGrow
<1>2. r.work \in Request /\ r.kind \in Kinds_ /\ n \in Nat /\ r \in Comment
  BY <1>0, CommentFacts DEF TypeInv
<1>3. r.kind \in Writes => branch'[r.work] # None /\ IsPrefix(Asked(r, n), HeadOf(r.work)')
  <2> HAVE r.kind \in Writes
  <2>0. r.head \in History
    BY <1>0 DEF RequestOK, Writes
  <2>1. branch[r.work] # None /\ IsPrefix(Asked(r, n), HeadOf(r.work))
    BY <1>0 DEF AnswerOK, Done
  <2>2. branch'[r.work] # None /\ IsPrefix(HeadOf(r.work), HeadOf(r.work)')
    BY <1>2, <2>1 DEF BranchGrows
  <2>3. HeadOf(r.work) \in History /\ HeadOf(r.work)' \in History
    BY <1>2, <2>1, <2>2 DEF HeadOf, TypeInv, SharedTyped, Branches
  <2>4. Asked(r, n) \in History
    BY <1>0, <1>2, AskedTyped, <2>0
  <2>5. QED
    BY <2>1, <2>2, <2>3, <2>4, PrefixTransitive
<1>4. r.kind = "claim" => \E i \in DOMAIN reg'.leases : /\ reg'.leases[i].request = r.work
                                                       /\ reg'.leases[i].base = r.main
  BY <1>0 DEF AnswerOK, Done, Grow, RegGrows, Keeps
<1>5. r.kind \in Releases => /\ <<r.lease, n>> \in reconciled' /\ r.lease \in DOMAIN reg'.leases
                             /\ reg'.leases[r.lease].status = "RELEASED"
  BY <1>0 DEF AnswerOK, Done, Grow, RegGrows, Keeps
<1>6. a[2] = "PASS" /\ r.kind \in Releases => ReleasedSeen(r)'
  <2>1. a[2] = "PASS" /\ r.kind \in Releases => ReleasedSeen(r)
    BY <1>0 DEF AnswerOK
  <2>2. QED
    BY <2>1, ReleasedStaysSeen
<1>7. QED
  BY <1>0, <1>1, <1>3, <1>4, <1>5, <1>6 DEF AnswerOK, Done, ReleasedSeen, HeadOf, Asked

LEMMA ClosedStays ==
    ASSUME Grow, ClosedIsOver, issue' = issue
    PROVE  ClosedIsOver'
<1> SUFFICES ASSUME NEW w \in Supervised, issue[w] = "closed"
             PROVE  Past(w)' /\ Own(w)' = {}
  BY DEF ClosedIsOver
<1>1. Past(w) /\ Own(w) = {}
  BY DEF ClosedIsOver
<1>2. Past(w)' /\ Own(w)' \subseteq Own(w)
  BY <1>1 DEF Grow, RunGrows, RunMoves
<1>3. QED
  BY <1>1, <1>2

LEMMA RankTyped == \A phase : Rank(phase) \in Nat
BY DEF Rank

LEMMA RunsStay ==
    ASSUME RunsOK, Grow
    PROVE  RunsOK'
<1> SUFFICES ASSUME NEW w \in Supervised
             PROVE  /\ Past(w)' => Rank(run'[w].phase) >= 4
                    /\ Rank(run'[w].phase) >= 5 => Past(w)'
  BY DEF RunsOK, Rank
<1>1. RunMoves(w) /\ (Past(w) => Rank(run[w].phase) >= 4)
  BY DEF RunsOK, Grow, RunGrows
<1>2. Rank(run[w].phase) \in Nat /\ Rank(run'[w].phase) \in Nat
  BY RankTyped
<1>3. QED
  BY <1>1, <1>2 DEF RunMoves

Globals == /\ Grow /\ BranchGrows /\ reconciled \subseteq reconciled' /\ SharedTyped' /\ CallsStep
           /\ SoleHolder' /\ ClosedIsOver' /\ MergedWasChecked' /\ ProjectionsTrusted'

LEMMA Assemble ==
    ASSUME IndInv, Globals,
           \A n \in DOMAIN comments' \ DOMAIN comments : RequestOK(comments[n])',
           \A a \in answers' \ answers : a[1] \in DOMAIN comments' /\ AnswerOK(a)'
    PROVE  IndInv'
<1> USE DEF Globals
<1>1. CallsTyped' /\ CallsKnow'
  BY CallsStay DEF IndInv
<1>2. RequestsOK'
  <2>1. \A n \in DOMAIN comments : RequestOK(comments[n])'
    BY RequestStays DEF IndInv, RequestsOK
  <2>2. QED
    BY <2>1 DEF RequestsOK
<1>3. AnswersOK'
  <2>1. \A a \in answers : a[1] \in DOMAIN comments' /\ AnswerOK(a)'
    BY AnswerStays DEF IndInv, AnswersOK, RequestsOK
  <2>2. QED
    BY <2>1 DEF AnswersOK
<1>4. QED
  BY <1>1, <1>2, <1>3, RunsStay DEF IndInv, TypeInv

-----------------------------------------------------------------------------
(* The calls a process goes on with.                                        *)
SameButStage(d, c) ==
    /\ d.kind = c.kind
    /\ c.kind = "comment" => d.id = c.id
    /\ c.kind = "tick" => d.work = c.work /\ d.phase = c.phase /\ d.base = c.base

LEMMA StepFacts ==
    ASSUME NEW c, Fields(c), NEW s, NEW d, d = [c EXCEPT !.stage = s],
           s \in {"acquire", "branch", "heartbeat", "cleanup", "close"} => {"new", "lease"} \subseteq DOMAIN c,
           s = "release" => "new" \in DOMAIN c
    PROVE  /\ Fields(d) /\ SameButStage(d, c) /\ d.stage = s
           /\ "new" \in DOMAIN c => d.new = c.new
           /\ "lease" \in DOMAIN c => d.lease = c.lease
BY DEF Fields, SameButStage

LEMMA CarryFacts ==
    ASSUME NEW c, Fields(c), NEW s, NEW f, NEW e, e = [c EXCEPT !.stage = s], NEW d, d = Overlay(f, e),
           DOMAIN f \subseteq {"new", "lease", "resumed"}, "new" \in DOMAIN f,
           "lease" \in DOMAIN f \/ s = "release"
    PROVE  /\ Fields(d) /\ SameButStage(d, c) /\ d.stage = s /\ d.new = f.new
           /\ "lease" \in DOMAIN f => d.lease = f.lease
<1>1. /\ DOMAIN d = DOMAIN f \cup DOMAIN c
      /\ d = [x \in DOMAIN d |-> d[x]]
      /\ \A x \in DOMAIN f : d[x] = f[x]
      /\ \A x \in DOMAIN c \ DOMAIN f : d[x] = IF x = "stage" THEN s ELSE c[x]
  BY DEF Overlay, Fields
<1>2. {"kind", "stage", "id", "work", "phase", "base"} \cap DOMAIN f = {}
  OBVIOUS
<1>3. d.stage = s /\ d.kind = c.kind /\ d.new = f.new
  BY <1>1, <1>2 DEF Fields
<1>4. SameButStage(d, c)
  BY <1>1, <1>2, <1>3 DEF SameButStage, Fields
<1>5. Fields(d)
  BY <1>1, <1>3 DEF Fields
<1>6. QED
  BY <1>1, <1>3, <1>4, <1>5

Proceeding(c, s) == [kind |-> "tick", work |-> c.work, phase |-> c.phase, base |-> c.base, stage |-> s]

LEMMA ProceedFacts ==
    ASSUME NEW c, c.kind = "tick", NEW s \in {"execute", "closing"}, NEW d, d = Proceeding(c, s)
    PROVE  Fields(d) /\ SameButStage(d, c) /\ d.stage = s
BY DEF Proceeding, Fields, SameButStage

LEMMA BeginFacts ==
    ASSUME NEW n \in DOMAIN comments, NEW s, s \in {"claim", "recheck"}, s \in Stages(comments[n].kind),
           NEW c, c = [kind |-> "comment", id |-> n, stage |-> s]
    PROVE  CallTyped(c) /\ c.kind = "comment" /\ c.id = n /\ c.stage = s
BY DEF CallTyped, Fields

LEMMA ActorStep ==
    ASSUME CallsTyped, NEW p \in Process, NEW c, call' = [call EXCEPT ![p] = c],
           c = None \/ (CallTyped(c)' /\ CallKnows(c)')
    PROVE  CallsStep
<1>1. call' = [q \in Process |-> call'[q]] /\ call'[p] = c
      /\ \A q \in Process : q # p => call'[q] = call[q]
  BY DEF CallsTyped
<1>2. CASE c = None
  BY <1>1, <1>2 DEF CallsStep
<1>3. CASE CallTyped(c)' /\ CallKnows(c)'
  <2>1. CallTyped(call[p])' /\ CallKnows(call[p])'
    BY <1>1, <1>3
  <2>2. QED
    BY <1>1, <2>1 DEF CallsStep
<1>4. QED
  BY <1>2, <1>3

(* Runs are left alone, and no pull request of theirs is merged.             *)
LEMMA SameRuns ==
    ASSUME RunsOK, run' = run, \A w \in Supervised : Delivered(w)' = Delivered(w)
    PROVE  \A w \in Supervised : RunMoves(w)
<1> SUFFICES ASSUME NEW w \in Supervised PROVE RunMoves(w)
  OBVIOUS
<1>1. Past(w)' = Past(w) /\ Rank(run[w].phase) \in Nat
  BY RankTyped DEF Past
<1>2. Rank(run[w].phase) >= 5 => Past(w)
  BY DEF RunsOK
<1>3. QED
  BY <1>1, <1>2 DEF RunMoves

LEMMA SamePulls ==
    ASSUME RunsOK, run' = run, pull' = pull
    PROVE  \A w \in Supervised : RunMoves(w)
BY SameRuns DEF Delivered

(* Steps that read the provider and change only calls and answers.          *)
LEMMA Quiet ==
    ASSUME IndInv, UNCHANGED <<provider, run>>, CallsStep,
           \A a \in answers' \ answers : a[1] \in DOMAIN comments /\ AnswerOK(a)
    PROVE  IndInv'
<1>1. /\ UNCHANGED <<main, clock, reg, reconciled, branch, pull, issue, green, comments, run>>
      /\ main \in Nat /\ main <= main
  BY DEF provider, IndInv, TypeInv, SharedTyped
<1>2. Grow
  <2>1. \A w \in Supervised : Own(w)' = Own(w) /\ RunMoves(w)
    BY <1>1, SamePulls DEF Own, IndInv
  <2>2. RegGrows /\ RunGrows
    BY <1>1, <2>1 DEF RegGrows, RunGrows, IndInv, TypeInv, SharedTyped
  <2>3. QED
    BY <1>1, <2>2 DEF Grow, CommentsGrow
<1>3. BranchGrows
  <2>1. \A w \in Request : branch[w] # None => HeadOf(w) \in History
    BY DEF HeadOf, IndInv, TypeInv, SharedTyped, Branches
  <2>2. QED
    BY <1>1, <2>1, PrefixOfSelf DEF BranchGrows, HeadOf
<1>4. SharedTyped' /\ SoleHolder'
  BY <1>1 DEF IndInv, TypeInv, SharedTyped, SoleHolder
<1>5. ClosedIsOver' /\ MergedWasChecked' /\ ProjectionsTrusted'
  BY <1>1 DEF IndInv, ClosedIsOver, Past, Delivered, Own, MergedWasChecked, PullIs, ProjectionsTrusted,
              HeadOf
<1>6. \A a \in answers' \ answers : a[1] \in DOMAIN comments' /\ AnswerOK(a)'
  BY <1>1 DEF AnswerOK, Done, ReleasedSeen, HeadOf
<1>7. QED
  BY <1>1, <1>2, <1>3, <1>4, <1>5, <1>6, Assemble DEF Globals

LEMMA QuietCall ==
    ASSUME IndInv, UNCHANGED <<provider, run>>, NEW p \in Process, NEW c, answers' = answers,
           call' = [call EXCEPT ![p] = c], c = None \/ (CallTyped(c) /\ CallKnows(c))
    PROVE  IndInv'
<1>1. UNCHANGED <<main, clock, reg, reconciled, branch, pull, issue, green, comments, run>>
  BY DEF provider
<1>2. ASSUME CallTyped(c), CallKnows(c)
      PROVE  CallTyped(c)' /\ CallKnows(c)'
  <2>1. CallTyped(c)'
    BY <1>1, <1>2 DEF CallTyped
  <2>2. TickKnows(c) <=> TickKnows(c)'
    BY <1>1 DEF TickKnows, Past, Delivered, Own, Computed, Pending, Follows
  <2>3. CommentKnows(c) <=> CommentKnows(c)'
    BY <1>1 DEF CommentKnows, ClaimKnows, WriteKnows, ReleaseKnows, Computed, Pending, Follows, Own,
                ReleasedSeen
  <2>4. QED
    BY <1>2, <2>1, <2>2, <2>3 DEF CallKnows
<1>3. CallsStep
  BY <1>2, ActorStep DEF IndInv, TypeInv
<1>4. QED
  BY <1>3, Quiet

LEMMA QuietDrop ==
    ASSUME IndInv, UNCHANGED <<provider, run>>, NEW p \in Process, answers' = answers, Drop(p)
    PROVE  IndInv'
BY QuietCall DEF Drop

LEMMA QuietAnswer ==
    ASSUME IndInv, UNCHANGED <<provider, run>>, NEW p \in Process, NEW n \in DOMAIN comments, NEW status,
           call' = call \/ Drop(p), answers' = answers \cup {<<n, status>>},
           Done(n), status = "PASS" /\ comments[n].kind \in Releases => ReleasedSeen(comments[n])
    PROVE  IndInv'
<1>1. CallsStep
  <2>1. CASE call' = call
    BY <2>1 DEF CallsStep, IndInv, TypeInv, CallsTyped
  <2>2. CASE Drop(p)
    BY <2>2, ActorStep DEF Drop, IndInv, TypeInv
  <2>3. QED
    BY <2>1, <2>2
<1>2. AnswerOK(<<n, status>>)
  BY DEF AnswerOK
<1>3. \A a \in answers' \ answers : a[1] \in DOMAIN comments /\ AnswerOK(a)
  BY <1>2
<1>4. QED
  BY <1>1, <1>3, Quiet

(* What the invariant says of a call that runs.                              *)
LEMMA CallFacts ==
    ASSUME IndInv, NEW p \in Process, call[p] # None
    PROVE  /\ CallTyped(call[p]) /\ Fields(call[p]) /\ CallKnows(call[p])
           /\ call[p].kind = "comment" => /\ call[p].id \in DOMAIN comments
                                          /\ call[p].stage \in Stages(comments[call[p].id].kind)
                                          /\ CommentKnows(call[p])
                                          /\ RequestOK(comments[call[p].id])
           /\ call[p].kind = "tick" => /\ call[p].work \in Supervised /\ call[p].base \in Nat
                                       /\ call[p].phase \in PhaseOf(call[p].stage)
                                       /\ TickKnows(call[p])
<1>1. CallTyped(call[p]) /\ CallKnows(call[p])
  BY DEF IndInv, TypeInv, CallsTyped, CallsKnow, Idle
<1>2. QED
  BY <1>1 DEF CallTyped, CallKnows, IndInv, RequestsOK

\* The stages say whose call it is.
LEMMA StageFacts ==
    ASSUME IndInv, NEW p \in Process, NEW s, At(p, s)
    PROVE  /\ s \in {"recheck", "update", "confirm", "read", "release"} => call[p].kind = "comment"
           /\ s \in {"heartbeat", "execute", "merge", "cleanup", "close", "closing", "result"} =>
                call[p].kind = "tick"
           /\ s \in {"read", "release"} => comments[call[p].id].kind \in Releases
           /\ s = "update" => comments[call[p].id].kind \in Writes
           /\ call[p].kind = "comment" /\ s \in {"claim", "acquire", "branch"} =>
                comments[call[p].id].kind = "claim"
<1>1. call[p] # None /\ call[p].stage = s
  BY DEF At
<1>2. call[p].kind \in {"comment", "tick"}
  BY <1>1, CallFacts DEF CallTyped
<1>3. call[p].kind = "tick" => s \notin {"recheck", "update", "confirm", "read", "release"}
  BY <1>1, CallFacts DEF PhaseOf
<1>4. call[p].kind = "comment" => s \in Stages(comments[call[p].id].kind)
                                  /\ comments[call[p].id].kind \in Kinds_
  BY <1>1, CallFacts, CommentFacts DEF IndInv, TypeInv
<1>5. QED
  BY <1>1, <1>2, <1>3, <1>4 DEF Stages, Writes, Releases, Kinds_

-----------------------------------------------------------------------------
(* The trusted operations.                                                  *)
LEMMA ExamineWriteStep ==
    ASSUME IndInv, NEW p \in Process, NEW n \in DOMAIN comments, ExamineWrite(p, n)
    PROVE  IndInv'
<1>0. PICK r : r = comments[n]
  OBVIOUS
<1>1. /\ r.kind \in Writes /\ UNCHANGED <<provider, run>>
      /\ r.work \in Request /\ n \in Nat /\ RequestOK(r)
  BY <1>0, CommentFacts DEF ExamineWrite, Writes, IndInv, TypeInv, RequestsOK
<1>2. CASE LiveWrite(r, TRUE) /\ Applied(r, n) /\ Replayed(n) /\ call' = call
  <2>1. Asked(r, n) \in History
    BY <1>1, AskedTyped DEF RequestOK, Writes
  <2>2. branch[r.work] # None /\ IsPrefix(Asked(r, n), HeadOf(r.work))
    BY <1>2, <2>1, PrefixOfSelf DEF LiveWrite, Applied
  <2>3. Done(n)
    BY <1>0, <1>1, <2>2 DEF Done, Writes, Releases
  <2>4. QED
    BY <1>1, <1>2, <2>3, QuietAnswer DEF Replayed
<1>3. CASE Acceptable(r) /\ Begin(p, n, "recheck") /\ answers' = answers
  <2>1. PICK c : c = [kind |-> "comment", id |-> n, stage |-> "recheck"]
    OBVIOUS
  <2>2. "recheck" \in Stages(r.kind)
    BY <1>1 DEF Stages, Writes
  <2>3. CallTyped(c) /\ c.kind = "comment" /\ c.id = n /\ c.stage = "recheck"
    BY <1>0, <2>1, <2>2, BeginFacts
  <2>4. CallKnows(c)
    BY <1>0, <1>1, <1>3, <2>3 DEF CallKnows, CommentKnows, WriteKnows, Acceptable, Writes, Releases
  <2>5. QED
    BY <1>1, <1>3, <2>1, <2>3, <2>4, QuietCall DEF Begin, Goto
<1>4. QED
  BY <1>0, <1>2, <1>3 DEF ExamineWrite

LEMMA RecheckWriteStep ==
    ASSUME IndInv, NEW p \in Process, RecheckWrite(p)
    PROVE  IndInv'
<1>1. /\ UNCHANGED <<provider, run>> /\ answers' = answers /\ At(p, "recheck")
      /\ Step(p, "update") \/ Drop(p)
  BY DEF RecheckWrite
<1>2. /\ call[p].kind = "comment" /\ call[p] # None /\ call[p].stage = "recheck"
      /\ comments[call[p].id].kind \in Writes
  BY <1>1, StageFacts DEF RecheckWrite, Asking, Writes, At
<1>3. CASE Step(p, "update")
  <2>1. PICK c : c = [call[p] EXCEPT !.stage = "update"]
    OBVIOUS
  <2>2. Fields(c) /\ c.kind = "comment" /\ c.id = call[p].id /\ c.stage = "update"
    BY <1>2, <2>1, StepFacts, CallFacts DEF SameButStage
  <2>3. CallTyped(c)
    BY <1>2, <2>2, CallFacts DEF CallTyped, Stages, Writes
  <2>4. CallKnows(c)
    BY <1>2, <2>2, CallFacts DEF CallKnows, CommentKnows, WriteKnows, Writes, Releases
  <2>5. call' = [call EXCEPT ![p] = c]
    BY <1>3, <2>1 DEF Step
  <2>6. QED
    BY <1>1, <2>3, <2>4, <2>5, QuietCall
<1>4. QED
  BY <1>1, <1>3, QuietDrop

LEMMA ConfirmWriteStep ==
    ASSUME IndInv, NEW p \in Process, ConfirmWrite(p)
    PROVE  IndInv'
<1>0. PICK n, r : n = call[p].id /\ r = comments[n]
  OBVIOUS
<1>1. /\ UNCHANGED <<provider, run>> /\ At(p, "confirm") /\ call[p] # None
      /\ call[p].kind = "comment" /\ n \in DOMAIN comments /\ r.kind \in Writes /\ RequestOK(r)
  BY <1>0, StageFacts, CallFacts DEF ConfirmWrite, Asking, Writes, At
<1>2. r.work \in Request /\ n \in Nat
  BY <1>0, <1>1, CommentFacts DEF IndInv, TypeInv
<1>3. CASE LiveWrite(r, TRUE) /\ Applied(r, n) /\ Answer(p, "PASS")
  <2>1. Asked(r, n) \in History
    BY <1>1, <1>2, AskedTyped DEF RequestOK, Writes
  <2>2. branch[r.work] # None /\ IsPrefix(Asked(r, n), HeadOf(r.work))
    BY <1>3, <2>1, PrefixOfSelf DEF LiveWrite, Applied
  <2>3. Done(n)
    BY <1>0, <1>1, <2>2 DEF Done, Writes, Releases
  <2>4. r.kind \notin Releases
    BY <1>1 DEF Writes, Releases
  <2>5. QED
    BY <1>0, <1>1, <1>3, <2>3, <2>4, QuietAnswer DEF Answer
<1>4. CASE Refuse(p)
  BY <1>1, <1>4, QuietDrop DEF Refuse
<1>5. QED
  BY <1>0, <1>3, <1>4 DEF ConfirmWrite, Asking

LEMMA ReplayDone ==
    ASSUME NEW n, NEW r, r = comments[n], r.kind \in Releases, ReleasedBy(r, n)
    PROVE  Done(n)
BY DEF ReleasedBy, Leased, Done, Writes, Releases

LEMMA ExamineReleaseStep ==
    ASSUME IndInv, NEW p \in Process, NEW n \in DOMAIN comments, ExamineRelease(p, n)
    PROVE  IndInv'
<1>0. PICK r : r = comments[n]
  OBVIOUS
<1>1. r.kind \in Releases /\ UNCHANGED <<provider, run>>
  BY <1>0 DEF ExamineRelease, Releases
<1>2. CASE ReleasedBy(r, n) /\ Replayed(n) /\ call' = call
  BY <1>0, <1>1, <1>2, ReplayDone, QuietAnswer DEF Replayed
<1>3. CASE Begin(p, n, "recheck") /\ answers' = answers
  <2>1. PICK c : c = [kind |-> "comment", id |-> n, stage |-> "recheck"]
    OBVIOUS
  <2>2. "recheck" \in Stages(r.kind)
    BY <1>1 DEF Stages, Releases, Writes
  <2>3. CallTyped(c) /\ c.kind = "comment" /\ c.id = n /\ c.stage = "recheck"
    BY <1>0, <2>1, <2>2, BeginFacts
  <2>4. CallKnows(c)
    BY <1>0, <1>1, <2>3 DEF CallKnows, CommentKnows, ReleaseKnows, Writes, Releases
  <2>5. QED
    BY <1>1, <1>3, <2>1, <2>3, <2>4, QuietCall DEF Begin, Goto
<1>4. QED
  BY <1>0, <1>2, <1>3 DEF ExamineRelease

LEMMA RecheckReleaseStep ==
    ASSUME IndInv, NEW p \in Process, RecheckRelease(p)
    PROVE  IndInv'
<1>1. /\ UNCHANGED <<provider, run>> /\ answers' = answers /\ At(p, "recheck")
      /\ Step(p, "read") \/ Drop(p)
  BY DEF RecheckRelease
<1>2. /\ call[p].kind = "comment" /\ call[p] # None /\ call[p].stage = "recheck"
      /\ comments[call[p].id].kind \in Releases
  BY <1>1, StageFacts DEF RecheckRelease, Asking, Releases, At
<1>3. CASE Step(p, "read")
  <2>1. PICK c : c = [call[p] EXCEPT !.stage = "read"]
    OBVIOUS
  <2>2. Fields(c) /\ c.kind = "comment" /\ c.id = call[p].id /\ c.stage = "read"
    BY <1>2, <2>1, StepFacts, CallFacts DEF SameButStage
  <2>3. CallTyped(c)
    BY <1>2, <2>2, CallFacts DEF CallTyped, Stages, Writes, Releases
  <2>4. CallKnows(c)
    BY <1>2, <2>2, CallFacts DEF CallKnows, CommentKnows, ReleaseKnows, Writes, Releases
  <2>5. call' = [call EXCEPT ![p] = c]
    BY <1>3, <2>1 DEF Step
  <2>6. QED
    BY <1>1, <2>3, <2>4, <2>5, QuietCall
<1>4. QED
  BY <1>1, <1>3, QuietDrop

\* After an error of the release: nothing, or the answer that it is done.
LEMMA ReleaseFailedStep ==
    ASSUME IndInv, NEW p \in Process, NEW r, r = Asking(p), call[p] # None, call[p].kind = "comment",
           r.kind \in Releases, ReleaseFailed(p, r), UNCHANGED <<provider, run>>
    PROVE  IndInv'
<1>1. call[p].id \in DOMAIN comments
  BY CallFacts
<1>2. CASE ReleasedBy(r, call[p].id) /\ Answer(p, "ALREADY_APPLIED")
  BY <1>1, <1>2, ReplayDone, QuietAnswer DEF Answer, Asking
<1>3. CASE Refuse(p)
  BY <1>3, QuietDrop DEF Refuse
<1>4. QED
  BY <1>2, <1>3 DEF ReleaseFailed

LEMMA ReadReleaseStep ==
    ASSUME IndInv, NEW p \in Process, ReadRelease(p)
    PROVE  IndInv'
<1>0. PICK r : r = Asking(p)
  OBVIOUS
<1>1. /\ UNCHANGED <<provider, run>> /\ At(p, "read") /\ call[p] # None
      /\ call[p].kind = "comment" /\ call[p].id \in DOMAIN comments /\ r.kind \in Releases
      /\ r.main \in Nat
  BY <1>0, StageFacts, CallFacts, CommentFacts DEF ReadRelease, Asking, At, IndInv, TypeInv
<1>2. CASE /\ OwnsActive(reg, r.lease, r.work) /\ answers' = answers
           /\ Carry(p, "release", [new |-> Released(reg, r.lease, r.main)])
  <2>1. PICK f, e, c : /\ f = [new |-> Released(reg, r.lease, r.main)]
                       /\ e = [call[p] EXCEPT !.stage = "release"] /\ c = Overlay(f, e)
    OBVIOUS
  <2>2. DOMAIN f = {"new"} /\ f.new = Released(reg, r.lease, r.main)
    BY <2>1
  <2>3. Fields(c) /\ c.kind = "comment" /\ c.id = call[p].id /\ c.stage = "release" /\ c.new = f.new
    BY <1>1, <2>1, <2>2, CarryFacts, CallFacts DEF SameButStage
  <2>4. CallTyped(c)
    BY <1>0, <1>1, <2>3 DEF CallTyped, Stages, Writes, Releases, Asking
  <2>5. r.lease \in Active(reg)
    BY <1>2 DEF OwnsActive, Active
  <2>6. reg \in Registry /\ reg.revision \in Nat
    BY DEF IndInv, TypeInv, SharedTyped, Registry
  <2>7. c.new.revision = reg.revision + 1
    BY <1>1, <2>2, <2>3, <2>5, <2>6 DEF Released, Revised
  <2>8. ReleaseKnows(c, r)
    BY <1>1, <2>2, <2>3, <2>5, <2>6, <2>7 DEF ReleaseKnows, Pending
  <2>9. CallKnows(c)
    BY <1>0, <1>1, <2>3, <2>8 DEF CallKnows, CommentKnows, Asking, Writes, Releases
  <2>10. call' = [call EXCEPT ![p] = c]
    BY <1>2, <2>1 DEF Carry, Goto
  <2>11. QED
    BY <1>1, <1>2, <2>4, <2>9, <2>10, QuietCall
<1>3. CASE ReleaseFailed(p, r)
  BY <1>0, <1>1, <1>3, ReleaseFailedStep
<1>4. QED
  BY <1>0, <1>2, <1>3 DEF ReadRelease

LEMMA ConfirmReleaseStep ==
    ASSUME IndInv, NEW p \in Process, ConfirmRelease(p)
    PROVE  IndInv'
<1>0. PICK n, r : n = call[p].id /\ r = comments[n]
  OBVIOUS
<1>1. /\ UNCHANGED <<provider, run>> /\ At(p, "confirm") /\ call[p] # None /\ call[p].stage = "confirm"
      /\ call[p].kind = "comment" /\ n \in DOMAIN comments /\ r.kind \in Releases
      /\ CommentKnows(call[p])
  BY <1>0, StageFacts, CallFacts DEF ConfirmRelease, Asking, Releases, At
<1>2. CASE ReleasedBy(r, n) /\ call[p].new.revision = r.revision + 1 /\ Answer(p, "PASS")
  <2>1. ReleasedSeen(r)
    BY <1>0, <1>1, <1>2 DEF CommentKnows, ReleaseKnows
  <2>2. QED
    BY <1>0, <1>1, <1>2, <2>1, ReplayDone, QuietAnswer DEF Answer
<1>3. CASE Refuse(p)
  BY <1>1, <1>3, QuietDrop DEF Refuse
<1>4. QED
  BY <1>0, <1>2, <1>3 DEF ConfirmRelease, Asking

-----------------------------------------------------------------------------
(* The executors and the claim gateway up to their writes.                  *)
LEMMA FailStep ==
    ASSUME IndInv, NEW p \in Process, Fail(p)
    PROVE  IndInv'
BY QuietDrop DEF Fail

LEMMA ExamineClaimStep ==
    ASSUME IndInv, NEW p \in Process, NEW n \in DOMAIN comments, ExamineClaim(p, n)
    PROVE  IndInv'
<1>1. PICK c : c = [kind |-> "comment", id |-> n, stage |-> "claim"]
  OBVIOUS
<1>2. /\ UNCHANGED <<provider, run>> /\ answers' = answers /\ comments[n].kind = "claim"
      /\ call' = [call EXCEPT ![p] = c]
  BY <1>1 DEF ExamineClaim, Goto
<1>3. "claim" \in Stages(comments[n].kind)
  BY <1>2 DEF Stages, Writes
<1>4. CallTyped(c) /\ c.kind = "comment" /\ c.id = n /\ c.stage = "claim"
  BY <1>1, <1>3, BeginFacts
<1>5. CallKnows(c)
  BY <1>2, <1>4 DEF CallKnows, CommentKnows, ClaimKnows, Writes, Releases
<1>6. QED
  BY <1>2, <1>4, <1>5, QuietCall

LEMMA ConfirmClaimStep ==
    ASSUME IndInv, NEW p \in Process, ConfirmClaim(p)
    PROVE  IndInv'
<1>0. PICK n, r : n = call[p].id /\ r = comments[n]
  OBVIOUS
<1>1. /\ UNCHANGED <<provider, run>> /\ At(p, "confirm") /\ call[p] # None /\ r.kind = "claim"
      /\ call[p].kind = "comment" /\ n \in DOMAIN comments /\ call[p].stage = "confirm"
  BY <1>0, StageFacts, CallFacts DEF ConfirmClaim, At
<1>2. Done(n)
  <2>1. ClaimKnows(call[p], r)
    BY <1>0, <1>1, CallFacts DEF CommentKnows
  <2>2. QED
    BY <1>0, <1>1, <2>1 DEF ClaimKnows, Done, Writes, Releases
<1>3. CASE \E status : Answer(p, status)
  <2>1. PICK status : Answer(p, status)
    BY <1>3
  <2>2. r.kind \notin Releases
    BY <1>1 DEF Releases
  <2>3. QED
    BY <1>0, <1>1, <1>2, <2>1, <2>2, QuietAnswer DEF Answer
<1>4. CASE Refuse(p)
  BY <1>1, <1>4, QuietDrop DEF Refuse
<1>5. QED
  BY <1>3, <1>4 DEF ConfirmClaim

LEMMA ReadClaimStep ==
    ASSUME IndInv, NEW p \in Process, NEW w, NEW base, ReadClaim(p, w, base),
           \/ call[p].kind = "comment" /\ w = comments[call[p].id].work /\ base = comments[call[p].id].main
           \/ call[p].kind = "tick" /\ w = call[p].work /\ base = call[p].base
    PROVE  IndInv'
<1>1. /\ UNCHANGED <<provider, run>> /\ answers' = answers /\ At(p, "claim") /\ call[p] # None
      /\ call[p].stage = "claim"
  BY DEF ReadClaim, At
<1>2. call[p].kind = "comment" => call[p].id \in DOMAIN comments /\ comments[call[p].id].kind = "claim"
  BY <1>1, StageFacts, CallFacts
<1>3. call[p].kind = "tick" => /\ call[p].work \in Supervised /\ call[p].base \in Nat
                               /\ call[p].phase = "CLAIM" /\ TickKnows(call[p])
  BY <1>1, CallFacts DEF PhaseOf
<1>4. reg.revision \in Nat /\ main \in Nat /\ clock \in Nat
  BY DEF IndInv, TypeInv, SharedTyped, Registry
<1>9. Fields(call[p])
  BY <1>1, CallFacts
<1>5. CASE Drop(p)
  BY <1>1, <1>5, QuietDrop
<1>6. CASE Resumable(w, base) /\ Carry(p, "branch", Claimed(reg, CHOOSE i \in Active(reg) : TRUE, TRUE))
  <2>1. PICK f, e, c : /\ f = Claimed(reg, CHOOSE i \in Active(reg) : TRUE, TRUE)
                       /\ e = [call[p] EXCEPT !.stage = "branch"] /\ c = Overlay(f, e)
    OBVIOUS
  <2>2. DOMAIN f = {"new", "lease", "resumed"} /\ f.lease = CHOOSE i \in Active(reg) : TRUE
    BY <2>1 DEF Claimed
  <2>3. Fields(c) /\ SameButStage(c, call[p]) /\ c.stage = "branch" /\ c.lease = f.lease
    <3>1. DOMAIN f \subseteq {"new", "lease", "resumed"} /\ "new" \in DOMAIN f /\ "lease" \in DOMAIN f
      BY <2>2
    <3>2. e = [call[p] EXCEPT !.stage = "branch"] /\ c = Overlay(f, e)
      BY <2>1
    <3>3. Fields(c) /\ SameButStage(c, call[p]) /\ c.stage = "branch"
      BY <1>9, <3>1, <3>2, CarryFacts
    <3>4. c.new = f.new /\ c.lease = f.lease
      BY <1>9, <3>1, <3>2, CarryFacts
    <3>5. QED
      BY <3>3, <3>4
  <2>4. CallTyped(c)
    BY <1>1, <1>2, <1>3, <2>3, CallFacts DEF CallTyped, Stages, PhaseOf, SameButStage
  <2>5. SoleActive(c.lease, w, base)
    <3>1. PICK i \in Active(reg) : SoleActive(i, w, base)
      BY <1>6 DEF Resumable
    <3>2. c.lease \in Active(reg)
      BY <2>2, <2>3, <3>1
    <3>3. QED
      BY <3>1, <3>2 DEF SoleActive
  <2>6. c.lease \in DOMAIN reg.leases /\ reg.leases[c.lease].request = w /\ reg.leases[c.lease].base = base
    BY <2>5 DEF SoleActive, Active
  <2>7. CallKnows(c)
    <3>1. CASE call[p].kind = "comment"
      BY <1>2, <2>3, <2>6, <3>1 DEF CallKnows, CommentKnows, ClaimKnows, SameButStage, Writes, Releases
    <3>2. CASE call[p].kind = "tick"
      BY <1>3, <2>3, <3>2 DEF CallKnows, TickKnows, SameButStage
    <3>3. QED
      BY <3>1, <3>2
  <2>8. call' = [call EXCEPT ![p] = c]
    BY <1>6, <2>1 DEF Carry, Goto
  <2>9. QED
    BY <1>1, <2>4, <2>7, <2>8, QuietCall
<1>7. CASE /\ main = base /\ Active(reg) = {}
           /\ Carry(p, "acquire", Claimed(Acquired(reg, w, main, clock), Len(reg.leases) + 1, FALSE))
  <2>1. PICK f, e, c : /\ f = Claimed(Acquired(reg, w, main, clock), Len(reg.leases) + 1, FALSE)
                       /\ e = [call[p] EXCEPT !.stage = "acquire"] /\ c = Overlay(f, e)
    OBVIOUS
  <2>2. /\ DOMAIN f = {"new", "lease", "resumed"} /\ f.lease = Len(reg.leases) + 1
        /\ f.new = Acquired(reg, w, main, clock)
    BY <2>1 DEF Claimed
  <2>3. /\ Fields(c) /\ SameButStage(c, call[p]) /\ c.stage = "acquire" /\ c.lease = f.lease
        /\ c.new = f.new
    <3>1. DOMAIN f \subseteq {"new", "lease", "resumed"} /\ "new" \in DOMAIN f /\ "lease" \in DOMAIN f
      BY <2>2
    <3>2. e = [call[p] EXCEPT !.stage = "acquire"] /\ c = Overlay(f, e)
      BY <2>1
    <3>3. Fields(c) /\ SameButStage(c, call[p]) /\ c.stage = "acquire"
      BY <1>9, <3>1, <3>2, CarryFacts
    <3>4. c.new = f.new /\ c.lease = f.lease
      BY <1>9, <3>1, <3>2, CarryFacts
    <3>5. QED
      BY <3>3, <3>4
  <2>4. CallTyped(c)
    BY <1>1, <1>2, <1>3, <2>3, CallFacts DEF CallTyped, Stages, PhaseOf, SameButStage
  <2>5. c.new.revision = reg.revision + 1
    BY <2>2, <2>3 DEF Acquired, Revised
  <2>6. Computed(c, w, base)
    BY <1>4, <1>7, <2>2, <2>3, <2>5 DEF Computed, Pending
  <2>7. CallKnows(c)
    <3>1. CASE call[p].kind = "comment"
      BY <1>2, <2>3, <2>6, <3>1 DEF CallKnows, CommentKnows, ClaimKnows, SameButStage, Writes, Releases
    <3>2. CASE call[p].kind = "tick"
      BY <1>1, <1>3, <2>3, <2>6, <3>2 DEF CallKnows, TickKnows, SameButStage
    <3>3. QED
      BY <3>1, <3>2
  <2>8. call' = [call EXCEPT ![p] = c]
    BY <1>7, <2>1 DEF Carry, Goto
  <2>9. QED
    BY <1>1, <2>4, <2>7, <2>8, QuietCall
<1>8. QED
  BY <1>5, <1>6, <1>7 DEF ReadClaim

LEMMA BegunFacts ==
    ASSUME SharedTyped, NEW w \in Supervised, NEW s, s \in {"claim", "execute"},
           run[w].phase \in PhaseOf(s), NEW c, c = Begun(w, s)
    PROVE  /\ CallTyped(c) /\ Fields(c) /\ c.kind = "tick" /\ c.work = w /\ c.base = main
           /\ c.phase = run[w].phase /\ c.stage = s
BY DEF Begun, CallTyped, Fields, SharedTyped

LEMMA BeginClaimStep ==
    ASSUME IndInv, NEW p \in Process, NEW w \in Supervised, BeginClaim(p, w)
    PROVE  IndInv'
<1>1. PICK c : c = Begun(w, "claim")
  OBVIOUS
<1>2. /\ UNCHANGED <<provider, run>> /\ answers' = answers /\ run[w].phase = "CLAIM"
      /\ call' = [call EXCEPT ![p] = c] /\ SharedTyped /\ main \in Nat
  BY <1>1 DEF BeginClaim, Goto, IndInv, TypeInv, SharedTyped
<1>3. run[w].phase \in PhaseOf("claim")
  BY <1>2 DEF PhaseOf
<1>4. /\ CallTyped(c) /\ c.kind = "tick" /\ c.work = w /\ c.base = main
      /\ c.phase = run[w].phase /\ c.stage = "claim"
  BY <1>1, <1>2, <1>3, BegunFacts
<1>5. ~Past(w)
  BY <1>2 DEF RunsOK, IndInv, Rank
<1>6. CallKnows(c)
  BY <1>2, <1>4, <1>5, RankTyped DEF CallKnows, TickKnows
<1>7. QED
  BY <1>2, <1>4, <1>6, QuietCall

LEMMA AuthorityStep ==
    ASSUME IndInv, NEW p \in Process, NEW w \in Supervised, Authority(p, w)
    PROVE  IndInv'
<1>1. PICK i, c : i = (CHOOSE k \in Own(w) : TRUE) /\ c = Begun(w, "execute")
  OBVIOUS
<1>2. /\ UNCHANGED <<provider, run>> /\ answers' = answers
      /\ run[w].phase \in {"OPEN_PR", "MERGE", "CLEANUP"}
      /\ SharedTyped /\ main \in Nat /\ clock \in Nat
  BY DEF Authority, IndInv, TypeInv, SharedTyped
<1>3. run[w].phase \in PhaseOf("execute")
  BY <1>2 DEF PhaseOf
<1>4. /\ CallTyped(c) /\ Fields(c) /\ c.kind = "tick" /\ c.work = w /\ c.base = main
      /\ c.phase = run[w].phase /\ c.stage = "execute"
  BY <1>1, <1>2, <1>3, BegunFacts
<1>5. CASE call' = [call EXCEPT ![p] = c]
  <2>1. CallKnows(c)
    BY <1>4, RankTyped DEF CallKnows, TickKnows
  <2>2. QED
    BY <1>2, <1>4, <1>5, <2>1, QuietCall
<1>6. CASE /\ run[w].phase # "CLEANUP"
           /\ Goto(p, Overlay(With(Renewed(reg, i, main, clock), i), Begun(w, "heartbeat")))
  <2>1. PICK f, e, d : /\ f = With(Renewed(reg, i, main, clock), i)
                       /\ e = Begun(w, "heartbeat") /\ d = Overlay(f, e)
    OBVIOUS
  <2>2. /\ DOMAIN f \subseteq {"new", "lease", "resumed"} /\ "new" \in DOMAIN f /\ "lease" \in DOMAIN f
        /\ f.lease = i /\ f.new = Renewed(reg, i, main, clock)
    BY <2>1 DEF With
  <2>3. e = [c EXCEPT !.stage = "heartbeat"] /\ d = Overlay(f, e)
    BY <1>1, <2>1 DEF Begun
  <2>4. DOMAIN f \subseteq {"new", "lease", "resumed"} /\ "new" \in DOMAIN f /\ "lease" \in DOMAIN f
    BY <2>2
  <2>5. Fields(d) /\ SameButStage(d, c) /\ d.stage = "heartbeat"
    <3>1. Fields(c)
      BY <1>4
    <3>2. Fields(d)
      BY <3>1, <2>3, <2>4, CarryFacts
    <3>3. SameButStage(d, c) /\ d.stage = "heartbeat"
      BY <3>1, <2>3, <2>4, CarryFacts
    <3>4. QED
      BY <3>2, <3>3
  <2>6. d.new = f.new /\ d.lease = f.lease
    BY <1>4, <2>3, <2>4, CarryFacts
  <2>7. d.kind = "tick" /\ d.work = w /\ d.phase = run[w].phase /\ d.base = main
    BY <1>4, <2>5 DEF SameButStage
  <2>8. CallTyped(d)
    BY <1>2, <1>6, <2>5, <2>7 DEF CallTyped, PhaseOf
  <2>9. i \in Own(w)
    BY <1>1 DEF Authority, Authorized
  <2>10. d.new.revision = reg.revision + 1 /\ reg.revision \in Nat
    BY <1>2, <2>2, <2>6 DEF Renewed, Revised, SharedTyped, Registry
  <2>11. Computed(d, w, main)
    BY <1>2, <2>2, <2>5, <2>6, <2>9, <2>10 DEF Computed, Pending, Own
  <2>12. CallKnows(d)
    BY <2>5, <2>7, <2>11, RankTyped DEF CallKnows, TickKnows
  <2>13. call' = [call EXCEPT ![p] = d]
    BY <1>6, <2>1 DEF Goto
  <2>14. QED
    BY <1>2, <2>8, <2>12, <2>13, QuietCall
<1>7. QED
  BY <1>1, <1>5, <1>6 DEF Authority, Goto

LEMMA ReadMergeStep ==
    ASSUME IndInv, NEW p \in Process, ReadMerge(p)
    PROVE  IndInv'
<1>1. /\ UNCHANGED <<provider, run>> /\ answers' = answers /\ At(p, "execute") /\ call[p] # None
      /\ call[p].kind = "tick" /\ call[p].phase = "MERGE"
  BY StageFacts DEF ReadMerge, At
<1>2. CASE <<call[p].work, run[call[p].work].subject>> \in green /\ Step(p, "merge")
  <2>1. PICK c : c = [call[p] EXCEPT !.stage = "merge"]
    OBVIOUS
  <2>2. Fields(c) /\ SameButStage(c, call[p]) /\ c.stage = "merge"
    BY <1>1, <2>1, StepFacts, CallFacts
  <2>3. call[p].work \in Supervised /\ call[p].base \in Nat /\ TickKnows(call[p])
    BY <1>1, CallFacts
  <2>4. CallTyped(c) /\ CallKnows(c)
    BY <1>1, <1>2, <2>2, <2>3 DEF CallTyped, CallKnows, TickKnows, PhaseOf, SameButStage
  <2>5. call' = [call EXCEPT ![p] = c]
    BY <1>2, <2>1 DEF Step
  <2>6. QED
    BY <1>1, <2>4, <2>5, QuietCall
<1>3. CASE Drop(p)
  BY <1>1, <1>3, QuietDrop
<1>4. QED
  BY <1>2, <1>3 DEF ReadMerge

LEMMA ReadCleanupStep ==
    ASSUME IndInv, NEW p \in Process, ReadCleanup(p)
    PROVE  IndInv'
<1>0. PICK w, i : w = call[p].work /\ i = (CHOOSE k \in Own(w) : TRUE)
  OBVIOUS
<1>1. /\ UNCHANGED <<provider, run>> /\ answers' = answers /\ At(p, "execute") /\ call[p] # None
      /\ call[p].kind = "tick" /\ call[p].phase = "CLEANUP" /\ main \in Nat
  BY StageFacts DEF ReadCleanup, At, IndInv, TypeInv, SharedTyped
<1>2. CASE Own(w) # {} /\ Carry(p, "cleanup", With(Released(reg, i, main), i))
  <2>1. PICK f, e, d : /\ f = With(Released(reg, i, main), i)
                       /\ e = [call[p] EXCEPT !.stage = "cleanup"] /\ d = Overlay(f, e)
    OBVIOUS
  <2>2. /\ DOMAIN f \subseteq {"new", "lease", "resumed"} /\ "new" \in DOMAIN f /\ "lease" \in DOMAIN f
        /\ f.lease = i /\ f.new = Released(reg, i, main)
    BY <2>1 DEF With
  <2>3. e = [call[p] EXCEPT !.stage = "cleanup"] /\ d = Overlay(f, e) /\ Fields(call[p])
    BY <1>1, <2>1, CallFacts
  <2>4. DOMAIN f \subseteq {"new", "lease", "resumed"} /\ "new" \in DOMAIN f /\ "lease" \in DOMAIN f
    BY <2>2
  <2>5. Fields(d) /\ SameButStage(d, call[p]) /\ d.stage = "cleanup"
    BY <2>3, <2>4, CarryFacts
  <2>6. d.new = f.new /\ d.lease = f.lease
    BY <2>3, <2>4, CarryFacts
  <2>7. w \in Supervised /\ call[p].base \in Nat /\ TickKnows(call[p])
    BY <1>0, <1>1, CallFacts
  <2>8. /\ d.kind = "tick" /\ d.work = w /\ d.phase = "CLEANUP" /\ d.base = call[p].base
    BY <1>0, <1>1, <2>5 DEF SameButStage
  <2>9. CallTyped(d)
    BY <2>5, <2>7, <2>8 DEF CallTyped, PhaseOf
  <2>10. i \in Own(w)
    BY <1>0, <1>2
  <2>11. d.new.revision = reg.revision + 1 /\ reg.revision \in Nat
    BY <2>2, <2>6 DEF Released, Revised, IndInv, TypeInv, SharedTyped, Registry
  <2>12. Computed(d, w, d.base)
    BY <1>1, <2>2, <2>5, <2>6, <2>10, <2>11 DEF Computed, Pending
  <2>13. CallKnows(d)
    BY <1>0, <1>1, <2>5, <2>7, <2>8, <2>12, RankTyped DEF CallKnows, TickKnows
  <2>14. call' = [call EXCEPT ![p] = d]
    BY <1>2, <2>1 DEF Carry, Goto
  <2>15. QED
    BY <1>1, <2>9, <2>13, <2>14, QuietCall
<1>3. CASE Drop(p)
  BY <1>1, <1>3, QuietDrop
<1>4. QED
  BY <1>0, <1>2, <1>3 DEF ReadCleanup

-----------------------------------------------------------------------------
(* The compare-and-set of the registry.                                     *)
LEMMA RegStep ==
    ASSUME IndInv, UNCHANGED <<main, clock, branch, pull, issue, green, comments, run>>,
           answers' = answers, reconciled \subseteq reconciled',
           reg' \in Registry, reg'.revision = reg.revision + 1, Keeps(reg, reg'), SoleHolder',
           \A w \in Supervised : Past(w) => Own(w)' \subseteq Own(w),
           NEW p \in Process, NEW c, call' = [call EXCEPT ![p] = c], CallTyped(c)', CallKnows(c)'
    PROVE  IndInv'
<1>1. Grow
  <2>1. \A w \in Supervised : RunMoves(w)
    BY SamePulls DEF IndInv
  <2>2. RegGrows /\ RunGrows
    BY <2>1 DEF RegGrows, RunGrows
  <2>3. QED
    BY <2>2 DEF Grow, CommentsGrow, IndInv, TypeInv, SharedTyped
<1>2. BranchGrows
  <2>1. \A w \in Request : branch[w] # None => HeadOf(w) \in History
    BY DEF HeadOf, IndInv, TypeInv, SharedTyped, Branches
  <2>2. QED
    BY <2>1, PrefixOfSelf DEF BranchGrows, HeadOf
<1>3. SharedTyped'
  BY DEF IndInv, TypeInv, SharedTyped
<1>4. ClosedIsOver'
  BY <1>1, <1>3, ClosedStays DEF IndInv
<1>5. MergedWasChecked' /\ ProjectionsTrusted'
  BY DEF IndInv, MergedWasChecked, PullIs, ProjectionsTrusted, HeadOf
<1>6. CallsStep
  BY ActorStep DEF IndInv, TypeInv
<1>7. QED
  BY <1>1, <1>2, <1>3, <1>4, <1>5, <1>6, Assemble DEF Globals

LEMMA OwnKept ==
    ASSUME SharedTyped, Keeps(reg, reg'), Active(reg') \subseteq Active(reg)
    PROVE  \A w : Own(w)' \subseteq Own(w)
BY DEF Own, Keeps, Active

LEMMA WriteClaimStep ==
    ASSUME IndInv, NEW p \in Process, NEW w \in Request, NEW base \in Nat, WriteClaim(p, base),
           \/ call[p].kind = "comment" /\ w = comments[call[p].id].work /\ base = comments[call[p].id].main
           \/ call[p].kind = "tick" /\ w = call[p].work /\ base = call[p].base
    PROVE  IndInv'
<1>1. /\ UNCHANGED <<main, clock, branch, pull, issue, green, comments, answers, run>>
      /\ At(p, "acquire") /\ call[p] # None /\ call[p].stage = "acquire" /\ SharedTyped /\ reg \in Registry
  BY DEF WriteClaim, At, IndInv, TypeInv, SharedTyped
<1>2. call[p].kind = "comment" => /\ call[p].id \in DOMAIN comments
                                  /\ comments[call[p].id].kind = "claim" /\ w \notin Supervised
                                  /\ Computed(call[p], w, base)
  <2> HAVE call[p].kind = "comment"
  <2>1. call[p].id \in DOMAIN comments /\ comments[call[p].id].kind = "claim"
    BY <1>1, StageFacts, CallFacts
  <2>2. RequestOK(comments[call[p].id]) /\ CommentKnows(call[p])
    BY <1>1, CallFacts
  <2>3. comments[call[p].id].work \notin Supervised /\ ClaimKnows(call[p], comments[call[p].id])
    BY <2>1, <2>2 DEF RequestOK, CommentKnows
  <2>4. w = comments[call[p].id].work /\ base = comments[call[p].id].main
    OBVIOUS
  <2>5. QED
    BY <1>1, <2>1, <2>3, <2>4 DEF ClaimKnows
<1>3. call[p].kind = "tick" => /\ call[p].work \in Supervised /\ call[p].base \in Nat
                               /\ call[p].phase = "CLAIM" /\ TickKnows(call[p])
                               /\ Computed(call[p], w, base)
  BY <1>1, CallFacts DEF PhaseOf, TickKnows
<1>4. CASE main = base /\ Follows(call[p].new) /\ Write(call[p].new, call[p].lease, None) /\ Step(p, "branch")
  <2>1. PICK c, i : c = [call[p] EXCEPT !.stage = "branch"] /\ i = call[p].lease
    OBVIOUS
  <2>2. Computed(call[p], w, base)
    BY <1>2, <1>3
  <2>3. /\ Active(reg) = {} /\ i = Len(reg.leases) + 1
        /\ \E now \in Nat : call[p].new = Acquired(reg, w, base, now)
    BY <1>1, <1>4, <2>1, <2>2 DEF Computed
  <2>4. PICK now \in Nat : reg' = Acquired(reg, w, base, now)
    BY <1>4, <2>3 DEF Write
  <2>5. /\ reg' \in Registry /\ reg'.revision = reg.revision + 1 /\ Keeps(reg, reg') /\ Active(reg') = {i}
        /\ i \in DOMAIN reg'.leases /\ reg'.leases[i].request = w /\ reg'.leases[i].base = base
    BY <1>1, <2>3, <2>4, AcquiredFacts
  <2>6. SoleHolder'
    BY <2>5 DEF SoleHolder
  <2>7. ~(w \in Supervised /\ Past(w))
    <3>1. call[p].kind = "tick" => ~Past(w)
      BY <1>1, <1>3, <1>4 DEF TickKnows, SharedTyped
    <3>2. QED
      BY <1>2, <3>1
  <2>8. ASSUME NEW v \in Supervised, Past(v) PROVE Own(v)' \subseteq Own(v)
    BY <2>5, <2>7, <2>8 DEF Own
  <2>9. Fields(c) /\ SameButStage(c, call[p]) /\ c.stage = "branch" /\ c.lease = i
    <3>1. Fields(call[p]) /\ {"new", "lease"} \subseteq DOMAIN call[p]
      BY <1>1, CallFacts DEF Fields
    <3>2. QED
      BY <2>1, <3>1, StepFacts
  <2>10. CallTyped(c)
    BY <1>1, <1>2, <1>3, <2>9, CallFacts DEF CallTyped, SameButStage, Stages, PhaseOf
  <2>11. CallTyped(c)'
    BY <1>1, <2>10 DEF CallTyped
  <2>12. CallKnows(c)'
    <3>1. CASE call[p].kind = "comment"
      BY <1>1, <1>2, <2>5, <2>9, <3>1
      DEF CallKnows, CommentKnows, ClaimKnows, SameButStage, Writes, Releases
    <3>2. CASE call[p].kind = "tick"
      BY <1>1, <1>3, <2>9, <3>2 DEF CallKnows, TickKnows, SameButStage
    <3>3. QED
      BY <3>1, <3>2
  <2>13. call' = [call EXCEPT ![p] = c] /\ reconciled \subseteq reconciled'
    BY <1>4, <2>1 DEF Step, Write
  <2>14. QED
    BY <1>1, <2>5, <2>6, <2>8, <2>11, <2>12, <2>13, RegStep
<1>5. CASE Drop(p) /\ UNCHANGED <<reg, reconciled>>
  BY <1>1, <1>5, QuietDrop DEF provider
<1>6. QED
  BY <1>4, <1>5 DEF WriteClaim

LEMMA HeartbeatStep ==
    ASSUME IndInv, NEW p \in Process, Heartbeat(p)
    PROVE  IndInv'
<1>1. /\ UNCHANGED <<main, clock, branch, pull, issue, green, comments, answers, run>>
      /\ At(p, "heartbeat") /\ call[p] # None /\ call[p].stage = "heartbeat" /\ call[p].kind = "tick"
      /\ SharedTyped /\ reg \in Registry
  BY StageFacts DEF Heartbeat, At, IndInv, TypeInv, SharedTyped
<1>2. /\ call[p].work \in Supervised /\ call[p].base \in Nat /\ TickKnows(call[p]) /\ Fields(call[p])
      /\ call[p].phase \in {"OPEN_PR", "MERGE"}
  BY <1>1, CallFacts DEF PhaseOf
<1>3. CASE Follows(call[p].new) /\ Write(call[p].new, call[p].lease, None) /\ Proceed(p, "execute")
  <2>1. PICK c, i : c = Proceeding(call[p], "execute") /\ i = call[p].lease
    OBVIOUS
  <2>2. i \in Active(reg) /\ \E m, now \in Nat : call[p].new = Renewed(reg, i, m, now)
    BY <1>1, <1>2, <1>3, <2>1 DEF TickKnows, Computed
  <2>3. PICK m, now \in Nat : reg' = Renewed(reg, i, m, now)
    BY <1>3, <2>2 DEF Write
  <2>4. /\ reg' \in Registry /\ reg'.revision = reg.revision + 1 /\ Keeps(reg, reg')
        /\ Active(reg') = Active(reg)
    BY <1>1, <2>2, <2>3, RenewedFacts
  <2>5. SoleHolder'
    BY <2>4 DEF SoleHolder, IndInv
  <2>6. \A w \in Supervised : Own(w)' \subseteq Own(w)
    BY <1>1, <2>4, OwnKept
  <2>7. Fields(c) /\ SameButStage(c, call[p]) /\ c.stage = "execute"
    BY <1>1, <2>1, ProceedFacts
  <2>8. CallTyped(c)
    BY <1>1, <1>2, <2>7 DEF CallTyped, SameButStage, PhaseOf
  <2>9. CallTyped(c)' /\ CallKnows(c)'
    BY <1>1, <1>2, <2>7, <2>8 DEF CallTyped, CallKnows, TickKnows, SameButStage
  <2>10. call' = [call EXCEPT ![p] = c] /\ reconciled \subseteq reconciled'
    BY <1>3, <2>1 DEF Proceed, Proceeding, Goto, Write
  <2>11. QED
    BY <1>1, <2>4, <2>5, <2>6, <2>9, <2>10, RegStep
<1>4. CASE Drop(p) /\ UNCHANGED <<reg, reconciled>>
  BY <1>1, <1>4, QuietDrop DEF provider
<1>5. QED
  BY <1>3, <1>4 DEF Heartbeat

LEMMA WriteCleanupStep ==
    ASSUME IndInv, NEW p \in Process, WriteCleanup(p)
    PROVE  IndInv'
<1>1. /\ UNCHANGED <<main, clock, branch, pull, issue, green, comments, answers, run>>
      /\ At(p, "cleanup") /\ call[p] # None /\ call[p].stage = "cleanup" /\ call[p].kind = "tick"
      /\ SharedTyped /\ reg \in Registry
  BY StageFacts DEF WriteCleanup, At, IndInv, TypeInv, SharedTyped
<1>2. /\ call[p].work \in Supervised /\ call[p].base \in Nat /\ TickKnows(call[p]) /\ Fields(call[p])
      /\ call[p].phase = "CLEANUP"
  BY <1>1, CallFacts DEF PhaseOf
<1>3. CASE Follows(call[p].new) /\ Write(call[p].new, call[p].lease, 0) /\ Step(p, "close")
  <2>1. PICK c, i, w : /\ c = [call[p] EXCEPT !.stage = "close"] /\ i = call[p].lease
                       /\ w = call[p].work
    OBVIOUS
  <2>2. i \in Own(w) /\ \E m \in Nat : call[p].new = Released(reg, i, m)
    BY <1>1, <1>2, <1>3, <2>1 DEF TickKnows, Computed
  <2>3. PICK m \in Nat : reg' = Released(reg, i, m)
    BY <1>3, <2>2 DEF Write
  <2>4. i \in Active(reg)
    BY <2>2 DEF Own
  <2>5. /\ reg' \in Registry /\ reg'.revision = reg.revision + 1 /\ Keeps(reg, reg')
        /\ Active(reg') = Active(reg) \ {i}
    BY <1>1, <2>3, <2>4, ReleasedFacts
  <2>6. SoleHolder' /\ Active(reg') = {}
    BY <2>4, <2>5 DEF SoleHolder, IndInv
  <2>7. \A v \in Supervised : Own(v)' \subseteq Own(v)
    BY <1>1, <2>5, OwnKept
  <2>8. Own(w)' = {}
    BY <2>6 DEF Own
  <2>9. Fields(c) /\ SameButStage(c, call[p]) /\ c.stage = "close"
    <3>1. {"new", "lease"} \subseteq DOMAIN call[p]
      BY <1>1, <1>2 DEF Fields
    <3>2. QED
      BY <1>2, <2>1, <3>1, StepFacts
  <2>10. CallTyped(c)
    BY <1>1, <1>2, <2>9 DEF CallTyped, SameButStage, PhaseOf
  <2>11. CallTyped(c)' /\ CallKnows(c)'
    BY <1>1, <1>2, <2>1, <2>8, <2>9, <2>10 DEF CallTyped, CallKnows, TickKnows, SameButStage
  <2>12. call' = [call EXCEPT ![p] = c] /\ reconciled \subseteq reconciled'
    BY <1>3, <2>1 DEF Step, Write
  <2>13. QED
    BY <1>1, <2>5, <2>6, <2>7, <2>11, <2>12, RegStep
<1>4. CASE Drop(p) /\ UNCHANGED <<reg, reconciled>>
  BY <1>1, <1>4, QuietDrop DEF provider
<1>5. QED
  BY <1>3, <1>4 DEF WriteCleanup

LEMMA WriteReleaseStep ==
    ASSUME IndInv, NEW p \in Process, WriteRelease(p)
    PROVE  IndInv'
<1>0. PICK r : r = Asking(p)
  OBVIOUS
<1>1. /\ UNCHANGED <<main, clock, branch, pull, issue, green, comments, run>>
      /\ At(p, "release") /\ call[p] # None /\ call[p].stage = "release" /\ call[p].kind = "comment"
      /\ SharedTyped /\ reg \in Registry /\ reg.revision \in Nat
  BY StageFacts DEF WriteRelease, At, IndInv, TypeInv, SharedTyped, Registry
<1>2. /\ call[p].id \in DOMAIN comments /\ r.kind \in Releases /\ Fields(call[p]) /\ RequestOK(r)
      /\ CommentKnows(call[p])
  BY <1>0, <1>1, StageFacts, CallFacts DEF Asking
<1>3. CASE /\ Follows(call[p].new) /\ Write(call[p].new, r.lease, call[p].id)
           /\ Step(p, "confirm") /\ answers' = answers
  <2>1. PICK c, i : c = [call[p] EXCEPT !.stage = "confirm"] /\ i = r.lease
    OBVIOUS
  <2>2. i \in Active(reg) /\ \E m \in Nat : call[p].new = Released(reg, i, m)
    BY <1>0, <1>1, <1>2, <1>3, <2>1 DEF CommentKnows, ReleaseKnows, Asking
  <2>3. PICK m \in Nat : reg' = Released(reg, i, m)
    BY <1>3, <2>2 DEF Write
  <2>4. /\ reg' \in Registry /\ reg'.revision = reg.revision + 1 /\ Keeps(reg, reg')
        /\ Active(reg') = Active(reg) \ {i} /\ i \in DOMAIN reg'.leases
        /\ reg'.leases[i] = [reg.leases[i] EXCEPT !.status = "RELEASED"]
        /\ reg'.leases[i].status = "RELEASED"
    BY <1>1, <2>2, <2>3, ReleasedFacts
  <2>5. SoleHolder'
    BY <2>4 DEF SoleHolder, IndInv
  <2>6. \A w \in Supervised : Own(w)' \subseteq Own(w)
    BY <1>1, <2>4, OwnKept
  <2>7. /\ Fields(c) /\ c.kind = "comment" /\ c.id = call[p].id /\ c.stage = "confirm"
        /\ c.new = reg'
    <3>1. "new" \in DOMAIN call[p]
      BY <1>1, <1>2 DEF Fields
    <3>2. QED
      BY <1>1, <1>2, <1>3, <2>1, <3>1, StepFacts DEF SameButStage, Write
  <2>8. CallTyped(c)'
    BY <1>0, <1>1, <1>2, <2>7 DEF CallTyped, Stages, Writes, Releases, Asking
  <2>9. c.new.revision = r.revision + 1 => ReleasedSeen(r)'
    <3> HAVE c.new.revision = r.revision + 1
    <3>1. r.revision \in Nat /\ r.kind # "claim"
      BY <1>0, <1>1, <1>2, CommentFacts DEF Asking, Releases
    <3>2. r.revision = reg.revision
      BY <1>1, <2>4, <2>7, <3>1
    <3>3. reg.leases[r.lease] = r.seen
      BY <1>2, <3>1, <3>2 DEF RequestOK
    <3>4. QED
      BY <2>1, <2>4, <3>3 DEF ReleasedSeen
  <2>10. ReleaseKnows(c, r)'
    BY <1>1, <2>4, <2>7, <2>9 DEF ReleaseKnows, Pending, Registry
  <2>11. CallKnows(c)'
    BY <1>0, <1>1, <1>2, <2>7, <2>10
    DEF CallKnows, CommentKnows, ReleaseKnows, ReleasedSeen, Pending, Follows, Asking, Writes, Releases
  <2>12. call' = [call EXCEPT ![p] = c] /\ reconciled \subseteq reconciled'
    BY <1>3, <2>1 DEF Step, Write
  <2>13. QED
    BY <1>1, <1>3, <2>4, <2>5, <2>6, <2>8, <2>11, <2>12, RegStep
<1>4. CASE ReleaseFailed(p, r) /\ UNCHANGED <<reg, reconciled>>
  BY <1>0, <1>1, <1>2, <1>4, ReleaseFailedStep DEF provider
<1>5. QED
  BY <1>0, <1>3, <1>4 DEF WriteRelease

-----------------------------------------------------------------------------
(* Projections.                                                             *)
LEMMA LeastOf ==
    ASSUME NEW T, T \subseteq Nat, T # {}
    PROVE  \E x \in T : \A y \in T : x <= y
<1>1. \E x \in T : \A y \in T : ~(<<y, x>> \in OpToRel(<, Nat))
  BY WFMin, NatLessThanWellFounded, Zenon
<1>2. \E x \in T : \A y \in T : ~(y \in Nat /\ x \in Nat /\ y < x)
  BY <1>1, Zenon DEF OpToRel
<1>3. QED
  BY <1>2

LEMMA GreatestOf ==
    ASSUME NEW n \in Nat, NEW T, T \subseteq 1..n, T # {}
    PROVE  \E x \in T : \A y \in T : y <= x
<1> DEFINE U == {n - i : i \in T}
<1>0. \A i \in T : i \in 1..n /\ n - i \in Nat /\ n - i \in U
  OBVIOUS
<1>1. U \subseteq Nat /\ U # {}
  BY <1>0
<1>2. PICK u \in U : \A v \in U : u <= v
  BY <1>1, LeastOf
<1>3. PICK x \in T : u = n - x
  BY <1>2
<1>4. ASSUME NEW y \in T PROVE y <= x
  <2>1. u <= n - y
    BY <1>0, <1>2
  <2>2. QED
    BY <1>0, <1>3, <2>1
<1>5. QED
  BY <1>4

(* The commits that may have set the projections; the last of them did.     *)
Setters(h) == {i \in DOMAIN h : h[i].kind \notin {"source", "ingest"}}

LEMMA ProjectionsBy ==
    ASSUME NEW h \in History, NEW i \in Setters(h), \A m \in Setters(h) : m <= i
    PROVE  /\ h[i].kind = "revert" => Projections(h) = Base
           /\ h[i].kind = "hand" => Projections(h) = Origin("hand", 0)
           /\ h[i].kind \notin {"revert", "hand"} =>
                Projections(h) = Origin("generator", Sources(Upto(h, i)))
<1>1. Setters(h) \subseteq Nat
  BY DEF Setters, History
<1>2. (CHOOSE k \in Setters(h) : \A m \in Setters(h) : m <= k) = i
  <2>1. \A k \in Setters(h) : (\A m \in Setters(h) : m <= k) => k = i
    BY <1>1
  <2>2. QED
    BY <2>1
<1>3. Setters(h) # {}
  OBVIOUS
<1>4. Projections(h) = IF Setters(h) = {} \/ h[i].kind = "revert" THEN Base
                       ELSE IF h[i].kind = "hand" THEN Origin("hand", 0)
                       ELSE Origin("generator", Sources(Upto(h, i)))
  BY <1>2, Zenon DEF Projections, Setters
<1>5. QED
  BY <1>3, <1>4

LEMMA ProjectionsOfSources ==
    ASSUME NEW h \in History, Setters(h) = {}
    PROVE  Projections(h) = Base
BY DEF Projections, Setters

LEMMA LastSetter ==
    ASSUME NEW h \in History, Setters(h) # {}
    PROVE  \E i \in Setters(h) : \A m \in Setters(h) : m <= i
<1>1. Len(h) \in Nat /\ Setters(h) \subseteq 1..Len(h)
  BY DEF Setters, History
<1>2. QED
  BY <1>1, GreatestOf

(* A hand edit shows in the history that ends with it.                      *)
LEMMA HandShows ==
    ASSUME NEW h \in History, Projections(h).from = "hand"
    PROVE  \E i \in DOMAIN h : /\ h[i].kind = "hand"
                               /\ Projections(Upto(h, i)).from = "hand"
                               /\ Upto(h, i) \in History
<1>1. Setters(h) # {}
  BY ProjectionsOfSources DEF Base, Origin
<1>2. PICK i \in Setters(h) : \A m \in Setters(h) : m <= i
  BY <1>1, LastSetter
<1>3. h[i].kind = "hand"
  BY <1>2, ProjectionsBy DEF Base, Origin
<1>4. /\ i \in DOMAIN h /\ i \in 1..Len(h) /\ Upto(h, i) \in History /\ DOMAIN Upto(h, i) = 1..i
      /\ \A k \in 1..i : Upto(h, i)[k] = h[k]
  BY <1>2 DEF Setters, History, Upto
<1>5. i \in Setters(Upto(h, i)) /\ \A m \in Setters(Upto(h, i)) : m <= i
  BY <1>3, <1>4 DEF Setters
<1>6. Projections(Upto(h, i)) = Origin("hand", 0)
  BY <1>3, <1>4, <1>5, ProjectionsBy
<1>7. QED
  BY <1>3, <1>4, <1>6 DEF Origin

LEMMA Nested ==
    ASSUME NEW h \in History, NEW n \in 0..Len(h), NEW i \in 1..n
    PROVE  /\ SubSeq(h, 1, n) \in History /\ DOMAIN SubSeq(h, 1, n) = 1..n
           /\ SubSeq(h, 1, n)[i] = h[i]
           /\ Upto(SubSeq(h, 1, n), i) = Upto(h, i)
           /\ Before(SubSeq(h, 1, n), i) = Before(h, i)
<1>1. /\ h \in Seq(Commits) /\ Len(h) \in Nat /\ SubSeq(h, 1, n) \in Seq(Commits)
      /\ Len(SubSeq(h, 1, n)) = n /\ \A k \in 1..n : SubSeq(h, 1, n)[k] = h[k]
  BY DEF History
<1>2. SubSeq(SubSeq(h, 1, n), 1, i) = SubSeq(h, 1, i)
  BY <1>1
<1>3. SubSeq(SubSeq(h, 1, n), 1, i - 1) = SubSeq(h, 1, i - 1)
  BY <1>1
<1>4. QED
  BY <1>1, <1>2, <1>3 DEF Upto, Before, History

LEMMA TrustedIsNotHand ==
    ASSUME NEW h \in History, LineageTrusted(h)
    PROVE  Projections(h).from # "hand"
<1> SUFFICES ASSUME Projections(h).from = "hand" PROVE FALSE
  OBVIOUS
<1> DEFINE Hands == {n \in 0..Len(h) : Projections(SubSeq(h, 1, n)).from = "hand"}
<1>1. Len(h) \in Nat /\ SubSeq(h, 1, Len(h)) = h /\ \A n \in 0..Len(h) : SubSeq(h, 1, n) \in History
  BY DEF History
<1>2. \A i \in DOMAIN h : h[i].kind = "materialize" \/ Projections(Upto(h, i)) = Projections(Before(h, i))
  BY DEF LineageTrusted, Base, Origin
<1>3. Hands \subseteq Nat /\ Hands # {}
  <2>1. SubSeq(h, 1, Len(h)) = h
    BY <1>1
  <2>2. Projections(SubSeq(h, 1, Len(h))).from = "hand"
    BY <2>1, Zenon
  <2>3. Len(h) \in 0..Len(h)
    BY <1>1
  <2>4. Len(h) \in Hands
    BY <2>2, <2>3, Zenon
  <2>5. QED
    BY <1>1, <2>4
<1>4. PICK n \in Hands : \A m \in Hands : n <= m
  BY <1>3, LeastOf
<1>5. SubSeq(h, 1, n) \in History /\ Projections(SubSeq(h, 1, n)).from = "hand" /\ n \in 0..Len(h)
  BY <1>1, <1>4
<1>6. PICK i \in DOMAIN SubSeq(h, 1, n) : /\ SubSeq(h, 1, n)[i].kind = "hand"
                                          /\ Projections(Upto(SubSeq(h, 1, n), i)).from = "hand"
  BY <1>5, HandShows
<1>7. i \in 1..n
  BY <1>5, <1>6 DEF History
<1>8. h[i].kind = "hand" /\ Projections(Upto(h, i)).from = "hand" /\ i \in DOMAIN h
  BY <1>1, <1>5, <1>6, <1>7, Nested DEF History
<1>9. Projections(Before(h, i)).from = "hand"
  BY <1>2, <1>8
<1>10. i - 1 \in Hands
  BY <1>1, <1>5, <1>7, <1>9 DEF Before
<1>11. QED
  BY <1>4, <1>5, <1>7, <1>10

(* What a materialization on top of a history makes of the projections.     *)
LEMMA MaterializedFacts ==
    ASSUME NEW h \in History, NEW c \in Commits, c.kind = "materialize"
    PROVE  Projections(Append(h, c)) = Generated(h)
<1> DEFINE g == Append(h, c)
           i == Len(h) + 1
<1>1. /\ g \in History /\ Len(h) \in Nat /\ DOMAIN h = 1..Len(h) /\ DOMAIN g = 1..i /\ g[i] = c
      /\ \A k \in 1..Len(h) : g[k] = h[k]
  BY DEF History
<1>2. Upto(g, i) = g
  BY <1>1 DEF Upto, History
<1> HIDE DEF g
<1>3. i \in Setters(g) /\ \A m \in Setters(g) : m <= i
  BY <1>1 DEF Setters
<1>4. Projections(g) = Origin("generator", Sources(g))
  BY <1>1, <1>2, <1>3, ProjectionsBy
<1>5. {k \in DOMAIN g : g[k].kind \in {"source", "ingest"}} = {k \in DOMAIN h : h[k].kind \in {"source", "ingest"}}
  BY <1>1
<1>6. QED
  BY <1>4, <1>5 DEF Sources, Generated, g

(* What ProjectionsTrusted says of one branch.                              *)
FromSources(h) == \A i \in DOMAIN h : h[i].kind = "materialize" =>
                      /\ Projections(Before(h, i)).from # "hand"
                      /\ Projections(Upto(h, i)) = Generated(Before(h, i))

LEMMA TrustedByBranch ==
    ProjectionsTrusted <=> \A w \in Request : branch[w] # None => FromSources(HeadOf(w))
BY DEF ProjectionsTrusted, FromSources

LEMMA GrownFromSources ==
    ASSUME NEW h \in History, NEW c \in Commits, FromSources(h),
           c.kind = "materialize" => LineageTrusted(h)
    PROVE  FromSources(Append(h, c))
<1> DEFINE g == Append(h, c)
<1>1. /\ g \in History /\ Len(h) \in Nat /\ DOMAIN h = 1..Len(h) /\ DOMAIN g = 1..(Len(h) + 1)
      /\ g[Len(h) + 1] = c /\ \A k \in 1..Len(h) : g[k] = h[k]
      /\ SubSeq(g, 1, Len(h)) = h /\ Len(g) = Len(h) + 1
  BY DEF History
<1> HIDE DEF g
<1> SUFFICES ASSUME NEW i \in DOMAIN g, g[i].kind = "materialize"
             PROVE  /\ Projections(Before(g, i)).from # "hand"
                    /\ Projections(Upto(g, i)) = Generated(Before(g, i))
  BY DEF FromSources, g
<1>2. CASE i = Len(h) + 1
  <2>1. Before(g, i) = h /\ Upto(g, i) = Append(h, c)
    BY <1>1, <1>2 DEF Before, Upto, History, g
  <2>2. c.kind = "materialize"
    BY <1>1, <1>2
  <2>3. QED
    BY <2>1, <2>2, TrustedIsNotHand, MaterializedFacts
<1>3. CASE i \in 1..Len(h)
  <2>1. h[i].kind = "materialize"
    BY <1>1, <1>3
  <2>2. Before(g, i) = Before(h, i) /\ Upto(g, i) = Upto(h, i)
    <3>1. Len(h) \in 0..Len(g)
      BY <1>1
    <3>2. QED
      BY <1>1, <1>3, <3>1, Nested
  <2>3. QED
    BY <1>1, <1>3, <2>1, <2>2 DEF FromSources
<1>4. QED
  BY <1>1, <1>2, <1>3

-----------------------------------------------------------------------------
(* Steps that leave the registry and the requests alone.                    *)
LEMMA WorldStep ==
    ASSUME IndInv, UNCHANGED <<reg, reconciled, comments, answers>>, main' \in Nat, main <= main',
           \A w \in Supervised : RunMoves(w),
           issue' = issue \/ ClosedIsOver',
           green \subseteq green', BranchGrows, SharedTyped', MergedWasChecked', ProjectionsTrusted',
           CallsStep
    PROVE  IndInv'
<1>1. \A w \in Supervised : Own(w)' = Own(w)
  BY DEF Own
<1>2. Grow
  <2>1. RunGrows
    BY <1>1 DEF RunGrows
  <2>2. RegGrows
    BY DEF RegGrows, IndInv, TypeInv, SharedTyped
  <2>3. QED
    BY <2>1, <2>2 DEF Grow, CommentsGrow
<1>3. ClosedIsOver' /\ SoleHolder'
  BY <1>2, ClosedStays DEF IndInv, SoleHolder
<1>4. QED
  BY <1>2, <1>3, Assemble DEF Globals

LEMMA SameCalls ==
    ASSUME IndInv, call' = call
    PROVE  CallsStep
BY DEF CallsStep, IndInv, TypeInv, CallsTyped

LEMMA DropCalls ==
    ASSUME IndInv, NEW p \in Process, Drop(p)
    PROVE  CallsStep
BY ActorStep DEF Drop, IndInv, TypeInv

LEMMA HeadTyped ==
    ASSUME SharedTyped, NEW w \in Request
    PROVE  /\ HeadOf(w) \in History \cup {None}
           /\ branch[w] # None => branch[w] \in Branches /\ HeadOf(w) = branch[w].commits
                                  /\ HeadOf(w) \in History
BY DEF HeadOf, SharedTyped, Branches

LEMMA SameBranches ==
    ASSUME IndInv, branch' = branch
    PROVE  BranchGrows /\ ProjectionsTrusted'
<1>1. BranchGrows
  BY HeadTyped, PrefixOfSelf DEF BranchGrows, HeadOf, IndInv, TypeInv
<1>2. ProjectionsTrusted'
  BY DEF ProjectionsTrusted, HeadOf, IndInv
<1>3. QED
  BY <1>1, <1>2

\* A branch is no None, nor is a pull request.
LEMMA BranchThere == None \notin Branches
BY NoneAssumption DEF Branches, History, Commits

(* A branch gets a history on top of its own.                               *)
LEMMA PullThere == None \notin Pulls
BY NoneAssumption DEF Pulls, History, Commits

LEMMA PushStep ==
    ASSUME IndInv, UNCHANGED <<main, clock, reg, reconciled, issue, green, comments, answers, run>>,
           NEW w \in Request, branch[w] # None, NEW h \in History, Pushed(w, h),
           IsPrefix(HeadOf(w), h), FromSources(h), CallsStep
    PROVE  IndInv'
<1>1. /\ SharedTyped /\ branch[w] \in Branches /\ main \in Nat
      /\ branch \in [Request -> Branches \cup {None}] /\ pull \in [Request -> Pulls \cup {None}]
  BY HeadTyped DEF IndInv, TypeInv, SharedTyped
<1>2. [branch[w] EXCEPT !.commits = h] \in Branches /\ [branch[w] EXCEPT !.commits = h].commits = h
  BY <1>1 DEF Branches
<1>3. /\ branch' \in [Request -> Branches \cup {None}] /\ branch'[w] # None /\ branch'[w].commits = h
      /\ \A v \in Request \ {w} : branch'[v] = branch[v]
  <2>1. branch' = [branch EXCEPT ![w] = [branch[w] EXCEPT !.commits = h]]
    BY DEF Pushed
  <2>2. QED
    BY <1>1, <1>2, <2>1, BranchThere
<1>4. /\ pull' \in [Request -> Pulls \cup {None}]
      /\ \A v \in Request : pull'[v] = pull[v] \/ ~PullIs(v, "merged")'
      /\ \A v \in Request : Delivered(v)' = Delivered(v)
  <2>1. CASE PullIs(w, "open")
    <3>1. pull' = [pull EXCEPT ![w] = [pull[w] EXCEPT !.head = h]]
      BY <2>1 DEF Pushed
    <3>2. pull[w] \in Pulls /\ pull[w].state = "open"
      BY <1>1, <2>1 DEF PullIs
    <3>3. /\ [pull[w] EXCEPT !.head = h] \in Pulls /\ [pull[w] EXCEPT !.head = h].state = "open"
          /\ [pull[w] EXCEPT !.head = h].merge = pull[w].merge
      BY <3>2 DEF Pulls
    <3>4. QED
      BY <1>1, <3>1, <3>2, <3>3, PullThere DEF PullIs, Delivered
  <2>2. CASE pull' = pull
    BY <1>1, <2>2 DEF Delivered
  <2>3. QED
    BY <2>1, <2>2 DEF Pushed
<1>5. HeadOf(w)' = h /\ \A v \in Request \ {w} : HeadOf(v)' = HeadOf(v)
  BY <1>3 DEF HeadOf
<1>6. BranchGrows
  BY <1>1, <1>3, <1>5, HeadTyped, PrefixOfSelf DEF BranchGrows
<1>7. ProjectionsTrusted'
  <2>1. \A v \in Request : branch'[v] # None => FromSources(HeadOf(v)')
    BY <1>3, <1>5, TrustedByBranch DEF IndInv
  <2>2. QED
    BY <2>1 DEF ProjectionsTrusted, FromSources
<1>8. MergedWasChecked'
  BY <1>4 DEF IndInv, MergedWasChecked, PullIs
<1>9. SharedTyped'
  BY <1>1, <1>3, <1>4 DEF SharedTyped
<1>10. \A v \in Supervised : RunMoves(v)
  BY <1>4, ProviderAssumption, SameRuns DEF IndInv
<1>11. QED
  BY <1>1, <1>6, <1>7, <1>8, <1>9, <1>10, WorldStep

LEMMA UpdateRefStep ==
    ASSUME IndInv, NEW p \in Process, UpdateRef(p)
    PROVE  IndInv'
<1>0. PICK n, r : n = call[p].id /\ r = comments[n]
  OBVIOUS
<1>1. /\ UNCHANGED <<main, clock, reg, reconciled, issue, green, comments, answers, run>>
      /\ At(p, "update") /\ call[p] # None /\ call[p].stage = "update" /\ call[p].kind = "comment"
      /\ SharedTyped
  BY StageFacts DEF UpdateRef, At, IndInv, TypeInv
<1>2. /\ n \in DOMAIN comments /\ r.kind \in Writes /\ Fields(call[p]) /\ RequestOK(r)
      /\ CommentKnows(call[p]) /\ n \in Nat /\ r.work \in Request
  BY <1>0, <1>1, StageFacts, CallFacts, CommentFacts
<1>3. /\ r.head \in History /\ branch[r.work] # None /\ IsPrefix(r.head, HeadOf(r.work))
      /\ HeadOf(r.work) \in History
  BY <1>1, <1>2, HeadTyped DEF RequestOK, Writes
<1>4. CASE /\ IsPrefix(HeadOf(r.work), Asked(r, n)) /\ Pushed(r.work, Asked(r, n))
           /\ Step(p, "confirm")
  <2>1. PICK c, b : c = [call[p] EXCEPT !.stage = "confirm"] /\ b = Commit(r.kind, n)
    OBVIOUS
  <2>2. /\ Asked(r, n) = Append(r.head, b) /\ b \in Commits /\ Asked(r, n) \in History
        /\ b.kind = r.kind
    BY <1>2, <1>3, <2>1, AskedTyped DEF Commit
  <2>3. HeadOf(r.work) = r.head \/ HeadOf(r.work) = Asked(r, n)
    BY <1>3, <1>4, <2>2, NextCommit
  <2>4. FromSources(HeadOf(r.work))
    BY <1>2, <1>3, TrustedByBranch DEF IndInv
  <2>5. FromSources(Asked(r, n))
    <3>1. r.kind = "materialize" => LineageTrusted(r.head)
      BY <1>0, <1>1, <1>2 DEF CommentKnows, WriteKnows
    <3>2. CASE HeadOf(r.work) = r.head
      BY <1>3, <2>2, <2>4, <3>1, <3>2, GrownFromSources
    <3>3. CASE HeadOf(r.work) = Asked(r, n)
      BY <2>4, <3>3
    <3>4. QED
      BY <2>3, <3>2, <3>3
  <2>6. Fields(c) /\ c.kind = "comment" /\ c.id = n /\ c.stage = "confirm"
    BY <1>0, <1>1, <1>2, <2>1, StepFacts DEF SameButStage
  <2>7. CallTyped(c)' /\ CallKnows(c)'
    BY <1>0, <1>1, <1>2, <2>6
    DEF CallTyped, Stages, CallKnows, CommentKnows, WriteKnows, Writes, Releases
  <2>8. CallsStep
    <3>1. call' = [call EXCEPT ![p] = c]
      BY <1>4, <2>1 DEF Step
    <3>2. QED
      BY <2>7, <3>1, ActorStep DEF IndInv, TypeInv
  <2>9. QED
    BY <1>1, <1>2, <1>3, <1>4, <2>2, <2>5, <2>8, PushStep
<1>5. CASE Drop(p) /\ UNCHANGED <<branch, pull>>
  BY <1>1, <1>5, QuietDrop DEF provider
<1>6. QED
  BY <1>0, <1>4, <1>5 DEF UpdateRef, Asking

(* Agents.                                                                  *)
LEMMA AgentPushStep ==
    ASSUME IndInv, NEW w \in Request, NEW kind \in {"source", "hand", "revert"}, Push(w, kind)
    PROVE  IndInv'
<1>1. PICK c : c = Commit(kind, 0)
  OBVIOUS
<1>2. c \in Commits /\ c.kind # "materialize"
  BY <1>1 DEF Commit, Commits, Kinds
<1>3. branch[w] # None /\ HeadOf(w) \in History /\ FromSources(HeadOf(w))
  BY HeadTyped, TrustedByBranch DEF Push, IndInv, TypeInv
<1>4. /\ IsPrefix(HeadOf(w), Append(HeadOf(w), c)) /\ Append(HeadOf(w), c) \in History
      /\ FromSources(Append(HeadOf(w), c))
  BY <1>2, <1>3, PrefixOfSelf, PrefixOfAppend, GrownFromSources
<1>5. CallsStep
  BY SameCalls DEF Push
<1>6. Pushed(w, Append(HeadOf(w), c))
  BY <1>1 DEF Push
<1>7. QED
  BY <1>3, <1>4, <1>5, <1>6, PushStep DEF Push

(* A branch is made at a base, or nothing happens to the branches.           *)
LEMMA MadeStep ==
    ASSUME IndInv, UNCHANGED <<main, clock, reg, reconciled, pull, issue, green, comments, answers, run>>,
           NEW w \in Request, NEW base \in Nat, CallsStep,
           \/ branch' = branch
           \/ branch[w] = None /\ branch' = [branch EXCEPT ![w] = [base |-> base, commits |-> <<>>]]
    PROVE  IndInv'
<1>1. /\ SharedTyped /\ main \in Nat /\ branch \in [Request -> Branches \cup {None}]
  BY DEF IndInv, TypeInv, SharedTyped
<1>2. MergedWasChecked'
  BY DEF IndInv, MergedWasChecked, PullIs
<1>3. CASE branch' = branch
  <2>1. SharedTyped'
    BY <1>1, <1>3 DEF SharedTyped
  <2>2. QED
    BY <1>1, <1>2, <1>3, <2>1, SameBranches, SamePulls, WorldStep DEF IndInv
<1>4. CASE branch[w] = None /\ branch' = [branch EXCEPT ![w] = [base |-> base, commits |-> <<>>]]
  <2>1. [base |-> base, commits |-> <<>>] \in Branches /\ <<>> \in History /\ FromSources(<<>>)
    BY DEF Branches, History, FromSources
  <2>2. /\ branch' \in [Request -> Branches \cup {None}] /\ branch'[w].commits = <<>> /\ branch'[w] # None
        /\ \A v \in Request \ {w} : branch'[v] = branch[v]
    BY <1>1, <1>4, <2>1, BranchThere
  <2>3. HeadOf(w)' = <<>> /\ \A v \in Request \ {w} : HeadOf(v)' = HeadOf(v)
    BY <2>2 DEF HeadOf
  <2>4. BranchGrows
    BY <1>1, <1>4, <2>2, <2>3, HeadTyped, PrefixOfSelf DEF BranchGrows
  <2>5. ProjectionsTrusted'
    <3>1. \A v \in Request : branch'[v] # None => FromSources(HeadOf(v)')
      BY <2>1, <2>2, <2>3, TrustedByBranch DEF IndInv
    <3>2. QED
      BY <3>1 DEF ProjectionsTrusted, FromSources
  <2>6. SharedTyped'
    BY <1>1, <2>2 DEF SharedTyped
  <2>7. QED
    BY <1>1, <1>2, <2>4, <2>5, <2>6, SamePulls, WorldStep DEF IndInv
<1>5. QED
  BY <1>3, <1>4

LEMMA MakeBranchStep ==
    ASSUME IndInv, NEW w \in Request, MakeBranch(w)
    PROVE  IndInv'
<1>1. main \in Nat
  BY DEF IndInv, TypeInv, SharedTyped
<1>2. QED
  BY <1>1, SameCalls, MadeStep DEF MakeBranch

LEMMA ClaimBranchStep ==
    ASSUME IndInv, NEW p \in Process, ClaimBranch(p)
    PROVE  IndInv'
<1>0. PICK n, r : n = call[p].id /\ r = comments[n]
  OBVIOUS
<1>1. /\ UNCHANGED <<main, clock, reg, reconciled, pull, issue, green, comments, answers, run>>
      /\ At(p, "branch") /\ call[p] # None /\ call[p].stage = "branch" /\ call[p].kind = "comment"
      /\ SharedTyped
      /\ Step(p, "confirm") \/ Drop(p)
  BY DEF ClaimBranch, At, IndInv, TypeInv
<1>2. /\ n \in DOMAIN comments /\ r.kind = "claim" /\ Fields(call[p])
      /\ CommentKnows(call[p]) /\ r.work \in Request /\ r.main \in Nat
  BY <1>0, <1>1, StageFacts, CallFacts, CommentFacts
<1>3. \/ branch' = branch
      \/ branch[r.work] = None /\ branch' = [branch EXCEPT ![r.work] = [base |-> r.main, commits |-> <<>>]]
  BY <1>0 DEF ClaimBranch
<1>4. CASE Step(p, "confirm")
  <2>1. PICK c : c = [call[p] EXCEPT !.stage = "confirm"]
    OBVIOUS
  <2>2. "lease" \in DOMAIN call[p]
    BY <1>1, <1>2 DEF Fields
  <2>3. Fields(c) /\ c.kind = "comment" /\ c.id = n /\ c.stage = "confirm" /\ c.lease = call[p].lease
    BY <1>0, <1>1, <1>2, <2>1, <2>2, StepFacts DEF SameButStage
  <2>4. ClaimKnows(call[p], r)
    BY <1>0, <1>2 DEF CommentKnows
  <2>5. CallTyped(c)' /\ CallKnows(c)'
    BY <1>0, <1>1, <1>2, <2>3, <2>4
    DEF CallTyped, Stages, CallKnows, CommentKnows, ClaimKnows, Writes, Releases
  <2>6. CallsStep
    <3>1. call' = [call EXCEPT ![p] = c]
      BY <1>4, <2>1 DEF Step
    <3>2. QED
      BY <2>5, <3>1, ActorStep DEF IndInv, TypeInv
  <2>7. QED
    BY <1>1, <1>2, <1>3, <2>6, MadeStep
<1>5. CASE Drop(p)
  BY <1>1, <1>2, <1>3, <1>5, DropCalls, MadeStep
<1>6. QED
  BY <1>1, <1>4, <1>5

(* Pull requests and main.                                                  *)
LEMMA PullStep ==
    ASSUME IndInv, UNCHANGED <<clock, reg, reconciled, branch, issue, green, comments, answers>>,
           main' \in Nat, main <= main', run' \in [Supervised -> Runs], CallsStep,
           \A w \in Supervised : RunMoves(w),
           pull' \in [Request -> Pulls \cup {None}],
           \A w \in Request : pull'[w] = pull[w] \/ (PullIs(w, "merged")' => <<w, pull'[w].head>> \in green)
    PROVE  IndInv'
<1>1. SharedTyped'
  BY DEF IndInv, TypeInv, SharedTyped
<1>2. MergedWasChecked'
  BY DEF IndInv, MergedWasChecked, PullIs
<1>3. QED
  BY <1>1, <1>2, SameBranches, WorldStep

LEMMA OpenedFacts ==
    ASSUME SharedTyped, NEW w \in Request, pull' = [pull EXCEPT ![w] = Opened(w)]
    PROVE  /\ pull' \in [Request -> Pulls \cup {None}]
           /\ \A v \in Request : pull'[v] = pull[v] \/ ~PullIs(v, "merged")'
           /\ \A v \in Request : Delivered(v)' = Delivered(v)
<1>1. pull \in [Request -> Pulls \cup {None}] /\ main \in Nat /\ HeadOf(w) \in History \cup {None}
  BY HeadTyped DEF SharedTyped
<1>2. PICK m : m = IF pull[w] = None THEN 0 ELSE pull[w].merge
  OBVIOUS
<1>3. m \in Nat
  BY <1>1, <1>2 DEF Pulls
<1>4. Opened(w) = [state |-> "open", base |-> main, head |-> HeadOf(w), merge |-> m]
  BY <1>2 DEF Opened
<1>5. Opened(w) \in Pulls /\ Opened(w).state = "open" /\ Opened(w).merge = m
  BY <1>1, <1>3, <1>4 DEF Pulls
<1>6. \A v \in Request : v # w => pull'[v] = pull[v]
  BY <1>1
<1>7. pull'[w] = Opened(w) /\ Opened(w) # None
  BY <1>1, <1>5, PullThere
<1>8. Delivered(w)' = Delivered(w)
  BY <1>2, <1>5, <1>7 DEF Delivered
<1>9. QED
  BY <1>1, <1>5, <1>6, <1>7, <1>8 DEF PullIs, Delivered

LEMMA MergedFacts ==
    ASSUME SharedTyped, NEW w \in Request, PullIs(w, "open"), <<w, pull[w].head>> \in green, Merged(w)
    PROVE  /\ main' = main + 1 /\ pull' \in [Request -> Pulls \cup {None}]
           /\ \A v \in Request : pull'[v] = pull[v] \/ (PullIs(v, "merged")' => <<v, pull'[v].head>> \in green)
           /\ Delivered(w)' /\ \A v \in Request : v # w => Delivered(v)' = Delivered(v)
<1>1. /\ pull \in [Request -> Pulls \cup {None}] /\ main \in Nat /\ pull[w] # None /\ pull[w] \in Pulls
  BY DEF SharedTyped, PullIs
<1>2. PICK q : q = [pull[w] EXCEPT !.state = "merged", !.merge = main + 1]
  OBVIOUS
<1>3. q \in Pulls /\ q.head = pull[w].head /\ q.merge = main + 1
  <2>1. /\ pull[w] = [state |-> pull[w].state, base |-> pull[w].base, head |-> pull[w].head,
                      merge |-> pull[w].merge]
        /\ pull[w].base \in Nat /\ pull[w].head \in History \cup {None} /\ main + 1 \in Nat
    BY <1>1 DEF Pulls
  <2>2. q = [state |-> "merged", base |-> pull[w].base, head |-> pull[w].head, merge |-> main + 1]
    BY <1>2, <2>1
  <2>3. QED
    BY <2>1, <2>2 DEF Pulls
<1>4. pull' = [pull EXCEPT ![w] = q]
  BY <1>1, <1>2 DEF Merged
<1>5. q # None /\ q.merge # 0
  BY <1>1, <1>3, PullThere
<1>6. pull'[w] = q /\ \A v \in Request : v # w => pull'[v] = pull[v]
  BY <1>1, <1>4
<1>7. Delivered(w)' /\ \A v \in Request : v # w => Delivered(v)' = Delivered(v)
  BY <1>5, <1>6 DEF Delivered
<1>8. QED
  BY <1>1, <1>3, <1>4, <1>7 DEF Merged

LEMMA OpenByAgentStep ==
    ASSUME IndInv, NEW w \in Request, OpenByAgent(w)
    PROVE  IndInv'
<1>1. main \in Nat /\ SharedTyped /\ run \in [Supervised -> Runs]
  BY DEF IndInv, TypeInv, SharedTyped
<1>2. /\ pull' \in [Request -> Pulls \cup {None}]
      /\ \A v \in Request : pull'[v] = pull[v] \/ ~PullIs(v, "merged")'
      /\ \A v \in Request : Delivered(v)' = Delivered(v)
  BY <1>1, OpenedFacts DEF OpenByAgent
<1>3. main' \in Nat /\ main <= main' /\ CallsStep /\ run' = run
  BY <1>1, SameCalls DEF OpenByAgent
<1>4. \A v \in Supervised : RunMoves(v)
  BY <1>2, <1>3, SameRuns, ProviderAssumption DEF IndInv
<1>5. QED
  BY <1>1, <1>2, <1>3, <1>4, PullStep DEF OpenByAgent

LEMMA MergeByHandStep ==
    ASSUME IndInv, NEW w \in Request, MergeByHand(w)
    PROVE  IndInv'
<1>1. main \in Nat /\ SharedTyped /\ run \in [Supervised -> Runs]
  BY DEF IndInv, TypeInv, SharedTyped
<1>2. /\ main' = main + 1 /\ pull' \in [Request -> Pulls \cup {None}]
      /\ \A v \in Request : pull'[v] = pull[v] \/ (PullIs(v, "merged")' => <<v, pull'[v].head>> \in green)
      /\ \A v \in Request : v # w => Delivered(v)' = Delivered(v)
  BY <1>1, MergedFacts DEF MergeByHand, Mergeable
<1>3. main' \in Nat /\ main <= main'
  BY <1>1, <1>2
<1>4. \A v \in Supervised : RunMoves(v)
  BY <1>2, SameRuns, ProviderAssumption DEF IndInv, MergeByHand
<1>5. QED
  BY <1>1, <1>2, <1>3, <1>4, SameCalls, PullStep DEF MergeByHand

LEMMA MoveMainStep ==
    ASSUME IndInv, MoveMain
    PROVE  IndInv'
<1>1. main \in Nat /\ SharedTyped /\ run \in [Supervised -> Runs] /\ pull \in [Request -> Pulls \cup {None}]
  BY DEF IndInv, TypeInv, SharedTyped
<1>2. main' \in Nat /\ main <= main'
  BY <1>1 DEF MoveMain
<1>3. QED
  BY <1>1, <1>2, SameCalls, SamePulls, PullStep DEF MoveMain, IndInv

LEMMA TickStep ==
    ASSUME IndInv, Tick
    PROVE  IndInv'
<1>1. main \in Nat /\ main <= main /\ SharedTyped'
  BY DEF IndInv, TypeInv, SharedTyped, Tick
<1>2. MergedWasChecked'
  BY DEF Tick, IndInv, MergedWasChecked, PullIs
<1>3. QED
  BY <1>1, <1>2, SameCalls, SamePulls, SameBranches, WorldStep DEF Tick, IndInv

LEMMA ChecksStep ==
    ASSUME IndInv, NEW w \in Request, ChecksSucceed(w)
    PROVE  IndInv'
<1>1. main \in Nat /\ main <= main /\ SharedTyped' /\ green \subseteq green'
  BY DEF IndInv, TypeInv, SharedTyped, ChecksSucceed
<1>2. MergedWasChecked'
  BY <1>1 DEF ChecksSucceed, IndInv, MergedWasChecked, PullIs
<1>3. QED
  BY <1>1, <1>2, SameCalls, SamePulls, SameBranches, WorldStep DEF ChecksSucceed, IndInv

(* Results in the journal of a run.                                         *)
LEMMA JournalFacts ==
    ASSUME SharedTyped, NEW p \in Process, NEW w \in Supervised, w = call[p].work,
           NEW to \in Phases, NEW f \in Runs, f.subject = run[w].subject,
           Rank(call[p].phase) <= Rank(to), Journal(p, to, f)
    PROVE  /\ run' \in [Supervised -> Runs]
           /\ \A v \in Supervised : /\ Rank(run[v].phase) <= Rank(run'[v].phase)
                                    /\ run'[v].subject = run[v].subject
                                    /\ v # w => run'[v] = run[v]
           /\ IF run[w].phase = call[p].phase THEN run'[w].phase = to ELSE run' = run
<1>1. run \in [Supervised -> Runs]
  BY DEF SharedTyped
<1>2. CASE run' = run /\ run[w].phase # call[p].phase
  BY <1>1, <1>2, RankTyped
<1>3. CASE run[w].phase = call[p].phase
  <2>1. PICK g : g = [f EXCEPT !.phase = to]
    OBVIOUS
  <2>2. g \in Runs /\ g.phase = to /\ g.subject = run[w].subject
    BY <2>1 DEF Runs
  <2>3. run' = [run EXCEPT ![w] = g]
    BY <1>3, <2>1 DEF Journal
  <2>4. QED
    BY <1>1, <1>3, <2>2, <2>3, RankTyped
<1>4. QED
  BY <1>2, <1>3 DEF Journal

(* A result moves the run of one piece of work.                             *)
LEMMA RecordedMoves ==
    ASSUME SharedTyped, RunsOK, pull' = pull, NEW w \in Supervised, run' \in [Supervised -> Runs],
           \A v \in Supervised : /\ Rank(run[v].phase) <= Rank(run'[v].phase)
                                 /\ Rank(run[v].phase) >= 3 => run'[v].subject = run[v].subject
                                 /\ v # w => run'[v] = run[v],
           run' = run \/ Rank(run'[w].phase) <= 4 \/ Past(w)
    PROVE  \A v \in Supervised : RunMoves(v)
<1>1. \A v \in Supervised : Delivered(v)' = Delivered(v)
  BY DEF Delivered
<1>2. ASSUME NEW v \in Supervised, run'[v] = run[v]
      PROVE  RunMoves(v)
  <2>1. Past(v)' = Past(v) /\ Rank(run[v].phase) \in Nat
    BY <1>1, <1>2, RankTyped DEF Past
  <2>2. Rank(run[v].phase) >= 5 => Past(v)
    BY DEF RunsOK
  <2>3. QED
    BY <1>2, <2>1, <2>2 DEF RunMoves
<1>3. ASSUME Rank(run'[w].phase) <= 4 \/ Past(w)
      PROVE  RunMoves(w)
  <2>1. /\ Rank(run[w].phase) \in Nat /\ Rank(run'[w].phase) \in Nat
        /\ run[w].phase \in Phases /\ run'[w].phase \in Phases
    BY RankTyped DEF SharedTyped, Runs
  <2>2. /\ run[w].phase = "END" <=> Rank(run[w].phase) >= 6
        /\ run'[w].phase = "END" <=> Rank(run'[w].phase) >= 6
    BY <2>1 DEF Rank, Phases
  <2>3. Rank(run[w].phase) <= Rank(run'[w].phase)
    OBVIOUS
  <2>4. Past(w) => Past(w)'
    BY <1>1, <2>1, <2>2, <2>3 DEF Past
  <2>5. ~Past(w) => ~Past(w)' /\ Rank(run'[w].phase) <= 4
    BY <1>1, <1>3, <2>1, <2>2 DEF Past
  <2>6. QED
    BY <2>1, <2>3, <2>4, <2>5 DEF RunMoves
<1>4. QED
  BY <1>2, <1>3

LEMMA ClaimResultStep ==
    ASSUME IndInv, NEW p \in Process, ClaimResult(p)
    PROVE  IndInv'
<1>0. PICK w : w = call[p].work
  OBVIOUS
<1>1. /\ UNCHANGED <<provider, answers>> /\ call[p] # None /\ call[p].stage = "branch"
      /\ call[p].kind = "tick" /\ Drop(p) /\ Journal(p, "EXECUTE", run[w])
  BY <1>0 DEF ClaimResult, Ticking, At
<1>2. w \in Supervised /\ call[p].phase = "CLAIM"
  BY <1>0, <1>1, CallFacts DEF PhaseOf
<1>3. SharedTyped /\ main \in Nat /\ main <= main /\ run[w] \in Runs
  BY <1>2 DEF IndInv, TypeInv, SharedTyped
<1>4. /\ run' \in [Supervised -> Runs]
      /\ \A v \in Supervised : /\ Rank(run[v].phase) <= Rank(run'[v].phase)
                               /\ run'[v].subject = run[v].subject
                               /\ v # w => run'[v] = run[v]
      /\ run'[w].phase = "EXECUTE" \/ run' = run
  <2>1. Rank(call[p].phase) <= Rank("EXECUTE") /\ "EXECUTE" \in Phases
    BY <1>2 DEF Rank, Phases
  <2>2. QED
    BY <1>0, <1>1, <1>2, <1>3, <2>1, JournalFacts
<1>5. \A v \in Supervised : RunMoves(v)
  <2>1. run' = run \/ Rank(run'[w].phase) <= 4
    BY <1>4 DEF Rank
  <2>2. pull' = pull
    BY <1>1 DEF provider
  <2>3. QED
    BY <1>2, <1>3, <1>4, <2>1, <2>2, RecordedMoves DEF IndInv
<1>6. SharedTyped' /\ MergedWasChecked'
  BY <1>1, <1>4 DEF provider, IndInv, TypeInv, SharedTyped, MergedWasChecked, PullIs
<1>7. CallsStep
  BY <1>1, DropCalls
<1>8. QED
  BY <1>1, <1>3, <1>5, <1>6, <1>7, SameBranches, WorldStep DEF provider

LEMMA ExecuteResultStep ==
    ASSUME IndInv, NEW w \in Supervised, ExecuteResult(w)
    PROVE  IndInv'
<1>1. /\ UNCHANGED <<provider, answers, call>> /\ run[w].phase = "EXECUTE" /\ branch[w] # None
      /\ run' = [run EXCEPT ![w].phase = "OPEN_PR", ![w].subject = HeadOf(w)]
  BY DEF ExecuteResult
<1>2. SharedTyped /\ main \in Nat /\ main <= main /\ run \in [Supervised -> Runs]
  BY DEF IndInv, TypeInv, SharedTyped
<1>3. HeadOf(w) \in History
  BY <1>1, <1>2, HeadTyped, ProviderAssumption
<1>4. PICK g : g = [run[w] EXCEPT !.phase = "OPEN_PR", !.subject = HeadOf(w)]
  OBVIOUS
<1>5. g \in Runs /\ g.phase = "OPEN_PR"
  BY <1>2, <1>3, <1>4 DEF Runs, Phases
<1>6. run' = [run EXCEPT ![w] = g]
  BY <1>1, <1>2, <1>4
<1>7. /\ run' \in [Supervised -> Runs] /\ run'[w].phase = "OPEN_PR"
      /\ \A v \in Supervised : v # w => run'[v] = run[v]
  BY <1>2, <1>5, <1>6
<1>8. Rank(run[w].phase) = 2 /\ Rank(run'[w].phase) = 3
  BY <1>1, <1>7 DEF Rank
<1>9. \A v \in Supervised : /\ Rank(run[v].phase) <= Rank(run'[v].phase)
                            /\ Rank(run[v].phase) >= 3 => run'[v].subject = run[v].subject
  BY <1>7, <1>8, RankTyped
<1>10. \A v \in Supervised : RunMoves(v)
  <2>1. pull' = pull /\ Rank(run'[w].phase) <= 4
    BY <1>1, <1>8 DEF provider
  <2>2. QED
    BY <1>2, <1>7, <1>9, <2>1, RecordedMoves DEF IndInv
<1>11. SharedTyped' /\ MergedWasChecked'
  BY <1>1, <1>7 DEF provider, IndInv, TypeInv, SharedTyped, MergedWasChecked, PullIs
<1>12. QED
  BY <1>1, <1>2, <1>10, <1>11, SameCalls, SameBranches, WorldStep DEF provider

LEMMA OpenPrStep ==
    ASSUME IndInv, NEW p \in Process, OpenPr(p)
    PROVE  IndInv'
<1>0. PICK w : w = call[p].work
  OBVIOUS
<1>1. /\ UNCHANGED <<main, clock, reg, reconciled, branch, issue, green, comments, answers, run>>
      /\ At(p, "execute") /\ call[p] # None /\ call[p].kind = "tick" /\ call[p].phase = "OPEN_PR"
  BY StageFacts DEF OpenPr, At
<1>2. /\ w \in Supervised /\ w \in Request /\ call[p].base \in Nat /\ Fields(call[p])
      /\ Rank(call[p].phase) <= Rank(run[w].phase)
  BY <1>0, <1>1, CallFacts, ProviderAssumption DEF TickKnows
<1>3. SharedTyped /\ main \in Nat /\ main <= main /\ run \in [Supervised -> Runs]
      /\ pull \in [Request -> Pulls \cup {None}]
  BY <1>2 DEF IndInv, TypeInv, SharedTyped
<1>4. /\ pull' \in [Request -> Pulls \cup {None}]
      /\ \A v \in Request : pull'[v] = pull[v] \/ ~PullIs(v, "merged")'
      /\ \A v \in Request : Delivered(v)' = Delivered(v)
  <2>1. CASE pull' = pull
    BY <1>3, <2>1 DEF Delivered
  <2>2. CASE pull' = [pull EXCEPT ![w] = Opened(w)]
    BY <1>2, <1>3, <2>2, OpenedFacts
  <2>3. QED
    BY <1>0, <2>1, <2>2 DEF OpenPr
<1>5. \A v \in Supervised : RunMoves(v)
  BY <1>1, <1>4, SameRuns, ProviderAssumption DEF IndInv
<1>6. CallsStep
  <2>1. PICK c : c = [call[p] EXCEPT !.stage = "result"]
    OBVIOUS
  <2>2. Fields(c) /\ SameButStage(c, call[p]) /\ c.stage = "result"
    BY <1>2, <2>1, StepFacts
  <2>3. CallTyped(c)' /\ CallKnows(c)'
    BY <1>0, <1>1, <1>2, <2>2 DEF CallTyped, CallKnows, TickKnows, PhaseOf, SameButStage, Fields
  <2>4. CASE Step(p, "result")
    <3>1. call' = [call EXCEPT ![p] = c]
      BY <2>1, <2>4 DEF Step
    <3>2. QED
      BY <2>3, <3>1, ActorStep DEF IndInv, TypeInv
  <2>5. CASE Drop(p)
    BY <2>5, DropCalls
  <2>6. QED
    BY <2>4, <2>5 DEF OpenPr
<1>7. QED
  BY <1>1, <1>3, <1>4, <1>5, <1>6, PullStep

LEMMA MergeCarries ==
    ASSUME NEW c, Fields(c), c.kind = "tick", NEW m, NEW e, e = [c EXCEPT !.stage = "result"],
           NEW d, d = Overlay([merge |-> m], e)
    PROVE  Fields(d) /\ SameButStage(d, c) /\ d.stage = "result" /\ d.merge = m
<1>1. /\ DOMAIN d = {"merge"} \cup DOMAIN c
      /\ d = [x \in DOMAIN d |-> d[x]]
      /\ d["merge"] = m
      /\ \A x \in DOMAIN c \ {"merge"} : d[x] = IF x = "stage" THEN "result" ELSE c[x]
  BY DEF Overlay, Fields
<1>2. d.stage = "result" /\ d.kind = c.kind /\ d.merge = m
  BY <1>1 DEF Fields
<1>3. SameButStage(d, c)
  BY <1>1, <1>2 DEF SameButStage, Fields
<1>4. Fields(d)
  BY <1>1, <1>2 DEF Fields
<1>5. QED
  BY <1>2, <1>3, <1>4

LEMMA MergeStep ==
    ASSUME IndInv, NEW p \in Process, Merge(p)
    PROVE  IndInv'
<1>0. PICK w : w = call[p].work
  OBVIOUS
<1>1. /\ UNCHANGED <<clock, reg, reconciled, branch, issue, green, comments, answers, run>>
      /\ At(p, "merge") /\ call[p] # None /\ call[p].kind = "tick" /\ call[p].stage = "merge"
  BY StageFacts DEF Merge, At
<1>2. /\ w \in Supervised /\ w \in Request /\ call[p].base \in Nat /\ Fields(call[p])
      /\ call[p].phase = "MERGE" /\ <<w, run[w].subject>> \in green
      /\ Rank(call[p].phase) <= Rank(run[w].phase)
  BY <1>0, <1>1, CallFacts, ProviderAssumption DEF PhaseOf, TickKnows
<1>3. SharedTyped /\ main \in Nat /\ run \in [Supervised -> Runs]
      /\ pull \in [Request -> Pulls \cup {None}]
  BY <1>2 DEF IndInv, TypeInv, SharedTyped
<1>4. Rank(run[w].phase) >= 4
  BY <1>2, RankTyped DEF Rank
<1>5. CASE /\ Mergeable(w) /\ pull[w].head = run[w].subject
           /\ Merged(w) /\ Carry(p, "result", [merge |-> main + 1])
  <2>1. /\ main' = main + 1 /\ pull' \in [Request -> Pulls \cup {None}]
        /\ \A v \in Request : pull'[v] = pull[v] \/ (PullIs(v, "merged")' => <<v, pull'[v].head>> \in green)
        /\ Delivered(w)' /\ \A v \in Request : v # w => Delivered(v)' = Delivered(v)
    BY <1>2, <1>3, <1>5, MergedFacts DEF Mergeable
  <2>2. main' \in Nat /\ main <= main' /\ main < main' /\ main + 1 \in Nat
    BY <1>3, <2>1
  <2>3. Past(w)'
    BY <2>1 DEF Past
  <2>4. \A v \in Supervised : RunMoves(v)
    <3>1. ASSUME NEW v \in Supervised, v # w PROVE RunMoves(v)
      <4>1. Past(v)' = Past(v) /\ Rank(run[v].phase) \in Nat
        BY <1>1, <2>1, <3>1, RankTyped, ProviderAssumption DEF Past
      <4>2. Rank(run[v].phase) >= 5 => Past(v)
        BY DEF RunsOK, IndInv
      <4>3. QED
        BY <1>1, <4>1, <4>2 DEF RunMoves
    <3>2. RunMoves(w)
      BY <1>1, <1>4, <2>2, <2>3, RankTyped DEF RunMoves
    <3>3. QED
      BY <3>1, <3>2
  <2>5. PICK e, d : e = [call[p] EXCEPT !.stage = "result"] /\ d = Overlay([merge |-> main + 1], e)
    OBVIOUS
  <2>6. Fields(d) /\ SameButStage(d, call[p]) /\ d.stage = "result" /\ d.merge = main + 1
    <3>1. Fields(call[p]) /\ call[p].kind = "tick" /\ e = [call[p] EXCEPT !.stage = "result"]
          /\ d = Overlay([merge |-> main + 1], e)
      BY <1>1, <1>2, <2>5
    <3>2. QED
      BY <3>1, MergeCarries
  <2>7. CallTyped(d)'
    BY <1>0, <1>1, <1>2, <2>6 DEF CallTyped, PhaseOf, SameButStage, Fields
  <2>8. CallKnows(d)'
    BY <1>0, <1>1, <1>2, <2>2, <2>3, <2>6 DEF CallKnows, TickKnows, SameButStage
  <2>9. CallsStep
    <3>1. call' = [call EXCEPT ![p] = d]
      BY <1>5, <2>5 DEF Carry, Goto
    <3>2. QED
      BY <2>7, <2>8, <3>1, ActorStep DEF IndInv, TypeInv
  <2>10. QED
    BY <1>1, <1>3, <2>1, <2>2, <2>4, <2>9, PullStep
<1>6. CASE UNCHANGED <<main, pull>> /\ Drop(p)
  <2>1. CallsStep /\ main <= main
    BY <1>3, <1>6, DropCalls
  <2>2. QED
    BY <1>1, <1>3, <1>6, <2>1, SamePulls, PullStep DEF IndInv
<1>7. QED
  BY <1>0, <1>1, <1>5, <1>6 DEF Merge

LEMMA RereadCleanupStep ==
    ASSUME IndInv, NEW p \in Process, RereadCleanup(p)
    PROVE  IndInv'
<1>1. /\ UNCHANGED <<provider, run>> /\ answers' = answers
      /\ At(p, "close") /\ call[p] # None /\ call[p].kind = "tick" /\ call[p].stage = "close"
  BY StageFacts DEF RereadCleanup, At
<1>2. /\ call[p].work \in Supervised /\ call[p].base \in Nat /\ TickKnows(call[p]) /\ Fields(call[p])
      /\ call[p].phase = "CLEANUP"
  BY <1>1, CallFacts DEF PhaseOf
<1>3. CASE Proceed(p, "closing")
  <2>1. PICK c : /\ c = Proceeding(call[p], "closing")
                 /\ call' = [call EXCEPT ![p] = c]
    BY <1>3 DEF Proceed, Proceeding, Goto
  <2>2. Fields(c) /\ SameButStage(c, call[p]) /\ c.stage = "closing"
    BY <1>1, <2>1, ProceedFacts
  <2>3. CallTyped(c) /\ CallKnows(c)
    BY <1>1, <1>2, <2>2 DEF CallTyped, CallKnows, TickKnows, PhaseOf, SameButStage
  <2>4. QED
    BY <1>1, <2>1, <2>3, QuietCall
<1>4. CASE Drop(p)
  BY <1>1, <1>4, QuietDrop
<1>5. QED
  BY <1>3, <1>4 DEF RereadCleanup

LEMMA CloseIssueStep ==
    ASSUME IndInv, NEW p \in Process, CloseIssue(p)
    PROVE  IndInv'
<1>0. PICK w : w = call[p].work
  OBVIOUS
<1>1. /\ UNCHANGED <<main, clock, reg, reconciled, branch, pull, green, comments, answers, run>>
      /\ At(p, "closing") /\ call[p] # None /\ call[p].kind = "tick" /\ call[p].stage = "closing"
      /\ Closed(w) /\ Step(p, "result")
  BY <1>0, StageFacts DEF CloseIssue, At
<1>2. /\ w \in Supervised /\ w \in Request /\ call[p].base \in Nat /\ Fields(call[p])
      /\ call[p].phase = "CLEANUP" /\ Own(w) = {} /\ Rank(call[p].phase) <= Rank(run[w].phase)
  BY <1>0, <1>1, CallFacts, ProviderAssumption DEF PhaseOf, TickKnows
<1>3. SharedTyped /\ main \in Nat /\ main <= main /\ issue \in [Request -> {"open", "closed"}]
  BY <1>2 DEF IndInv, TypeInv, SharedTyped
<1>4. Past(w)
  <2>1. Rank(run[w].phase) >= 5
    BY <1>2, RankTyped DEF Rank
  <2>2. QED
    BY <1>2, <2>1 DEF RunsOK, IndInv
<1>5. issue' \in [Request -> {"open", "closed"}] /\ \A v \in Supervised : v # w => issue'[v] = issue[v]
  BY <1>1, <1>2, <1>3, ProviderAssumption DEF Closed
<1>6. ClosedIsOver'
  <2>1. \A v \in Supervised : Own(v)' = Own(v) /\ Past(v)' = Past(v)
    BY <1>1 DEF Own, Past, Delivered
  <2>2. QED
    BY <1>2, <1>4, <1>5, <2>1 DEF IndInv, ClosedIsOver
<1>7. SharedTyped' /\ MergedWasChecked'
  BY <1>1, <1>3, <1>5 DEF SharedTyped, IndInv, MergedWasChecked, PullIs
<1>8. CallsStep
  <2>1. PICK c : c = [call[p] EXCEPT !.stage = "result"]
    OBVIOUS
  <2>2. Fields(c) /\ SameButStage(c, call[p]) /\ c.stage = "result"
    BY <1>2, <2>1, StepFacts
  <2>3. CallTyped(c)' /\ CallKnows(c)'
    BY <1>0, <1>1, <1>2, <2>2 DEF CallTyped, CallKnows, TickKnows, PhaseOf, SameButStage, Fields
  <2>4. call' = [call EXCEPT ![p] = c]
    BY <1>1, <2>1 DEF Step
  <2>5. QED
    BY <2>3, <2>4, ActorStep DEF IndInv, TypeInv
<1>9. QED
  BY <1>1, <1>3, <1>6, <1>7, <1>8, SamePulls, SameBranches, WorldStep DEF IndInv

LEMMA ResultStep ==
    ASSUME IndInv, NEW p \in Process, Result(p)
    PROVE  IndInv'
<1>0. PICK w, f, to : /\ w = call[p].work /\ to = NextPhase(call[p].phase)
                      /\ f = IF call[p].phase = "MERGE" THEN [run[w] EXCEPT !.delivery = call[p].merge]
                             ELSE run[w]
  OBVIOUS
<1>1. /\ UNCHANGED <<provider, answers>> /\ call[p] # None /\ call[p].stage = "result"
      /\ call[p].kind = "tick" /\ Drop(p) /\ Journal(p, to, f)
  BY <1>0, StageFacts DEF Result, At
<1>2. /\ w \in Supervised /\ call[p].phase \in {"OPEN_PR", "MERGE", "CLEANUP"}
      /\ Rank(call[p].phase) <= Rank(run[w].phase)
      /\ call[p].phase = "MERGE" => call[p].merge \in Nat /\ Past(w)
  BY <1>0, <1>1, CallFacts DEF PhaseOf, TickKnows
<1>3. SharedTyped /\ main \in Nat /\ main <= main /\ run \in [Supervised -> Runs] /\ run[w] \in Runs
  BY <1>2 DEF IndInv, TypeInv, SharedTyped
<1>4. f \in Runs /\ f.subject = run[w].subject
  <2>1. CASE call[p].phase = "MERGE"
    <3>1. f = [run[w] EXCEPT !.delivery = call[p].merge]
      BY <1>0, <2>1
    <3>2. QED
      BY <1>2, <1>3, <2>1, <3>1 DEF Runs
  <2>2. CASE call[p].phase # "MERGE"
    BY <1>0, <1>3, <2>2
  <2>3. QED
    BY <2>1, <2>2
<1>5. to \in Phases /\ Rank(call[p].phase) <= Rank(to) /\ (call[p].phase = "OPEN_PR" => Rank(to) = 4)
  BY <1>0, <1>2 DEF NextPhase, Phases, Rank
<1>6. /\ run' \in [Supervised -> Runs]
      /\ \A v \in Supervised : /\ Rank(run[v].phase) <= Rank(run'[v].phase)
                               /\ run'[v].subject = run[v].subject
                               /\ v # w => run'[v] = run[v]
      /\ IF run[w].phase = call[p].phase THEN run'[w].phase = to ELSE run' = run
  BY <1>0, <1>1, <1>2, <1>3, <1>4, <1>5, JournalFacts
<1>7. run' = run \/ Rank(run'[w].phase) <= 4 \/ Past(w)
  <2>1. call[p].phase = "CLEANUP" => Past(w)
    <3> HAVE call[p].phase = "CLEANUP"
    <3>1. Rank(run[w].phase) >= 5
      BY <1>2, RankTyped DEF Rank
    <3>2. QED
      BY <1>2, <3>1 DEF RunsOK, IndInv
  <2>2. QED
    BY <1>2, <1>5, <1>6, <2>1, RankTyped
<1>8. \A v \in Supervised : RunMoves(v)
  BY <1>1, <1>2, <1>3, <1>6, <1>7, RecordedMoves DEF IndInv, provider
<1>9. SharedTyped' /\ MergedWasChecked' /\ CallsStep
  BY <1>1, <1>6, DropCalls DEF provider, IndInv, TypeInv, SharedTyped, MergedWasChecked, PullIs
<1>10. QED
  BY <1>1, <1>3, <1>8, <1>9, SameBranches, WorldStep DEF provider

(* Requests.                                                                *)
LEMMA PostStep ==
    ASSUME IndInv, NEW kind \in Kinds_, NEW w \in Request, Post(kind, w)
    PROVE  IndInv'
<1>0. PICK i : i = CHOOSE k \in Active(reg) : TRUE
  OBVIOUS
<1>1. PICK base : base = IF kind = "claim" THEN main ELSE reg.leases[i].base
  OBVIOUS
<1>2. PICK r : r = [kind |-> kind, work |-> w, main |-> main, base |-> base,
                    revision |-> reg.revision,
                    lease |-> IF kind = "claim" THEN 0 ELSE i,
                    seen |-> IF kind = "claim" THEN None ELSE reg.leases[i],
                    head |-> HeadOf(w)]
  OBVIOUS
<1>3. /\ UNCHANGED <<main, clock, reg, reconciled, branch, pull, issue, green, answers, run, call>>
      /\ comments' = Append(comments, r)
      /\ kind = "claim" => w \notin Supervised
      /\ kind # "claim" => Active(reg) # {} /\ branch[w] # None
  BY <1>0, <1>1, <1>2, Zenon DEF Post
<1>4. /\ SharedTyped /\ main \in Nat /\ reg.revision \in Nat /\ comments \in Seq(Comment)
      /\ reg \in Registry /\ HeadOf(w) \in History \cup {None}
  BY HeadTyped DEF IndInv, TypeInv, SharedTyped, Registry
<1>5. kind # "claim" => /\ i \in DOMAIN reg.leases /\ i \in Nat /\ reg.leases[i] \in Lease
                        /\ reg.leases[i].base \in Nat /\ HeadOf(w) \in History
  <2> HAVE kind # "claim"
  <2>1. i \in Active(reg)
    BY <1>0, <1>3
  <2>2. i \in DOMAIN reg.leases /\ i \in Nat /\ reg.leases[i] \in Lease
    BY <1>4, <2>1 DEF Active, Registry
  <2>3. QED
    BY <1>3, <1>4, <2>2, HeadTyped DEF Lease
<1>6. /\ r.kind = kind /\ r.work = w /\ r.main = main /\ r.base = base /\ r.revision = reg.revision
      /\ r.lease = (IF kind = "claim" THEN 0 ELSE i) /\ r.head = HeadOf(w)
      /\ r.seen = (IF kind = "claim" THEN None ELSE reg.leases[i])
  BY <1>2
<1>7. r \in Comment
  <2>1. /\ base \in Nat /\ (IF kind = "claim" THEN 0 ELSE i) \in Nat
        /\ (IF kind = "claim" THEN None ELSE reg.leases[i]) \in Lease \cup {None}
    BY <1>1, <1>4, <1>5
  <2>2. QED
    BY <1>2, <1>4, <2>1 DEF Comment
<1>8. /\ comments' \in Seq(Comment) /\ DOMAIN comments' = DOMAIN comments \cup {Len(comments) + 1}
      /\ comments'[Len(comments) + 1] = r /\ \A n \in DOMAIN comments : comments'[n] = comments[n]
  BY <1>3, <1>4, <1>7
<1>9. RequestOK(r)'
  BY <1>3, <1>4, <1>5, <1>6, PrefixOfSelf DEF RequestOK, HeadOf
<1>10. Grow
  <2>1. RegGrows /\ RunGrows
    BY <1>3, <1>4, SamePulls DEF RegGrows, RunGrows, Own, IndInv
  <2>2. QED
    BY <1>3, <1>4, <1>8, <2>1 DEF Grow, CommentsGrow
<1>11. SharedTyped' /\ SoleHolder' /\ CallsStep /\ BranchGrows /\ ProjectionsTrusted'
  BY <1>3, <1>8, SameCalls, SameBranches DEF IndInv, TypeInv, SharedTyped, SoleHolder
<1>12. ClosedIsOver' /\ MergedWasChecked'
  BY <1>3, <1>10, <1>11, ClosedStays DEF IndInv, MergedWasChecked, PullIs
<1>13. \A n \in DOMAIN comments' \ DOMAIN comments : RequestOK(comments[n])'
  BY <1>8, <1>9 DEF RequestOK, HeadOf
<1>14. QED
  BY <1>3, <1>10, <1>11, <1>12, <1>13, Assemble DEF Globals

-----------------------------------------------------------------------------
(* The invariant.                                                           *)
LEMMA InitHolds == Init => IndInv
<1> SUFFICES ASSUME Init PROVE IndInv
  OBVIOUS
<1>1. /\ reg \in Registry /\ Active(reg) = {}
  BY DEF Init, EmptyRegistry, Registry, Active
<1>2. \A p \in Process : Idle(p)
  BY DEF Init, Idle
<1>3. \A w \in Request : branch[w] = None /\ pull[w] = None
  BY DEF Init
<1>4. comments = <<>> /\ answers = {} /\ DOMAIN comments = {}
  BY DEF Init
<1>5. issue \in [Request -> {"open", "closed"}]
  BY DEF Init
<1>6. run \in [Supervised -> Runs]
  BY DEF Init, Runs, Phases
<1>7. TypeInv
  BY <1>1, <1>2, <1>5, <1>6 DEF Init, TypeInv, SharedTyped, CallsTyped
<1>8. ClosedIsOver /\ RunsOK
  BY <1>1, <1>5, ProviderAssumption DEF Init, ClosedIsOver, RunsOK, Past, Delivered, Rank, Own, Open
<1>9. CallsKnow /\ RequestsOK /\ SoleHolder /\ AnswersOK
  BY <1>1, <1>2, <1>4 DEF CallsKnow, RequestsOK, SoleHolder, AnswersOK
<1>10. MergedWasChecked /\ ProjectionsTrusted
  BY <1>3 DEF MergedWasChecked, PullIs, ProjectionsTrusted
<1>11. QED
  BY <1>7, <1>8, <1>9, <1>10 DEF IndInv

LEMMA AdvanceHolds ==
    ASSUME IndInv, NEW p \in Process, Advance(p)
    PROVE  IndInv'
<1>1. CASE RecheckWrite(p) \/ UpdateRef(p) \/ ConfirmWrite(p)
  BY <1>1, RecheckWriteStep, UpdateRefStep, ConfirmWriteStep
<1>2. CASE RecheckRelease(p) \/ ReadRelease(p) \/ WriteRelease(p) \/ ConfirmRelease(p)
  BY <1>2, RecheckReleaseStep, ReadReleaseStep, WriteReleaseStep, ConfirmReleaseStep
<1>3. CASE HostedClaim(p)
  <2>1. PICK r : r = comments[call[p].id]
    OBVIOUS
  <2>2. call[p] # None /\ call[p].kind = "comment" /\ r.work \in Request /\ r.main \in Nat
    BY <1>3, <2>1, CallFacts, CommentFacts DEF HostedClaim, IndInv, TypeInv
  <2>3. ReadClaim(p, r.work, r.main) \/ WriteClaim(p, r.main)
    BY <1>3, <2>1 DEF HostedClaim
  <2>4. QED
    BY <2>1, <2>2, <2>3, ReadClaimStep, WriteClaimStep
<1>4. CASE TickClaim(p)
  <2>1. call[p] # None /\ call[p].kind = "tick" /\ call[p].work \in Request /\ call[p].base \in Nat
    BY <1>4, CallFacts, ProviderAssumption DEF TickClaim, Ticking
  <2>2. ReadClaim(p, call[p].work, call[p].base) \/ WriteClaim(p, call[p].base)
    BY <1>4 DEF TickClaim
  <2>3. QED
    BY <2>1, <2>2, ReadClaimStep, WriteClaimStep
<1>5. CASE ClaimBranch(p) \/ ConfirmClaim(p) \/ ClaimResult(p)
  BY <1>5, ClaimBranchStep, ConfirmClaimStep, ClaimResultStep
<1>6. CASE Heartbeat(p) \/ OpenPr(p) \/ ReadMerge(p) \/ Merge(p)
  BY <1>6, HeartbeatStep, OpenPrStep, ReadMergeStep, MergeStep
<1>7. CASE ReadCleanup(p) \/ WriteCleanup(p) \/ RereadCleanup(p) \/ CloseIssue(p) \/ Result(p)
  BY <1>7, ReadCleanupStep, WriteCleanupStep, RereadCleanupStep, CloseIssueStep, ResultStep
<1>8. QED
  BY <1>1, <1>2, <1>3, <1>4, <1>5, <1>6, <1>7 DEF Advance

LEMMA NextHolds == IndInv /\ [Next]_vars => IndInv'
<1> SUFFICES ASSUME IndInv, [Next]_vars PROVE IndInv'
  OBVIOUS
<1>1. CASE \E kind \in Kinds_, w \in Request : Post(kind, w)
  BY <1>1, PostStep
<1>2. CASE \E p \in Process, n \in DOMAIN comments :
               ExamineWrite(p, n) \/ ExamineRelease(p, n) \/ ExamineClaim(p, n)
  BY <1>2, ExamineWriteStep, ExamineReleaseStep, ExamineClaimStep
<1>3. CASE \E p \in Process, w \in Supervised : BeginClaim(p, w) \/ Authority(p, w)
  BY <1>3, BeginClaimStep, AuthorityStep
<1>4. CASE \E p \in Process : Advance(p) \/ Fail(p)
  BY <1>4, AdvanceHolds, FailStep
<1>5. CASE \E w \in Supervised : ExecuteResult(w)
  BY <1>5, ExecuteResultStep
<1>6. CASE \E w \in Request, kind \in {"source", "hand", "revert"} : Push(w, kind)
  BY <1>6, AgentPushStep
<1>7. CASE \E w \in Request : MakeBranch(w) \/ OpenByAgent(w) \/ ChecksSucceed(w) \/ MergeByHand(w)
  BY <1>7, MakeBranchStep, OpenByAgentStep, ChecksStep, MergeByHandStep
<1>8. CASE MoveMain \/ Tick
  BY <1>8, MoveMainStep, TickStep
<1>9. CASE UNCHANGED vars
  <2>1. UNCHANGED <<provider, run>> /\ answers' = answers /\ call' = call
    BY <1>9 DEF vars
  <2>2. QED
    BY <2>1, SameCalls, Quiet
<1>10. QED
  BY <1>1, <1>2, <1>3, <1>4, <1>5, <1>6, <1>7, <1>8, <1>9 DEF Next

\* Every call on its way (a tick of RuntimeSupervisor, a comment in
\* process_issue_comment_provider_ops or process_issue_comment_claim) knows at each of
\* its stages enough of the provider for its next request to be right or refused.
THEOREM DeliveryInvariant == Spec => []IndInv
BY InitHolds, NextHolds, PTL DEF Spec

\* Whatever comment is delivered, how often and beside what: an answer of the
\* gateways is true of the branch, the registry and main (_verify_replay, _applied,
\* _reconcile_replay and the readbacks of provider_ops_gateway.py and
\* provider_claim_gateway.py).
THEOREM AnswersTrue == Spec => []AnswersAreTrue
<1>1. ASSUME IndInv PROVE AnswersAreTrue
  <2>1. \A n \in DOMAIN comments : Answered(n) # {} => Done(n)
    BY <1>1 DEF Answered, IndInv, AnswersOK, AnswerOK
  <2>2. \A n \in DOMAIN comments : comments[n].kind \in Kinds_
    BY <1>1, CommentFacts DEF IndInv, TypeInv
  <2>3. AnsweredIsDone
    BY <2>1, <2>2 DEF AnsweredIsDone, Done, Writes, Releases, Kinds_
  <2>4. ReleasedAsSeen
    <3> SUFFICES ASSUME NEW n \in DOMAIN comments, "PASS" \in Answered(n), comments[n].kind \in Releases
                 PROVE  reg.leases[comments[n].lease] = [comments[n].seen EXCEPT !.status = "RELEASED"]
      BY DEF ReleasedAsSeen, Releases
    <3>1. PICK a \in answers : a[1] = n /\ a[2] = "PASS"
      BY DEF Answered
    <3>2. ReleasedSeen(comments[n])
      BY <1>1, <3>1 DEF IndInv, AnswersOK, AnswerOK
    <3>3. QED
      BY <3>2 DEF ReleasedSeen
  <2>5. QED
    BY <2>3, <2>4 DEF AnswersAreTrue
<1>2. QED
  BY <1>1, DeliveryInvariant, PTL

\* A materialization never starts from a hand edit and writes what its sources
\* generate, for every history of a branch
\* (_source_effect_with_verified_materialization_lineage).
THEOREM ProjectionsFromSources == Spec => []ProjectionsTrusted
<1>1. IndInv => ProjectionsTrusted
  BY DEF IndInv
<1>2. QED
  BY <1>1, DeliveryInvariant, PTL

\* A head that main got has its green checks, although branches move between
\* the look at the checks and the merge (merge_executor, merge_pull with sha).
THEOREM OnlyCheckedMerged == Spec => []MergedWasChecked
<1>1. IndInv => MergedWasChecked
  BY DEF IndInv
<1>2. QED
  BY <1>1, DeliveryInvariant, PTL

\* An issue is closed only when its work holds no lease (cleanup_executor).
THEOREM ClosedAfterRelease == Spec => []ClosedIsReleased
<1>1. IndInv => ClosedIsReleased
  BY DEF IndInv, ClosedIsOver, ClosedIsReleased
<1>2. QED
  BY <1>1, DeliveryInvariant, PTL
=============================================================================
