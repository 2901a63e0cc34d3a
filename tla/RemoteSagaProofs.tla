-------------------------- MODULE RemoteSagaProofs --------------------------
(***************************************************************************)
(* Proofs about RemoteSaga for any number of processes, texts, edits and   *)
(* mishaps, and about what Roadmap selects beside it, for any facts.  What *)
(* makes the saga safe against human edits is one fact: a snapshot with    *)
(* the current revision is the current issue.  With it, the classification *)
(* a call made on its snapshot holds of the issue it writes to.            *)
(***************************************************************************)
EXTENDS Roadmap, FiniteSetTheorems, TLAPS

\* A snapshot is old or exact.
SeenSound(c) == c.seen.rev <= issue.rev /\ (c.seen.rev = issue.rev => c.seen = issue)

\* Which calls reach the requests, and what a transition knows there.
StageSound(c) ==
    /\ c.stage \in {"add", "patch", "remove"} => c.op = "run"
    /\ c.stage \in UndoStages => c.op = "compensate"
    /\ c.op = "run" /\ c.stage \in WriteStages /\ ~c.wrote
           => Classify(c.original, c.seen) # "CONFLICT"

CallsSound == \A p \in Process : held[p] # Idle => SeenSound(held[p]) /\ StageSound(held[p])

IndInv == TypeOK /\ CallsSound

-----------------------------------------------------------------------------
LEMMA DesiredType == \A b \in Body : Desired(b) \in Body /\ Desired(b).text = b.text
  BY DEF Desired, Body

\* What a request does to the issue.
LEMMA EffectFacts ==
    ASSUME NEW c \in Call, c.stage \in WriteStages, NEW i \in Issue
    PROVE  /\ Effect(c.stage, c, i) \in Issue
           /\ Effect(c.stage, c, i).rev = i.rev + 1
           /\ Effect(c.stage, c, i).body =
                  IF c.stage = "patch" THEN Desired(c.original)
                  ELSE IF c.stage = "unpatch" THEN c.original ELSE i.body
<1> DEFINE s == c.stage
<1>1. s \in {"add", "patch", "remove", "unpatch", "restore", "drop"}
  BY DEF WriteStages, UndoStages
<1>2. c.original \in Body /\ Desired(c.original) \in Body
  BY DesiredType DEF Call
<1>3. CASE s = "add"
  BY <1>3 DEF Effect, Issue, Label
<1>4. CASE s = "patch"
  BY <1>2, <1>4 DEF Effect, Issue
<1>5. CASE s = "remove"
  BY <1>5 DEF Effect, Issue, Label
<1>6. CASE s = "unpatch"
  BY <1>2, <1>6 DEF Effect, Issue
<1>7. CASE s = "restore"
  BY <1>7 DEF Effect, Issue, Label
<1>8. CASE s = "drop"
  BY <1>8 DEF Effect, Issue, Label
<1>9. QED
  BY <1>1, <1>3, <1>4, <1>5, <1>6, <1>7, <1>8

\* The body of an issue that is no conflict is one of the two of the plan.
LEMMA KnownBody ==
    ASSUME NEW b, NEW i, Classify(b, i) # "CONFLICT"
    PROVE  i.body \in {b, Desired(b)}
  BY DEF Classify

\* A request is executed on an issue the call has classified, and keeps what
\* humans wrote.
LEMMA RequestFacts ==
    ASSUME IndInv, NEW p \in Process, At(p, WriteStages), ~held[p].wrote,
           Needed(held[p].stage, held[p]), Precondition(held[p])
    PROVE  /\ held[p] \in Call /\ held[p].seen = issue
           /\ held[p].op = "run" => Classify(held[p].original, issue) # "CONFLICT"
           /\ held[p].op \in {"run", "compensate"}
           /\ Effect(held[p].stage, held[p], issue) \in Issue
           /\ Effect(held[p].stage, held[p], issue).rev = issue.rev + 1
           /\ Effect(held[p].stage, held[p], issue).body.text = issue.body.text
<1> DEFINE c == held[p]
<1>1. c \in Call /\ c.stage \in WriteStages /\ SeenSound(c) /\ StageSound(c) /\ issue \in Issue
  BY DEF IndInv, CallsSound, TypeOK, At
<1>2. c.seen = issue
  BY <1>1 DEF Precondition, SeenSound
<1>3. c.op \in {"run", "compensate"}
  BY <1>1 DEF StageSound, WriteStages
<1>4. c.op = "run" => Classify(c.original, issue) # "CONFLICT"
  BY <1>1, <1>2 DEF StageSound
<1>6. Effect(c.stage, c, issue).body.text = issue.body.text
  <2>1. CASE c.stage = "patch"
    <3>1. issue.body \in {c.original, Desired(c.original)}
      BY <1>1, <1>4, <2>1, KnownBody DEF StageSound
    <3>2. c.original \in Body /\ Desired(c.original).text = c.original.text
      BY <1>1, DesiredType DEF Call
    <3>3. QED
      BY <1>1, <2>1, <3>1, <3>2, EffectFacts
  <2>2. CASE c.stage = "unpatch"
    <3>1. issue.body = Desired(c.original)
      BY <1>2, <2>2 DEF Needed
    <3>2. QED
      BY <1>1, <2>2, <3>1, EffectFacts, DesiredType DEF Call
  <2>3. CASE c.stage \notin {"patch", "unpatch"}
    BY <1>1, <2>3, EffectFacts
  <2>4. QED
    BY <2>1, <2>2, <2>3
<1>7. QED
  BY <1>1, <1>2, <1>3, <1>4, <1>6, EffectFacts

-----------------------------------------------------------------------------
\* A step of process p that leaves the issue alone and gives p a sound call.
LEMMA LocalStep ==
    ASSUME IndInv, NEW p \in Process, NEW c,
           held' = [held EXCEPT ![p] = c], UNCHANGED issue,
           c = Idle \/ (c \in Call /\ SeenSound(c) /\ StageSound(c)),
           journal' \in Saga \cup {NoJournal},
           edits' \in Nat, mishaps' \in Nat, undos' \in Nat
    PROVE  IndInv'
<1>1. TypeOK'
  BY DEF IndInv, TypeOK
<1>2. CallsSound'
  <2>1. SUFFICES ASSUME NEW q \in Process, held'[q] # Idle
                 PROVE  SeenSound(held[q])' /\ StageSound(held[q])'
    BY DEF CallsSound
  <2>2. SeenSound(held'[q]) /\ StageSound(held'[q])
    <3>1. CASE q = p
      BY <2>1, <3>1 DEF IndInv, TypeOK
    <3>2. CASE q # p
      BY <2>1, <3>2 DEF IndInv, TypeOK, CallsSound
    <3>3. QED
      BY <3>1, <3>2
  <2>3. QED
    BY <2>2 DEF SeenSound, StageSound
<1>3. QED
  BY <1>1, <1>2 DEF IndInv

\* A step that changes the issue and counts its revision; the snapshots of
\* all processes become old.
LEMMA RemoteStep ==
    ASSUME IndInv, issue' \in Issue, issue'.rev = issue.rev + 1,
           held' \in [Process -> Call \cup {Idle}],
           \A q \in Process : held'[q] # Idle =>
               /\ held[q] # Idle /\ held'[q].seen = held[q].seen
               /\ StageSound(held'[q]),
           UNCHANGED journal, edits' \in Nat, mishaps' \in Nat, undos' \in Nat
    PROVE  IndInv'
<1>1. TypeOK'
  BY DEF IndInv, TypeOK
<1>2. CallsSound'
  <2>1. SUFFICES ASSUME NEW q \in Process, held'[q] # Idle
                 PROVE  SeenSound(held[q])' /\ StageSound(held[q])'
    BY DEF CallsSound
  <2>2. held[q] \in Call /\ SeenSound(held[q])
    BY <2>1 DEF IndInv, TypeOK, CallsSound
  <2>3. held[q].seen.rev \in Nat /\ issue.rev \in Nat
    BY <2>2 DEF Call, Issue, IndInv, TypeOK
  <2>4. held'[q].seen.rev < issue'.rev
    BY <2>1, <2>2, <2>3 DEF SeenSound
  <2>5. SeenSound(held[q])'
    BY <2>1, <2>3, <2>4 DEF SeenSound
  <2>6. StageSound(held[q])'
    BY <2>1 DEF StageSound
  <2>7. QED
    BY <2>5, <2>6
<1>3. QED
  BY <1>1, <1>2 DEF IndInv

\* The call of a process inside a call.
LEMMA InCall ==
    ASSUME IndInv, NEW p \in Process, NEW stages, At(p, stages)
    PROVE  /\ held[p] \in Call /\ held[p].stage \in stages
           /\ SeenSound(held[p]) /\ StageSound(held[p])
           /\ held[p].original \in Body /\ held[p].seen \in Issue
  BY DEF IndInv, CallsSound, TypeOK, At, Call

\* The snapshot just taken is exact.
LEMMA FreshSeen == IndInv => issue \in Issue /\ issue.rev \in Nat
  BY DEF IndInv, TypeOK, Issue

\* Returning, or moving on to a stage with no request, is a sound local step.
LEMMA GoStep ==
    ASSUME IndInv, NEW p \in Process, NEW stages, At(p, stages),
           NEW stage \in {"save", "get", "begin", "verify", "finish", "error"},
           Go(p, stage) \/ Return(p), UNCHANGED issue,
           journal' \in Saga \cup {NoJournal},
           edits' \in Nat, mishaps' \in Nat, undos' \in Nat
    PROVE  IndInv'
<1>1. held[p] \in Call /\ SeenSound(held[p]) /\ StageSound(held[p])
  BY InCall
<1>2. CASE Return(p)
  <2>1. held' = [held EXCEPT ![p] = Idle]
    BY <1>2 DEF Return
  <2>2. QED
    BY <2>1, LocalStep
<1>3. CASE Go(p, stage)
  <2> DEFINE c == [held[p] EXCEPT !.stage = stage]
  <2>1. held' = [held EXCEPT ![p] = c]
    BY <1>3 DEF Go
  <2>2. c \in Call
    BY <1>1 DEF Call, RunStages
  <2>3. c.stage = stage /\ c.seen = held[p].seen /\ c.op = held[p].op
    BY <1>1 DEF Call
  <2>4. stage \notin WriteStages
    BY DEF WriteStages, UndoStages
  <2>5. SeenSound(c) /\ StageSound(c)
    BY <1>1, <2>3, <2>4 DEF SeenSound, StageSound, WriteStages
  <2>6. QED
    BY <2>1, <2>2, <2>5, LocalStep
<1>4. QED
  BY <1>2, <1>3

\* Whatever a call saves is a saga.
LEMMA SavedType ==
    ASSUME IndInv, NEW p \in Process, NEW stages, At(p, stages), NEW status \in Status,
           SaveJournal(p, status)
    PROVE  journal' \in Saga \cup {NoJournal}
  BY InCall DEF SaveJournal, Saga

LEMMA Counters == IndInv => /\ edits \in Nat /\ mishaps \in Nat /\ undos \in Nat
                            /\ journal \in Saga \cup {NoJournal}
  BY DEF IndInv, TypeOK

LEMMA BeginsStep ==
    ASSUME IndInv, NEW p \in Process, NEW op \in {"run", "dry", "compensate"},
           NEW stage \in {"load", "get"}, NEW original \in Body,
           Begins(p, op, stage, original), undos' \in Nat
    PROVE  IndInv'
<1> DEFINE c == [op |-> op, stage |-> stage, original |-> original, seen |-> issue,
                 wrote |-> FALSE]
<1>1. held' = [held EXCEPT ![p] = c] /\ UNCHANGED <<issue, journal, edits, mishaps>>
  BY DEF Begins
<1>2. c \in Call
  BY FreshSeen DEF Call, RunStages
<1>3. SeenSound(c) /\ StageSound(c)
  BY FreshSeen DEF SeenSound, StageSound, WriteStages, UndoStages
<1>4. QED
  BY <1>1, <1>2, <1>3, LocalStep, Counters

\* A call takes a snapshot and goes on; a transition that goes on to a request
\* does so only with a snapshot it knows.
LEMMA SeenStep ==
    ASSUME IndInv, NEW p \in Process, NEW stages, At(p, stages),
           NEW stage \in {"begin", "finish", "patch", "remove", "restore", "drop"},
           held' = [held EXCEPT ![p].seen = issue, ![p].wrote = FALSE, ![p].stage = stage],
           stage \in {"patch", "remove"} =>
               held[p].op = "run" /\ Classify(held[p].original, issue) # "CONFLICT",
           stage \in {"restore", "drop"} => held[p].op = "compensate",
           UNCHANGED issue, journal' \in Saga \cup {NoJournal},
           UNCHANGED <<edits, mishaps, undos>>
    PROVE  IndInv'
<1> DEFINE c == [held[p] EXCEPT !.seen = issue, !.wrote = FALSE, !.stage = stage]
<1>1. held[p] \in Call /\ StageSound(held[p])
  BY InCall
<1>2. held' = [held EXCEPT ![p] = c]
  BY DEF IndInv, TypeOK
<1>3. c \in Call
  BY <1>1, FreshSeen DEF Call, RunStages, UndoStages
<1>4. /\ c.seen = issue /\ c.stage = stage /\ c.op = held[p].op
      /\ c.original = held[p].original /\ c.wrote = FALSE
  BY <1>1 DEF Call
<1>5. SeenSound(c)
  BY <1>4, FreshSeen DEF SeenSound
<1>6. StageSound(c)
  BY <1>1, <1>4 DEF StageSound, WriteStages, UndoStages
<1>7. QED
  BY <1>2, <1>3, <1>5, <1>6, LocalStep, Counters

-----------------------------------------------------------------------------
LEMMA BeginStep == ASSUME IndInv, NEW p \in Process, Begin(p) PROVE IndInv'
<1>1. At(p, {"begin"}) /\ UNCHANGED <<issue, edits, mishaps, undos>>
  BY DEF Begin
<1>2. /\ held[p] \in Call /\ SeenSound(held[p]) /\ StageSound(held[p])
      /\ held[p].stage = "begin"
  BY <1>1, InCall
<1>3. CASE Return(p)
  <2>1. journal' \in Saga \cup {NoJournal}
    <3>1. (\E s \in Status : SaveJournal(p, s)) \/ UNCHANGED journal
      BY DEF Begin, Status
    <3>2. QED
      BY <1>1, <3>1, SavedType, Counters
  <2>2. QED
    BY <1>1, <1>3, <2>1, GoStep, Counters
<1>4. CASE ~Return(p)
  <2> DEFINE s == IF held[p].op = "run" THEN "add" ELSE "unpatch"
             c == [held[p] EXCEPT !.stage = s]
  <2>1. /\ Go(p, s) /\ held[p].op \in {"run", "compensate"}
        /\ Classify(held[p].original, held[p].seen) # "CONFLICT"
        /\ SaveJournal(p, "APPLYING") \/ UNCHANGED journal
    BY <1>4 DEF Begin
  <2>2. journal' \in Saga \cup {NoJournal}
    BY <1>1, <2>1, SavedType, Counters DEF Status
  <2>3. held' = [held EXCEPT ![p] = c] /\ c \in Call
    BY <1>2, <2>1 DEF Go, Call, RunStages, UndoStages
  <2>4. /\ c.seen = held[p].seen /\ c.stage = s /\ c.op = held[p].op
        /\ c.original = held[p].original
    BY <1>2 DEF Call
  <2>5. SeenSound(c)
    BY <1>2, <2>4 DEF SeenSound
  <2>6. StageSound(c)
    BY <1>2, <2>1, <2>4 DEF StageSound, UndoStages
  <2>7. QED
    BY <1>1, <2>2, <2>3, <2>5, <2>6, LocalStep, Counters
<1>5. QED
  BY <1>3, <1>4

LEMMA SkipStep == ASSUME IndInv, NEW p \in Process, Skip(p) PROVE IndInv'
<1> DEFINE s == NextStage(held[p].stage)
           c == [held[p] EXCEPT !.stage = s]
<1>1. At(p, WriteStages) /\ ~held[p].wrote /\ Go(p, s)
      /\ UNCHANGED <<issue, journal, edits, mishaps, undos>>
  BY DEF Skip
<1>2. held[p] \in Call /\ held[p].stage \in WriteStages /\ SeenSound(held[p]) /\ StageSound(held[p])
  BY <1>1, InCall
<1>3. /\ s \in {"patch", "remove", "restore", "drop", "verify"}
      /\ s \in {"patch", "remove"} => held[p].stage \in {"add", "patch"}
      /\ s \in {"restore", "drop"} => held[p].stage \in UndoStages
  BY <1>2 DEF NextStage, WriteStages, UndoStages
<1>4. held' = [held EXCEPT ![p] = c] /\ c \in Call
  BY <1>1, <1>2, <1>3 DEF Go, Call, RunStages, UndoStages
<1>5. /\ c.seen = held[p].seen /\ c.stage = s /\ c.op = held[p].op
      /\ c.original = held[p].original /\ c.wrote = held[p].wrote
  BY <1>2 DEF Call
<1>6. SeenSound(c)
  BY <1>2, <1>5 DEF SeenSound
<1>7. StageSound(c)
  BY <1>1, <1>2, <1>3, <1>5 DEF StageSound, UndoStages
<1>8. QED
  BY <1>1, <1>4, <1>6, <1>7, LocalStep, Counters

\* An executed request, after which the call goes on or ends in an error.
LEMMA RequestStep ==
    ASSUME IndInv, NEW p \in Process, At(p, WriteStages), ~held[p].wrote,
           Needed(held[p].stage, held[p]), Precondition(held[p]),
           issue' = Effect(held[p].stage, held[p], issue),
           \/ held' = [held EXCEPT ![p].wrote = TRUE]
           \/ held' = [held EXCEPT ![p].stage = "error"],
           UNCHANGED <<journal, edits, undos>>, mishaps' \in Nat
    PROVE  IndInv'
<1>1. held[p] \in Call /\ StageSound(held[p]) /\ held[p].stage \in WriteStages
  BY InCall
<1>2. issue' \in Issue /\ issue'.rev = issue.rev + 1
  BY RequestFacts
<1>3. PICK c : /\ held' = [held EXCEPT ![p] = c]
               /\ c \in {[held[p] EXCEPT !.wrote = TRUE], [held[p] EXCEPT !.stage = "error"]}
  OBVIOUS
<1>4. c \in Call /\ c.seen = held[p].seen /\ StageSound(c)
  <2>1. CASE c = [held[p] EXCEPT !.wrote = TRUE]
    BY <1>1, <2>1 DEF Call, StageSound
  <2>2. CASE c = [held[p] EXCEPT !.stage = "error"]
    <3>1. c \in Call /\ c.seen = held[p].seen /\ c.op = held[p].op /\ c.stage = "error"
      BY <1>1, <2>2 DEF Call
    <3>2. StageSound(c)
      BY <1>1, <3>1 DEF StageSound, WriteStages, UndoStages
    <3>3. QED
      BY <3>1, <3>2
  <2>3. QED
    BY <1>3, <2>1, <2>2
<1>5. held' \in [Process -> Call \cup {Idle}]
  BY <1>3, <1>4 DEF IndInv, TypeOK
<1>6. \A q \in Process : held'[q] # Idle =>
          held[q] # Idle /\ held'[q].seen = held[q].seen /\ StageSound(held'[q])
  BY <1>3, <1>4 DEF IndInv, TypeOK, CallsSound, At
<1>7. QED
  BY <1>2, <1>5, <1>6, RemoteStep, Counters

LEMMA RefreshStep == ASSUME IndInv, NEW p \in Process, Refresh(p) PROVE IndInv'
<1> DEFINE s == NextStage(held[p].stage)
<1>1. /\ At(p, WriteStages) /\ s # "verify" /\ UNCHANGED <<issue, edits, mishaps, undos>>
      /\ SaveJournal(p, "APPLYING") \/ UNCHANGED journal
  BY DEF Refresh
<1>2. held[p] \in Call /\ held[p].stage \in WriteStages /\ StageSound(held[p])
  BY <1>1, InCall
<1>3. journal' \in Saga \cup {NoJournal}
  BY <1>1, SavedType, Counters DEF Status
<1>4. CASE ConflictSeen(p)
  <2>1. Go(p, "error")
    BY <1>4 DEF Refresh
  <2>2. QED
    BY <1>1, <1>3, <2>1, GoStep, Counters
<1>5. CASE ~ConflictSeen(p)
  <2>1. held' = [held EXCEPT ![p].seen = issue, ![p].wrote = FALSE, ![p].stage = s]
    BY <1>5 DEF Refresh
  <2>2. /\ s \in {"patch", "remove", "restore", "drop"}
        /\ s \in {"patch", "remove"} => held[p].stage \in {"add", "patch"}
        /\ s \in {"restore", "drop"} => held[p].stage \in UndoStages
    BY <1>1, <1>2 DEF NextStage, WriteStages, UndoStages
  <2>3. s \in {"patch", "remove"} =>
            held[p].op = "run" /\ Classify(held[p].original, issue) # "CONFLICT"
    BY <1>2, <1>5, <2>2 DEF StageSound, ConflictSeen
  <2>4. s \in {"restore", "drop"} => held[p].op = "compensate"
    BY <1>2, <2>2 DEF StageSound
  <2>5. QED
    BY <1>1, <1>3, <2>1, <2>2, <2>3, <2>4, SeenStep
<1>6. QED
  BY <1>4, <1>5

LEMMA VerifyStep == ASSUME IndInv, NEW p \in Process, Verify(p) PROVE IndInv'
<1>1. PICK stages : At(p, stages)
  BY DEF Verify
<1>2. journal' \in Saga \cup {NoJournal}
  <2>1. SaveJournal(p, "APPLYING") \/ UNCHANGED journal
    BY DEF Verify
  <2>2. QED
    BY <1>1, <2>1, SavedType, Counters DEF Status
<1>3. QED
  BY <1>1, <1>2, SeenStep DEF Verify

LEMMA FirstGetStep == ASSUME IndInv, NEW p \in Process, FirstGet(p) PROVE IndInv'
<1> DEFINE c == [held[p] EXCEPT !.seen = issue, !.stage = "begin"]
<1>1. At(p, {"get"}) /\ UNCHANGED <<issue, journal, edits, mishaps, undos>>
  BY DEF FirstGet
<1>2. held[p] \in Call /\ StageSound(held[p])
  BY <1>1, InCall
<1>3. held' = [held EXCEPT ![p] = c]
  BY DEF FirstGet, IndInv, TypeOK
<1>4. c \in Call
  BY <1>2, FreshSeen DEF Call, RunStages
<1>5. c.seen = issue /\ c.stage = "begin" /\ c.op = held[p].op
  BY <1>2 DEF Call
<1>6. SeenSound(c) /\ StageSound(c)
  BY <1>2, <1>5, FreshSeen DEF SeenSound, StageSound, WriteStages, UndoStages
<1>7. QED
  BY <1>1, <1>3, <1>4, <1>6, LocalStep, Counters

LEMMA StepStep == ASSUME IndInv, NEW p \in Process, Step(p) PROVE IndInv'
<1>1. CASE LoadPlan(p)
  BY <1>1, GoStep, Counters DEF LoadPlan
<1>2. CASE SavePlan(p)
  BY <1>2, GoStep, SavedType, Counters DEF SavePlan, Status
<1>3. CASE FirstGet(p)
  BY <1>3, FirstGetStep
<1>4. CASE Begin(p)
  BY <1>4, BeginStep
<1>5. CASE Skip(p)
  BY <1>5, SkipStep
<1>6. CASE Write(p)
  <2>1. CASE Precondition(held[p])
    BY <1>6, <2>1, RequestStep, Counters DEF Write
  <2>2. CASE ~Precondition(held[p])
    BY <1>6, <2>2, GoStep, Counters DEF Write
  <2>3. QED
    BY <2>1, <2>2
<1>7. CASE Refresh(p)
  BY <1>7, RefreshStep
<1>8. CASE Verify(p)
  BY <1>8, VerifyStep
<1>9. CASE Finish(p)
  <2>1. At(p, {"finish"}) /\ UNCHANGED <<issue, edits, mishaps, undos>>
    BY <1>9 DEF Finish
  <2>2. Go(p, "error") \/ Return(p)
    BY <1>9 DEF Finish
  <2>3. (\E s \in Status : SaveJournal(p, s)) \/ UNCHANGED journal
    BY <1>9 DEF Finish, Status
  <2>4. QED
    BY <2>1, <2>2, <2>3, GoStep, SavedType, Counters
<1>10. CASE RecordError(p)
  BY <1>10, GoStep, SavedType, Counters DEF RecordError, Status
<1>11. QED
  BY <1>1, <1>2, <1>3, <1>4, <1>5, <1>6, <1>7, <1>8, <1>9, <1>10 DEF Step

LEMMA FailStep == ASSUME IndInv, NEW p \in Process, RequestFails(p) PROVE IndInv'
<1>1. mishaps' \in Nat /\ UNCHANGED <<journal, edits, undos>>
  BY Counters DEF RequestFails
<1>2. CASE At(p, {"get"}) /\ Return(p) /\ UNCHANGED issue
  BY <1>1, <1>2, GoStep, Counters
<1>3. CASE At(p, WriteStages \cup {"verify"}) /\ Go(p, "error") /\ UNCHANGED issue
  BY <1>1, <1>3, GoStep, Counters
<1>4. CASE /\ At(p, WriteStages) /\ ~held[p].wrote /\ Needed(held[p].stage, held[p])
           /\ Precondition(held[p])
           /\ issue' = Effect(held[p].stage, held[p], issue)
           /\ Go(p, "error")
  BY <1>1, <1>4, RequestStep DEF Go
<1>5. QED
  BY <1>2, <1>3, <1>4 DEF RequestFails

LEMMA EditStep ==
    ASSUME IndInv, NEW l \in SUBSET Label, NEW b \in Body, Edit(l, b) PROVE IndInv'
<1>1. issue' \in Issue /\ issue'.rev = issue.rev + 1
  BY FreshSeen DEF Edit, Issue
<1>2. UNCHANGED <<journal, held, mishaps, undos>> /\ edits' \in Nat
  BY Counters DEF Edit
<1>3. \A q \in Process : held'[q] # Idle =>
          held[q] # Idle /\ held'[q].seen = held[q].seen /\ StageSound(held'[q])
  BY <1>2 DEF IndInv, CallsSound
<1>4. held' \in [Process -> Call \cup {Idle}]
  BY <1>2 DEF IndInv, TypeOK
<1>5. QED
  BY <1>1, <1>2, <1>3, <1>4, RemoteStep, Counters

LEMMA InvStep == IndInv /\ [Next]_vars => IndInv'
<1> SUFFICES ASSUME IndInv, [Next]_vars PROVE IndInv'
  OBVIOUS
<1>0. issue.body \in Body /\ (journal # NoJournal => journal.original \in Body)
  BY DEF IndInv, TypeOK, Issue, Saga
<1>1. ASSUME NEW p \in Process, SetLabel(p) PROVE IndInv'
  BY <1>0, <1>1, BeginsStep, Counters DEF SetLabel
<1>2. ASSUME NEW p \in Process, NEW op \in {"run", "dry"}, Rerun(p, op) PROVE IndInv'
  BY <1>0, <1>2, BeginsStep, Counters DEF Rerun
<1>3. ASSUME NEW p \in Process, Compensate(p) PROVE IndInv'
  <2>1. undos' \in Nat /\ journal.original \in Body
    BY <1>0, <1>3, Counters DEF Compensate
  <2>2. QED
    BY <1>3, <2>1, BeginsStep DEF Compensate
<1>4. ASSUME NEW p \in Process, Step(p) PROVE IndInv'
  BY <1>4, StepStep
<1>5. ASSUME NEW p \in Process, RequestFails(p) PROVE IndInv'
  BY <1>5, FailStep
<1>6. ASSUME NEW p \in Process, Crash(p) PROVE IndInv'
  <2>1. held' = [held EXCEPT ![p] = Idle] /\ UNCHANGED <<issue, journal, edits, undos>>
    BY <1>6 DEF Crash, Return
  <2>2. mishaps' \in Nat
    BY <1>6, Counters DEF Crash
  <2>3. QED
    BY <2>1, <2>2, LocalStep, Counters
<1>7. ASSUME NEW l \in SUBSET Label, NEW b \in Body, Edit(l, b) PROVE IndInv'
  BY <1>7, EditStep
<1>8. CASE UNCHANGED vars
  BY <1>8 DEF vars, IndInv, TypeOK, CallsSound, SeenSound, StageSound
<1>9. QED
  BY <1>1, <1>2, <1>3, <1>4, <1>5, <1>6, <1>7, <1>8 DEF Next

LEMMA InvHolds == Spec => []IndInv
<1>1. Init => IndInv
  <2>1. Init => TypeOK
    BY DEF Init, TypeOK, Issue, Body, Label
  <2>2. Init => CallsSound
    BY DEF Init, CallsSound
  <2>3. QED
    BY <2>1, <2>2 DEF IndInv
<1>2. QED
  BY <1>1, InvStep, PTL DEF Spec

\* The issue, the journal and every call have their types, for any number of
\* processes, edits and mishaps.
THEOREM SagaTypeCorrect == Spec => []TypeOK
<1>1. IndInv => TypeOK
  BY DEF IndInv
<1>2. QED
  BY <1>1, InvHolds, PTL

\* Only an executed request or a human changes the issue.
LEMMA WhoChangesIssue ==
    ASSUME IndInv, [Next]_vars, issue' # issue
    PROVE  \/ edits' # edits /\ UNCHANGED held
           \/ \E p \in Process :
                 /\ At(p, WriteStages) /\ ~held[p].wrote
                 /\ Needed(held[p].stage, held[p]) /\ Precondition(held[p])
                 /\ issue' = Effect(held[p].stage, held[p], issue)
                 /\ \A q \in Process : q # p => held'[q] = held[q]
<1>1. ASSUME NEW p \in Process, SetLabel(p) \/ (\E op \in {"run", "dry"} : Rerun(p, op))
                                \/ Compensate(p) \/ Crash(p)
      PROVE  FALSE
  BY <1>1 DEF SetLabel, Rerun, Compensate, Crash, Begins
<1>2. ASSUME NEW p \in Process, Step(p) PROVE Write(p)
  BY <1>2 DEF Step, LoadPlan, SavePlan, FirstGet, Begin, Skip, Refresh, Verify, Finish,
              RecordError
<1>3. ASSUME NEW p \in Process, Write(p) \/ RequestFails(p)
      PROVE  /\ At(p, WriteStages) /\ ~held[p].wrote
             /\ Needed(held[p].stage, held[p]) /\ Precondition(held[p])
             /\ issue' = Effect(held[p].stage, held[p], issue)
             /\ \A q \in Process : q # p => held'[q] = held[q]
  BY <1>3 DEF Write, RequestFails, Go, Return, IndInv, TypeOK
<1>4. ASSUME NEW l \in SUBSET Label, NEW b \in Body, Edit(l, b)
      PROVE  edits' # edits /\ UNCHANGED held
  BY <1>4, Counters DEF Edit
<1>5. QED
  BY <1>1, <1>2, <1>3, <1>4 DEF Next, vars

\* No request of a saga overwrites what a human wrote outside the marker,
\* transitions and compensations alike (If-Match and the body checks).
THEOREM HumanTextSurvives == Spec => HumanTextKept
<1>1. IndInv /\ [Next]_vars => (edits' = edits => issue'.body.text = issue.body.text)
  <2> SUFFICES ASSUME IndInv, [Next]_vars, edits' = edits, issue' # issue
               PROVE  issue'.body.text = issue.body.text
    OBVIOUS
  <2>1. PICK p \in Process :
           /\ At(p, WriteStages) /\ ~held[p].wrote
           /\ Needed(held[p].stage, held[p]) /\ Precondition(held[p])
           /\ issue' = Effect(held[p].stage, held[p], issue)
    BY WhoChangesIssue
  <2>2. QED
    BY <2>1, RequestFacts
<1>2. QED
  BY <1>1, InvHolds, PTL DEF Spec, HumanTextKept

\* No request of a transition is executed on an issue that it takes for a
\* conflict (run_transition classifies before every request).
THEOREM UnknownIsLeftAlone == Spec => UnknownNeverMutated
<1>1. IndInv /\ [Next]_vars =>
        \A p \in Process :
            /\ held[p] # Idle /\ held[p].op = "run"
            /\ held'[p] # held[p] /\ issue' # issue
            => Classify(held[p].original, issue) # "CONFLICT"
  <2> SUFFICES ASSUME IndInv, [Next]_vars, NEW p \in Process, held[p] # Idle,
                      held[p].op = "run", held'[p] # held[p], issue' # issue
               PROVE  Classify(held[p].original, issue) # "CONFLICT"
    OBVIOUS
  <2>1. /\ At(p, WriteStages) /\ ~held[p].wrote
        /\ Needed(held[p].stage, held[p]) /\ Precondition(held[p])
    BY WhoChangesIssue
  <2>2. QED
    BY <2>1, RequestFacts
<1>2. QED
  BY <1>1, InvHolds, PTL DEF Spec, UnknownNeverMutated
-----------------------------------------------------------------------------
\* What the transitions leave behind while nobody interferes: one plan for the body
\* found at the start, an issue it can resume, and the new label where a call is past
\* adding it, wrote anything or saw it.
LabelKept(c) ==
    c.stage \in {"patch", "remove"} \/ c.wrote \/ "target" \in c.seen.labels
        => "target" \in issue.labels

OwnCall(c, original) == c.original = original /\ c.op # "compensate" /\ LabelKept(c)

OwnPlan(original) ==
    /\ original.marker = "from"
    /\ Classify(original, issue) # "CONFLICT"
    /\ journal # NoJournal => journal.original = original
    /\ \A p \in Process : held[p] # Idle => OwnCall(held[p], original)

OwnInv == edits = 0 /\ undos = 0 => \E original \in Body : OwnPlan(original)

\* A step of process p that leaves the issue alone, keeps the plan of the call and
\* saves no other plan.
LEMMA OwnLocal ==
    ASSUME IndInv, NEW original \in Body, OwnPlan(original), NEW p \in Process, NEW c,
           UNCHANGED issue, held' = [held EXCEPT ![p] = c],
           c = Idle \/ OwnCall(c, original),
           journal' = journal \/ journal'.original = original
    PROVE  OwnPlan(original)'
<1>1. ASSUME NEW q \in Process, held'[q] # Idle PROVE OwnCall(held'[q], original)
  BY <1>1 DEF IndInv, TypeOK, OwnPlan
<1>2. \A q \in Process : held'[q] # Idle => OwnCall(held[q], original)'
  BY <1>1 DEF OwnCall, LabelKept
<1>3. Classify(original, issue)' # "CONFLICT"
  BY DEF OwnPlan
<1>4. QED
  BY <1>2, <1>3 DEF OwnPlan

\* A call that keeps its plan and moves on; the new label is required again
\* where the new stage needs it.
LEMMA OwnGoes ==
    ASSUME IndInv, NEW original \in Body, OwnPlan(original), NEW p \in Process,
           held[p] # Idle, UNCHANGED issue,
           NEW c, c \in Call, held' = [held EXCEPT ![p] = c],
           c.op = held[p].op, c.original = held[p].original,
           c.seen \in {held[p].seen, issue},
           c.stage \in {"patch", "remove"} =>
               held[p].stage \in {"patch", "remove"} \/ "target" \in issue.labels,
           c.wrote => held[p].wrote,
           journal' = journal \/ journal'.original = held[p].original
    PROVE  OwnPlan(original)'
<1>1. OwnCall(held[p], original)
  BY DEF OwnPlan
<1>2. OwnCall(c, original)
  BY <1>1 DEF OwnCall, LabelKept
<1>3. journal' = journal \/ journal'.original = original
  BY <1>1 DEF OwnCall
<1>4. QED
  BY <1>2, <1>3, OwnLocal

LEMMA OwnGo ==
    ASSUME IndInv, NEW original \in Body, OwnPlan(original), NEW p \in Process,
           NEW stages, At(p, stages), UNCHANGED issue,
           NEW stage \in RunStages \cup UndoStages \cup {"verify", "finish", "error"},
           Go(p, stage) \/ Return(p),
           stage \in {"patch", "remove"} =>
               held[p].stage \in {"patch", "remove"} \/ "target" \in issue.labels,
           journal' = journal \/ journal'.original = held[p].original
    PROVE  OwnPlan(original)'
<1>1. held[p] \in Call /\ held[p] # Idle /\ OwnCall(held[p], original)
  BY InCall DEF At, OwnPlan
<1>2. CASE Return(p)
  BY <1>1, <1>2, OwnLocal DEF Return, OwnCall
<1>3. CASE Go(p, stage)
  <2> DEFINE c == [held[p] EXCEPT !.stage = stage]
  <2>1. /\ held' = [held EXCEPT ![p] = c] /\ c \in Call /\ c.stage = stage
        /\ c.op = held[p].op /\ c.original = held[p].original /\ c.seen = held[p].seen
        /\ c.wrote = held[p].wrote
    BY <1>1, <1>3 DEF Go, Call
  <2>2. QED
    BY <1>1, <2>1, OwnGoes
<1>4. QED
  BY <1>2, <1>3

\* What is saved carries the plan of the call.
LEMMA OwnSaves ==
    ASSUME NEW p \in Process, NEW status, SaveJournal(p, status)
    PROVE  journal'.original = held[p].original
BY DEF SaveJournal

\* A new label stays on the issue, and an issue with it is not emptied.
LEMMA OwnRequest ==
    ASSUME IndInv, NEW original \in Body, OwnPlan(original), NEW p \in Process,
           At(p, WriteStages), ~held[p].wrote,
           Needed(held[p].stage, held[p]), Precondition(held[p]),
           issue' = Effect(held[p].stage, held[p], issue),
           \/ held' = [held EXCEPT ![p].wrote = TRUE]
           \/ held' = [held EXCEPT ![p].stage = "error"],
           UNCHANGED journal
    PROVE  OwnPlan(original)'
<1> DEFINE c == held[p]
<1>1. /\ c \in Call /\ c.stage \in {"add", "patch", "remove"} /\ c.original = original
      /\ OwnCall(c, original) /\ issue \in Issue
      /\ Classify(original, issue) # "CONFLICT"
  BY InCall, FreshSeen DEF OwnPlan, OwnCall, At, StageSound, WriteStages, UndoStages
<1>2. issue.labels # {} /\ issue.labels \subseteq {"from", "target"}
      /\ issue.body \in {original, Desired(original)}
  BY <1>1 DEF Classify
<1>3. c.stage = "remove" => "target" \in issue.labels
  BY <1>1 DEF OwnCall, LabelKept
<1>4. /\ issue'.labels = (CASE c.stage = "add" -> issue.labels \cup {"target"}
                            [] c.stage = "remove" -> issue.labels \ {"from"}
                            [] OTHER -> issue.labels)
      /\ issue'.body = IF c.stage = "patch" THEN Desired(original) ELSE issue.body
  <2>1. CASE c.stage = "add"
    BY <1>1, <2>1 DEF Effect
  <2>2. CASE c.stage = "patch"
    BY <1>1, <2>2 DEF Effect
  <2>3. CASE c.stage = "remove"
    BY <1>1, <2>3 DEF Effect
  <2>4. QED
    BY <1>1, <2>1, <2>2, <2>3
<1>5. /\ issue'.labels # {} /\ issue'.labels \subseteq {"from", "target"}
      /\ issue'.body \in {original, Desired(original)}
      /\ "target" \in issue.labels => "target" \in issue'.labels
      /\ c.stage = "add" => "target" \in issue'.labels
  <2>1. CASE c.stage = "add"
    BY <1>2, <1>4, <2>1
  <2>2. CASE c.stage = "patch"
    BY <1>2, <1>4, <2>2
  <2>3. CASE c.stage = "remove"
    BY <1>2, <1>3, <1>4, <2>3
  <2>4. QED
    BY <1>1, <2>1, <2>2, <2>3
<1>6. Classify(original, issue') # "CONFLICT"
  BY <1>5 DEF Classify
<1>7. ASSUME NEW q \in Process, held'[q] # Idle PROVE OwnCall(held[q], original)'
  <2>1. CASE q # p
    <3>1. held'[q] = held[q] /\ OwnCall(held[q], original)
      BY <1>7, <2>1 DEF IndInv, TypeOK, OwnPlan
    <3>2. QED
      BY <1>5, <3>1 DEF OwnCall, LabelKept
  <2>2. CASE q = p
    <3>1. held'[p] \in {[c EXCEPT !.wrote = TRUE], [c EXCEPT !.stage = "error"]}
      BY DEF IndInv, TypeOK
    <3>2. /\ held'[p].original = c.original /\ held'[p].op = c.op /\ held'[p].seen = c.seen
          /\ held'[p].stage \in {c.stage, "error"}
      BY <1>1, <3>1 DEF Call
    <3>3. LabelKept(held[p])'
      BY <1>1, <1>5, <3>2 DEF OwnCall, LabelKept
    <3>4. QED
      BY <1>1, <2>2, <3>2, <3>3 DEF OwnCall
  <2>3. QED
    BY <2>1, <2>2
<1>8. Classify(original, issue)' # "CONFLICT"
  BY <1>6 DEF Classify, Desired
<1>9. QED
  BY <1>7, <1>8 DEF OwnPlan
LEMMA OwnBegins ==
    ASSUME IndInv, NEW original \in Body, OwnPlan(original), NEW p \in Process,
           NEW op \in {"run", "dry"}, Begins(p, op, "load", original)
    PROVE  OwnPlan(original)'
<1> DEFINE c == [op |-> op, stage |-> "load", original |-> original, seen |-> issue,
                 wrote |-> FALSE]
<1>1. held' = [held EXCEPT ![p] = c] /\ UNCHANGED <<issue, journal>>
  BY DEF Begins
<1>2. OwnCall(c, original)
  BY DEF OwnCall, LabelKept
<1>3. QED
  BY <1>1, <1>2, OwnLocal

\* Reading the issue again, and going on to a stage that may need the new label.
LEMMA OwnReads ==
    ASSUME IndInv, NEW original \in Body, OwnPlan(original), NEW p \in Process,
           NEW stages, At(p, stages), UNCHANGED issue,
           NEW stage \in {"begin", "finish", "patch", "remove", "restore", "drop"},
           \/ held' = [held EXCEPT ![p].seen = issue, ![p].stage = stage]
           \/ held' = [held EXCEPT ![p].seen = issue, ![p].wrote = FALSE, ![p].stage = stage],
           stage \in {"patch", "remove"} => held[p].wrote,
           journal' = journal \/ journal'.original = held[p].original
    PROVE  OwnPlan(original)'
<1>1. held[p] \in Call /\ held[p] # Idle /\ OwnCall(held[p], original) /\ issue \in Issue
  BY InCall, FreshSeen DEF At, OwnPlan
<1>2. PICK c : /\ held' = [held EXCEPT ![p] = c]
               /\ c \in {[held[p] EXCEPT !.seen = issue, !.stage = stage],
                         [held[p] EXCEPT !.seen = issue, !.wrote = FALSE, !.stage = stage]}
  BY DEF IndInv, TypeOK
<1>3. /\ c \in Call /\ c.stage = stage /\ c.op = held[p].op
      /\ c.original = held[p].original /\ c.seen = issue
      /\ c.wrote => held[p].wrote
  BY <1>1, <1>2 DEF Call, RunStages, UndoStages
<1>4. stage \in {"patch", "remove"} =>
          held[p].stage \in {"patch", "remove"} \/ "target" \in issue.labels
  BY <1>1 DEF OwnCall, LabelKept
<1>5. QED
  BY <1>1, <1>2, <1>3, <1>4, OwnGoes

LEMMA OwnStep ==
    ASSUME IndInv, NEW original \in Body, OwnPlan(original), NEW p \in Process, Step(p)
    PROVE  OwnPlan(original)'
<1>0. /\ held[p] # Idle => held[p] \in Call /\ StageSound(held[p]) /\ OwnCall(held[p], original)
  BY DEF IndInv, TypeOK, CallsSound, OwnPlan
<1>1. CASE LoadPlan(p)
  BY <1>1, OwnGo DEF LoadPlan, RunStages
<1>2. CASE SavePlan(p)
  BY <1>2, OwnGo, OwnSaves DEF SavePlan, RunStages
<1>3. CASE FirstGet(p)
  BY <1>3, OwnReads DEF FirstGet
<1>4. CASE Begin(p)
  <2>1. At(p, {"begin"}) /\ UNCHANGED issue /\ held[p].op # "compensate"
    BY <1>0, <1>4 DEF Begin, OwnCall, At
  <2>2. journal' = journal \/ journal'.original = held[p].original
    BY <1>4, OwnSaves DEF Begin
  <2>3. CASE Return(p)
    BY <2>1, <2>2, <2>3, OwnGo DEF RunStages
  <2>4. CASE ~Return(p)
    <3> DEFINE c == [held[p] EXCEPT !.stage = "add"]
    <3>1. held' = [held EXCEPT ![p] = c]
      <4>1. Go(p, "add")
        BY <1>4, <2>1, <2>4 DEF Begin
      <4>2. QED
        BY <4>1 DEF Go
    <3>2. /\ c.stage = "add" /\ c.seen = held[p].seen
          /\ c.original = original /\ c.op = held[p].op /\ c.wrote = held[p].wrote
      BY <1>0, <2>1 DEF Call, At, OwnCall
    <3>3. OwnCall(c, original)
      BY <1>0, <2>1, <3>2 DEF OwnCall, LabelKept, At
    <3>4. journal' = journal \/ journal'.original = original
      BY <1>0, <2>1, <2>2 DEF OwnCall, At
    <3>5. QED
      BY <2>1, <3>1, <3>3, <3>4, OwnLocal
  <2>5. QED
    BY <2>3, <2>4
<1>5. CASE Skip(p)
  <2> DEFINE stage == NextStage(held[p].stage)
  <2>1. /\ At(p, WriteStages) /\ Go(p, stage) /\ UNCHANGED <<issue, journal>>
        /\ ~Needed(held[p].stage, held[p])
    BY <1>5 DEF Skip
  <2>2. held[p].stage \in {"add", "patch", "remove"}
    BY <1>0, <2>1 DEF At, StageSound, OwnCall, WriteStages, UndoStages
  <2>3. stage \in {"patch", "remove", "verify"}
    BY <2>2 DEF NextStage
  <2>4. held[p].stage = "add" => "target" \in issue.labels
    BY <1>0, <2>1 DEF At, OwnCall, LabelKept, Needed
  <2>5. held[p].stage = "remove" => stage = "verify"
    BY DEF NextStage
  <2>6. QED
    BY <2>1, <2>2, <2>3, <2>4, <2>5, OwnGo DEF RunStages
<1>6. CASE Write(p)
  <2>1. CASE Precondition(held[p])
    BY <1>6, <2>1, OwnRequest DEF Write
  <2>2. CASE ~Precondition(held[p])
    BY <1>6, <2>2, OwnGo DEF Write
  <2>3. QED
    BY <2>1, <2>2
<1>7. CASE Refresh(p)
  <2> DEFINE stage == NextStage(held[p].stage)
  <2>1. /\ At(p, WriteStages) /\ held[p].wrote /\ stage # "verify" /\ UNCHANGED issue
        /\ journal' = journal \/ journal'.original = held[p].original
    BY <1>7, OwnSaves DEF Refresh
  <2>2. held[p].stage \in {"add", "patch", "remove"}
    BY <1>0, <2>1 DEF At, StageSound, OwnCall, WriteStages, UndoStages
  <2>3. stage \in {"patch", "remove"}
    BY <2>1, <2>2 DEF NextStage
  <2>4. CASE ConflictSeen(p)
    BY <1>7, <2>1, <2>4, OwnGo DEF Refresh
  <2>5. CASE ~ConflictSeen(p)
    BY <1>7, <2>1, <2>2, <2>3, <2>5, OwnReads DEF Refresh
  <2>6. QED
    BY <2>4, <2>5
<1>8. CASE Verify(p)
  <2>1. PICK stages : At(p, stages)
    BY <1>8 DEF Verify
  <2>2. QED
    BY <1>8, <2>1, OwnReads, OwnSaves DEF Verify
<1>9. CASE Finish(p)
  <2>1. At(p, {"finish"}) /\ UNCHANGED issue /\ (Go(p, "error") \/ Return(p))
        /\ (journal' = journal \/ journal'.original = held[p].original)
    BY <1>9, OwnSaves DEF Finish
  <2>2. QED
    BY <2>1, OwnGo
<1>10. CASE RecordError(p)
  BY <1>10, OwnGo, OwnSaves DEF RecordError
<1>11. QED
  BY <1>1, <1>2, <1>3, <1>4, <1>5, <1>6, <1>7, <1>8, <1>9, <1>10 DEF Step

LEMMA OwnFails ==
    ASSUME IndInv, NEW original \in Body, OwnPlan(original), NEW p \in Process,
           RequestFails(p)
    PROVE  OwnPlan(original)'
<1>1. UNCHANGED journal
  BY DEF RequestFails
<1>2. CASE At(p, {"get"}) /\ Return(p) /\ UNCHANGED issue
  BY <1>1, <1>2, OwnGo
<1>3. CASE At(p, WriteStages \cup {"verify"}) /\ Go(p, "error") /\ UNCHANGED issue
  BY <1>1, <1>3, OwnGo
<1>4. CASE /\ At(p, WriteStages) /\ ~held[p].wrote /\ Needed(held[p].stage, held[p])
           /\ Precondition(held[p])
           /\ issue' = Effect(held[p].stage, held[p], issue)
           /\ Go(p, "error")
  BY <1>1, <1>4, OwnRequest DEF Go
<1>5. QED
  BY <1>2, <1>3, <1>4 DEF RequestFails

\* A plan made on the machine label of the start is the plan in force.
LEMMA OwnPlanned ==
    ASSUME IndInv, NEW original \in Body, OwnPlan(original), NEW p \in Process, SetLabel(p)
    PROVE  OwnPlan(original)'
<1>1. issue.body \in {original, Desired(original)} /\ issue.body.marker = "from"
  BY DEF OwnPlan, Classify, SetLabel
<1>2. issue.body = original
  BY <1>1 DEF Desired
<1>3. QED
  BY <1>2, OwnBegins DEF SetLabel

LEMMA OwnInvHolds == Spec => []OwnInv
<1>1. Init => OwnInv
  <2> SUFFICES ASSUME Init PROVE OwnPlan(issue.body) /\ issue.body \in Body
    BY DEF OwnInv
  <2>1. issue.labels = {"from"} /\ issue.body.marker = "from" /\ issue.body \in Body
    BY DEF Init, Body
  <2>2. Classify(issue.body, issue) # "CONFLICT"
    BY <2>1 DEF Classify
  <2>3. QED
    BY <2>1, <2>2 DEF OwnPlan, Init
<1>2. IndInv /\ OwnInv /\ [Next]_vars => OwnInv'
  <2> SUFFICES ASSUME IndInv, OwnInv, [Next]_vars, edits' = 0, undos' = 0
               PROVE  \E original \in Body : OwnPlan(original)'
    BY DEF OwnInv
  <2>1. edits \in Nat /\ undos \in Nat
    BY Counters
  <2>2. ASSUME NEW l \in SUBSET Label, NEW b \in Body, Edit(l, b) PROVE FALSE
    BY <2>1, <2>2 DEF Edit
  <2>3. ASSUME NEW p \in Process, Compensate(p) PROVE FALSE
    BY <2>1, <2>3 DEF Compensate
  <2>4. edits = 0 /\ undos = 0
    <3>1. ASSUME NEW p \in Process, SetLabel(p) \/ (\E op \in {"run", "dry"} : Rerun(p, op))
                 \/ Step(p) \/ RequestFails(p) \/ Crash(p)
          PROVE  UNCHANGED <<edits, undos>>
      BY <3>1 DEF SetLabel, Rerun, Begins, Step, LoadPlan, SavePlan, FirstGet, Begin, Skip,
                  Write, Refresh, Verify, Finish, RecordError, RequestFails, Crash
    <3>2. QED
      BY <2>2, <2>3, <3>1 DEF Next, vars
  <2>5. PICK original \in Body : OwnPlan(original)
    BY <2>4 DEF OwnInv
  <2>6. ASSUME NEW p \in Process, NEW op \in {"run", "dry"}, Rerun(p, op)
        PROVE  OwnPlan(original)'
    BY <2>5, <2>6, OwnBegins DEF Rerun, OwnPlan
  <2>7. ASSUME NEW p \in Process, Crash(p) PROVE OwnPlan(original)'
    BY <2>5, <2>7, OwnLocal DEF Crash, Return
  <2>8. ASSUME UNCHANGED vars PROVE OwnPlan(original)'
    BY <2>5, <2>8 DEF vars, OwnPlan, OwnCall, LabelKept, Classify, Desired
  <2>9. ASSUME NEW p \in Process, SetLabel(p) \/ Step(p) \/ RequestFails(p)
        PROVE  OwnPlan(original)'
    BY <2>5, <2>9, OwnPlanned, OwnStep, OwnFails
  <2>10. OwnPlan(original)'
    <3>1. CASE Next
      <4>1. ASSUME NEW p \in Process, NEW op \in {"run", "dry"}, Rerun(p, op)
            PROVE  OwnPlan(original)'
        BY <2>6, <4>1
      <4>2. QED
        BY <2>2, <2>3, <2>7, <2>9, <3>1, <4>1, Zenon DEF Next
    <3>2. QED
      BY <2>8, <3>1
  <2>11. QED
    BY <2>10
<1>3. QED
  BY <1>1, <1>2, InvHolds, PTL DEF Spec

\* As long as no human edits and nobody compensates, no crash, failed request or race
\* of transitions leaves an issue that run_transition takes for a conflict.
THEOREM TransitionsResume == Spec => []OwnStepsResumable
<1>1. OwnInv => OwnStepsResumable
  BY DEF OwnInv, OwnPlan, OwnStepsResumable
<1>2. QED
  BY <1>1, OwnInvHolds, PTL

\* A journal becomes COMMITTED or COMPENSATED only by a call that read the issue back
\* with exactly the new, or exactly the old, label and body.
THEOREM ReadbackDecides == Spec => StatusFollowsReadback
<1>1. IndInv /\ [Next]_vars =>
        \A p \in Process :
            held[p] # Idle /\ held'[p] = Idle /\ journal' # journal /\ held[p].seen = issue
            => /\ Recorded({"COMMITTED"})'   => Moved(held[p].original)
               /\ Recorded({"COMPENSATED"})' => Restored(held[p].original)
  <2> SUFFICES ASSUME IndInv, [Next]_vars, NEW p \in Process, held[p] # Idle,
                      held'[p] = Idle, journal' # journal, held[p].seen = issue
               PROVE  /\ journal'.status = "COMMITTED" => Moved(held[p].original)
                      /\ journal'.status = "COMPENSATED" => Restored(held[p].original)
    BY DEF Recorded
  <2>1. \E q \in Process : Step(q)
    BY DEF Next, vars, SetLabel, Rerun, Compensate, Begins, RequestFails, Crash, Edit
  <2>2. ASSUME NEW q \in Process, q # p PROVE ~Step(q)
    <3>1. Step(q) => held'[p] = held[p]
      BY <2>2 DEF IndInv, TypeOK, Step, LoadPlan, SavePlan, FirstGet, Begin, Skip, Write,
                  Refresh, Verify, Finish, RecordError, Go, Return
    <3>2. QED
      BY <3>1
  <2>3. Step(p)
    BY <2>1, <2>2
  <2>4. CASE Begin(p)
    BY <2>4 DEF Begin, SaveJournal, Classify, Moved
  <2>5. CASE Finish(p)
    BY <2>5 DEF Finish, SaveJournal, Classify, Moved, Restored
  <2>6. CASE ~Begin(p) /\ ~Finish(p)
    BY <2>3, <2>6 DEF Step, LoadPlan, SavePlan, FirstGet, Skip, Write, Refresh, Verify,
                      RecordError, SaveJournal
  <2>7. QED
    BY <2>4, <2>5, <2>6
<1>2. QED
  BY <1>1, InvHolds, PTL DEF Spec, StatusFollowsReadback

-----------------------------------------------------------------------------
(* The selections.  A claim needs a clean snapshot, and in a clean snapshot *)
(* an open issue with a label is an item with the one state it has.         *)

LEMMA MoveStates ==
    ASSUME NEW move \in Moves
    PROVE  move[1] \in Timed /\ move[2] \in Working /\ move[1] # move[2]
  BY DEF Moves

\* What a claim says of the queue it was made from.
LEMMA ClaimFacts ==
    ASSUME NEW queue, NEW ctx, NEW now,
           NX!AuthorizeNextAction(queue, ctx, now).action = "CLAIM_ONE_READY"
    PROVE  LET i == NX!AuthorizeNextAction(queue, ctx, now).issue
           IN  /\ ctx.control
               /\ \A k \in DOMAIN queue.issues : queue.issues[k].state \notin Working
               /\ i \in DOMAIN queue.issues /\ queue.issues[i].state = "READY"
               /\ i = "next" => /\ "past" \in DOMAIN queue.issues
                                /\ queue.issues["past"].state = "DONE"
               /\ i \in RoadmapId
<1> DEFINE o == NX!AuthorizeNextAction(queue, ctx, now)
           C == NX!Candidates(queue, ctx)
           rank == [i \in RoadmapId |-> IF i = "work" THEN 0 ELSE IF i = "next" THEN 1 ELSE 2]
<1>1. ASSUME NEW lease PROVE NX!ContinueLease(queue, lease, ctx, now).action # "CLAIM_ONE_READY"
  BY DEF NX!ContinueLease, NX!Outcome
<1>2. NX!ContinueUnfinished(queue, ctx).action # "CLAIM_ONE_READY"
  BY DEF NX!ContinueUnfinished, NX!Outcome
<1>3. /\ NX!InState(queue, NX!ActiveStates) = {}
      /\ NX!InState(queue, {"VERIFICATION", "RECOVERY"}) = {}
      /\ o = NX!ClaimReady(queue, ctx)
  <2> HIDE DEF o
  <2>1. o.action = "CLAIM_ONE_READY"
    BY DEF o
  <2>2. o.action # "RECONCILE"
    BY <2>1
  <2>3. NX!Outcome("RECONCILE", NoMarker).action = "RECONCILE"
    BY DEF NX!Outcome
  <2>4. QED
    BY <1>1, <1>2, <2>1, <2>2, <2>3 DEF o, NX!AuthorizeNextAction
<1>4. ctx.base /\ ctx.control /\ C # {} /\ o = NX!Outcome("CLAIM_ONE_READY", NX!First(C))
  <2> HIDE DEF C
  <2>1. NX!ClaimReady(queue, ctx).action = "CLAIM_ONE_READY"
    BY <1>3
  <2>2. /\ NX!Outcome("BLOCKED", NoMarker).action = "BLOCKED"
        /\ NX!Outcome("ROADMAP_COMPLETE_OR_EMPTY", NoMarker).action = "ROADMAP_COMPLETE_OR_EMPTY"
    BY DEF NX!Outcome
  <2>3. QED
    BY <1>3, <2>1, <2>2 DEF C, NX!ClaimReady
<1>5. C \subseteq RoadmapId
  BY DEF NX!Candidates, NX!Permitted
<1>6. NX!First(C) \in C
  <2> HIDE DEF C
  <2>0. C # {}
    BY <1>4
  <2>1. \E i \in C : \A j \in C : rank[i] <= rank[j]
    <3>1. CASE "work" \in C
      BY <1>5, <3>1 DEF RoadmapId
    <3>2. CASE "work" \notin C /\ "next" \in C
      BY <1>5, <3>2 DEF RoadmapId
    <3>3. CASE "work" \notin C /\ "next" \notin C
      <4>1. C = {"past"}
        BY <1>5, <2>0, <3>3 DEF RoadmapId
      <4>2. rank["past"] = 2
        BY DEF RoadmapId
      <4>3. QED
        BY <4>1, <4>2
    <3>4. QED
      BY <3>1, <3>2, <3>3
  <2>2. QED
    BY <2>1 DEF NX!First
<1>7. o.issue = NX!First(C)
  BY <1>4 DEF NX!Outcome
<1>8. /\ o.issue \in C /\ o.issue \in RoadmapId
  BY <1>5, <1>6, <1>7
<1>9. \A k \in DOMAIN queue.issues : queue.issues[k].state \notin Working
  BY <1>3 DEF NX!InState, NX!ActiveStates, Working, Timed
<1>10. /\ o.issue \in DOMAIN queue.issues /\ queue.issues[o.issue].state = "READY"
       /\ NX!Resolved(queue, o.issue)
  <2> HIDE DEF o
  <2>1. QED
    BY <1>8 DEF NX!Candidates, NX!InState
<1>11. o.issue = "next" => "past" \in DOMAIN queue.issues /\ queue.issues["past"].state = "DONE"
  <2> HIDE DEF o
  <2>1. QED
    BY <1>10 DEF NX!Resolved, RoadmapId
<1>12. QED
  BY <1>4, <1>8, <1>9, <1>10, <1>11

\* A selection that claims was made of a clean snapshot.
LEMMA SelectionFacts ==
    ASSUME NEW L, NEW f, NEW o \in {SelectLocally(Snapshot(L, f), f), SelectFromProvider(Snapshot(L, f))},
           o.action = "CLAIM_ONE_READY"
    PROVE  /\ Clean(L, Items(L), f)
           /\ \A i \in Items(L) : i.state \notin Working
           /\ \E i \in Items(L) : i.roadmap = o.issue /\ i.state = "READY"
           /\ o.issue = "next" => \E i \in Items(L) : i.roadmap = "past" /\ i.state = "DONE"
           /\ o.issue \in RoadmapId
<1> DEFINE s == Snapshot(L, f)
           issues == IssuesOf(s)
<1>1. /\ s.items = Items(L) /\ s.conflicts = ~Clean(L, Items(L), f)
      /\ s.verified = (Clean(L, Items(L), f) /\ f.cost)
  BY DEF Snapshot
<1> HIDE DEF s
<1>2. ASSUME NEW leases, NEW ctx, Clean(L, Items(L), f),
             o = NX!AuthorizeNextAction([issues |-> issues, leases |-> leases], ctx, 0)
      PROVE  /\ \A i \in Items(L) : i.state \notin Working
             /\ \E i \in Items(L) : i.roadmap = o.issue /\ i.state = "READY"
             /\ o.issue = "next" => \E i \in Items(L) : i.roadmap = "past" /\ i.state = "DONE"
             /\ o.issue \in RoadmapId
  <2> DEFINE queue == [issues |-> issues, leases |-> leases]
  <2>1. Unique(Items(L))
    BY <1>2 DEF Clean
  <2>2. /\ DOMAIN issues = {i.roadmap : i \in Items(L)}
        /\ \A i \in Items(L) : issues[i.roadmap].state = i.state
    <3>1. \A i \in Items(L) : ItemOf(s, i.roadmap) = i
      BY <1>1, <2>1 DEF ItemOf, Unique
    <3>2. QED
      BY <1>1, <3>1 DEF IssuesOf
  <2> HIDE DEF issues
  <2>3. queue.issues = issues
    OBVIOUS
  <2> HIDE DEF queue
  <2>4. o = NX!AuthorizeNextAction(queue, ctx, 0)
    BY <1>2 DEF queue
  <2>5. /\ \A k \in DOMAIN issues : issues[k].state \notin Working
        /\ o.issue \in DOMAIN issues /\ issues[o.issue].state = "READY"
        /\ o.issue = "next" => "past" \in DOMAIN issues /\ issues["past"].state = "DONE"
        /\ o.issue \in RoadmapId
    BY <2>3, <2>4, ClaimFacts
  <2>6. QED
    BY <2>2, <2>5
<1>3. CASE o = SelectLocally(s, f)
  <2> DEFINE ctx == [base |-> TRUE, control |-> ~s.conflicts /\ s.verified]
             leases == ProjectedLeases(s, f)
  <2>1. ctx.control = (~s.conflicts /\ s.verified)
    OBVIOUS
  <2> HIDE DEF ctx, leases
  <2>2. o = NX!AuthorizeNextAction([issues |-> issues, leases |-> leases], ctx, 0)
    BY <1>3 DEF SelectLocally, LocalHealth, ctx, leases
  <2>3. ctx.control
    <3> HIDE DEF issues
    <3>1. QED
      BY <2>2, ClaimFacts
  <2>4. Clean(L, Items(L), f)
    BY <1>1, <2>1, <2>3
  <2>5. QED
    BY <1>2, <2>2, <2>4
<1>4. CASE o = SelectFromProvider(s)
  <2>1. s.verified
    BY <1>4 DEF SelectFromProvider, NX!Outcome
  <2>2. Clean(L, Items(L), f)
    BY <1>1, <2>1
  <2>3. o = NX!AuthorizeNextAction([issues |-> issues, leases |-> {}],
                                    [base |-> TRUE, control |-> TRUE], 0)
    BY <1>4, <2>1 DEF SelectFromProvider
  <2>4. QED
    BY <1>2, <2>2, <2>3
<1>5. QED
  BY <1>3, <1>4 DEF s

-----------------------------------------------------------------------------
(* The listing around the issue of the saga.                                *)

SagaIssue(labels, marker, move) ==
    [number |-> 1, open |-> TRUE, states |-> {StateOfLabel(l, move) : l \in labels},
     marker |-> Marker("work", IF marker = "from" THEN move[1] ELSE move[2]),
     form |-> Form("work", {}, TRUE, FALSE)]
NextIssue(b) ==
    [number |-> 2, open |-> TRUE, states |-> {"READY"}, marker |-> NoMarker,
     form |-> Form("next", {"past"}, b.form # "unresolved", b.form = "split")]
PastIssue(n) ==
    [number |-> n, open |-> FALSE, states |-> {}, marker |-> Marker("past", "DONE"),
     form |-> Form("past", {}, TRUE, FALSE)]
TwinIssue ==
    [number |-> 5, open |-> TRUE, states |-> {"READY"}, marker |-> NoMarker,
     form |-> Form("work", {}, TRUE, FALSE)]

LEMMA Listed ==
    ASSUME NEW labels, NEW marker, NEW move, NEW b \in Backlog
    PROVE  LET L == Listing(labels, marker, move, b)
           IN  /\ SagaIssue(labels, marker, move) \in L /\ NextIssue(b) \in L
               /\ \A n \in 3 .. 2 + b.past : PastIssue(n) \in L
               /\ \A i \in L : \/ i = SagaIssue(labels, marker, move)
                               \/ i = NextIssue(b)
                               \/ \E n \in 3 .. 2 + b.past : i = PastIssue(n)
                               \/ b.twin /\ i = TwinIssue
<1> DEFINE one == SagaIssue(labels, marker, move)
           two == NextIssue(b)
<1>1. Listing(labels, marker, move, b) =
          {one, two} \cup {PastIssue(n) : n \in 3 .. 2 + b.past}
          \cup {TwinIssue : n \in IF b.twin THEN {5} ELSE {}}
  BY DEF Listing, SagaIssue, NextIssue, PastIssue, TwinIssue
<1> HIDE DEF one, two
<1>2. QED
  BY <1>1 DEF one, two

LEMMA IssueFields ==
    /\ \A labels, marker, move :
           LET i == SagaIssue(labels, marker, move)
           IN  /\ i.open /\ i.states = {StateOfLabel(l, move) : l \in labels}
               /\ i.form.roadmap = "work"
    /\ \A b : LET i == NextIssue(b)
              IN  /\ i.open /\ i.states = {"READY"} /\ i.form.roadmap = "next"
                  /\ i.form.deps = {"past"} /\ i.form.resolved = (b.form # "unresolved")
                  /\ i.form.split = (b.form = "split")
    /\ \A n : LET i == PastIssue(n)
              IN  /\ ~i.open /\ i.number = n /\ i.form.roadmap = "past" /\ i.marker # NoMarker
                  /\ i.marker.roadmap = "past" /\ i.marker.state = "DONE" /\ i.states = {}
    /\ TwinIssue.open /\ TwinIssue.form.roadmap = "work" /\ TwinIssue.states = {"READY"}
<1>1. Marker("past", "DONE") # NoMarker
  BY MarkerAssumption DEF RoadmapId, Evidenced
<1>2. Marker("past", "DONE").roadmap = "past" /\ Marker("past", "DONE").state = "DONE"
  BY DEF Marker
<1>3. QED
  BY <1>1, <1>2 DEF SagaIssue, NextIssue, PastIssue, TwinIssue, Form

\* A live issue has one state, which is the one of its item.
LEMMA LiveFacts ==
    ASSUME NEW L, NEW i \in Live(L), IsFiniteSet(i.states)
    PROVE  /\ i \in L /\ i.open
           /\ i.states = {StateOf(i)}
           /\ Item(i, StateOf(i)) \in Items(L)
<1>1. i \in L /\ i.open /\ Cardinality(i.states) = 1
  BY DEF Live
<1>2. i.states = {StateOf(i)}
  <2>1. PICK x : i.states = {x}
    BY <1>1, FS_Singleton
  <2>2. QED
    BY <2>1 DEF StateOf
<1>3. QED
  BY <1>1, <1>2 DEF Items

\* An item is a live issue, or closed evidence for what a live issue depends on.
LEMMA ItemFacts ==
    ASSUME NEW L, NEW i \in Items(L)
    PROVE  \/ \E j \in Live(L) : i.roadmap = j.form.roadmap /\ i.state = StateOf(j)
           \/ /\ i.state = "DONE"
              /\ \E j \in L, r \in Owed(Live(L)) :
                     i.roadmap = j.form.roadmap /\ EvidenceOf(L, r) = {j}
  BY DEF Items, Item

LEMMA ListedStates ==
    ASSUME NEW labels \in SUBSET Label, NEW marker, NEW move, NEW b \in Backlog,
           NEW i \in Listing(labels, marker, move, b)
    PROVE  IsFiniteSet(i.states)
<1> DEFINE states == {StateOfLabel(l, move) : l \in labels}
           all == {StateOfLabel("from", move), StateOfLabel("target", move),
                   StateOfLabel("other", move)}
<1>1. IsFiniteSet(all)
  <2>1. ASSUME NEW a, NEW b1, NEW c PROVE IsFiniteSet({a, b1, c})
    <3>1. IsFiniteSet({a} \cup {b1})
      BY FS_Singleton, FS_AddElement
    <3>2. IsFiniteSet(({a} \cup {b1}) \cup {c})
      BY <3>1, FS_AddElement
    <3>3. ({a} \cup {b1}) \cup {c} = {a, b1, c}
      OBVIOUS
    <3>4. QED
      BY <3>2, <3>3
  <2>2. QED
    BY <2>1
<1>2. IsFiniteSet(states)
  <2>1. states \subseteq all
    BY DEF Label
  <2> HIDE DEF states, all
  <2>2. QED
    BY <1>1, <2>1, FS_Subset
<1>3. IsFiniteSet({}) /\ IsFiniteSet({"READY"})
  BY FS_EmptySet, FS_Singleton
<1>4. i.states \in {states, {}, {"READY"}}
  <2> DEFINE one == SagaIssue(labels, marker, move)
  <2>1. \/ i = one \/ i = NextIssue(b)
        \/ \E n \in 3 .. 2 + b.past : i = PastIssue(n)
        \/ i = TwinIssue
    BY Listed
  <2>2. one.states = states
    BY IssueFields
  <2> HIDE DEF one, states
  <2>3. QED
    BY <2>1, <2>2, IssueFields
<1>5. QED
  BY <1>2, <1>3, <1>4

\* In a clean snapshot the issue of the saga, while it has one of its two labels, is at
\* work.
LEMMA CleanShowsWork ==
    ASSUME NEW labels \in SUBSET Label, NEW marker, NEW move \in Moves, NEW b \in Backlog, NEW f,
           Clean(Listing(labels, marker, move, b), Items(Listing(labels, marker, move, b)), f),
           labels \cap {"from", "target"} # {}
    PROVE  \E i \in Items(Listing(labels, marker, move, b)) : i.state \in Working
<1> DEFINE L == Listing(labels, marker, move, b)
           one == SagaIssue(labels, marker, move)
<1>1. one \in L /\ one.open /\ one.states = {StateOfLabel(l, move) : l \in labels}
  BY Listed, IssueFields
<1> HIDE DEF L, one
<1>2. one.states # {}
  BY <1>1
<1>3. one \in Live(L)
  BY <1>1, <1>2 DEF Clean, L
<1>4. one.states = {StateOf(one)} /\ Item(one, StateOf(one)) \in Items(L)
  BY <1>1, <1>3, ListedStates, LiveFacts DEF L
<1>5. PICK l \in labels : l \in {"from", "target"}
  OBVIOUS
<1>6. StateOfLabel(l, move) \in Working
  BY <1>5, MoveStates DEF StateOfLabel, Working
<1>7. StateOf(one) = StateOfLabel(l, move)
  BY <1>1, <1>4
<1>8. Item(one, StateOf(one)).state = StateOf(one)
  BY DEF Item
<1>9. QED
  BY <1>4, <1>6, <1>7, <1>8 DEF L

LEMMA ClaimsFacts ==
    ASSUME NEW c \in Claims
    PROVE  /\ c.labels \in SUBSET Label /\ c.backlog \in Backlog
           /\ \E move \in Moves, f \in Facts :
                 LET L == Listing(c.labels, c.marker, move, c.backlog) IN
                 \E o \in {SelectLocally(Snapshot(L, f), f), SelectFromProvider(Snapshot(L, f))} :
                     o.action = "CLAIM_ONE_READY" /\ c.claimed = o.issue
<1>1. PICK l \in SUBSET Label, m \in {"from", "to"}, b \in Backlog :
          \E o \in Selections(l, m, b) :
              /\ o.action = "CLAIM_ONE_READY"
              /\ c = [labels |-> l, marker |-> m, backlog |-> b, claimed |-> o.issue]
  BY DEF Claims
<1>2. PICK o \in Selections(l, m, b) :
          /\ o.action = "CLAIM_ONE_READY"
          /\ c = [labels |-> l, marker |-> m, backlog |-> b, claimed |-> o.issue]
  BY <1>1
<1>3. c.labels = l /\ c.marker = m /\ c.backlog = b /\ c.claimed = o.issue
  BY <1>2
<1>4. \E move \in Moves, f \in Facts :
          LET L == Listing(l, m, move, b) IN
          o \in {SelectLocally(Snapshot(L, f), f), SelectFromProvider(Snapshot(L, f))}
  BY DEF Selections
<1>5. QED
  BY <1>2, <1>3, <1>4

\* No label of the saga is on an issue beside which something may be claimed.
LEMMA ClaimsLeaveWork ==
    ASSUME NEW c \in Claims
    PROVE  c.labels \cap {"from", "target"} = {}
<1>1. PICK move \in Moves, f \in Facts :
          LET L == Listing(c.labels, c.marker, move, c.backlog) IN
          \E o \in {SelectLocally(Snapshot(L, f), f), SelectFromProvider(Snapshot(L, f))} :
              o.action = "CLAIM_ONE_READY" /\ c.claimed = o.issue
  BY ClaimsFacts
<1> DEFINE L == Listing(c.labels, c.marker, move, c.backlog)
<1>2. Clean(L, Items(L), f) /\ \A i \in Items(L) : i.state \notin Working
  <2> HIDE DEF L
  <2>1. QED
    BY <1>1, SelectionFacts DEF L
<1>3. c.labels \in SUBSET Label /\ c.backlog \in Backlog
  BY ClaimsFacts
<1>4. QED
  BY <1>2, <1>3, CleanShowsWork

\* What may be claimed: the ready issue with its one piece of evidence, or the roadmap
\* entry of the saga through a twin.
LEMMA ClaimsAreFree ==
    ASSUME NEW c \in Claims
    PROVE  /\ c.claimed = "next" => c.backlog.past = 1 /\ c.backlog.form = "fit"
           /\ c.claimed = "work" => c.backlog.twin
<1> DEFINE b == c.backlog
<1>0. c.labels \in SUBSET Label /\ b \in Backlog
  BY ClaimsFacts
<1>1. PICK move \in Moves, f \in Facts :
          LET L == Listing(c.labels, c.marker, move, b) IN
          \E o \in {SelectLocally(Snapshot(L, f), f), SelectFromProvider(Snapshot(L, f))} :
              o.action = "CLAIM_ONE_READY" /\ c.claimed = o.issue
  BY ClaimsFacts
<1> DEFINE L   == Listing(c.labels, c.marker, move, b)
           one == SagaIssue(c.labels, c.marker, move)
           two == NextIssue(b)
<1>2. /\ Clean(L, Items(L), f)
      /\ \E i \in Items(L) : i.roadmap = c.claimed /\ i.state = "READY"
      /\ c.claimed = "next" => \E i \in Items(L) : i.roadmap = "past" /\ i.state = "DONE"
  <2> HIDE DEF L
  <2>1. QED
    BY <1>1, SelectionFacts DEF L
<1>3. /\ \A n \in 3 .. 2 + b.past : PastIssue(n) \in L
      /\ \A i \in L : \/ i = one \/ i = two
                      \/ \E n \in 3 .. 2 + b.past : i = PastIssue(n)
                      \/ b.twin /\ i = TwinIssue
  BY <1>0, Listed
<1>4. /\ one.open /\ one.states = {StateOfLabel(l, move) : l \in c.labels}
      /\ one.form.roadmap = "work"
      /\ two.open /\ two.states = {"READY"} /\ two.form.roadmap = "next"
      /\ two.form.deps = {"past"} /\ two.form.resolved = (b.form # "unresolved")
      /\ two.form.split = (b.form = "split")
  BY IssueFields
<1>5. b.past \in 0 .. 2 /\ b.form \in {"fit", "split", "unresolved"}
  BY <1>0 DEF Backlog
<1> HIDE DEF L, one, two, b
<1>6. PICK j \in Live(L) : c.claimed = j.form.roadmap /\ StateOf(j) = "READY"
  BY <1>2, ItemFacts
<1>7. j \in L /\ j.open /\ j.states = {"READY"} /\ Item(j, "READY") \in Items(L)
  <2>1. j \in L
    BY DEF Live
  <2>2. IsFiniteSet(j.states)
    BY <1>0, <2>1, ListedStates DEF L
  <2>3. QED
    BY <1>6, <2>2, LiveFacts
<1>8. j # one
  <2>1. \A l \in c.labels : StateOfLabel(l, move) # "READY"
    BY <1>0, MoveStates DEF StateOfLabel, Label, Timed, Working
  <2>2. QED
    BY <1>4, <1>7, <2>1
<1>9. j = two \/ (b.twin /\ j = TwinIssue)
  BY <1>3, <1>7, <1>8, IssueFields
<1>10. ASSUME c.claimed = "next" PROVE b.past = 1
  <2>1. PICK i \in Items(L) : i.roadmap = "past" /\ i.state = "DONE"
    BY <1>2, <1>10
  <2>2. \A k \in Live(L) : k.form.roadmap # "past"
    <3>1. ASSUME NEW k \in Live(L) PROVE k \in L /\ k.open
      BY DEF Live
    <3>2. QED
      BY <1>3, <1>4, <3>1, IssueFields
  <2>3. PICK k \in L, r \in Owed(Live(L)) : k.form.roadmap = "past" /\ EvidenceOf(L, r) = {k}
    BY <2>1, <2>2, ItemFacts
  <2>4. PICK n \in 3 .. 2 + b.past : k = PastIssue(n)
    BY <1>3, <1>4, <2>3, IssueFields
  <2>5. r = "past"
    BY <2>3, <2>4, IssueFields DEF EvidenceOf
  <2>6. \A m \in 3 .. 2 + b.past : PastIssue(m) \in EvidenceOf(L, r)
    BY <1>3, <2>5, IssueFields DEF EvidenceOf
  <2>7. \A m \in 3 .. 2 + b.past : m = n
    BY <2>3, <2>4, <2>6, IssueFields
  <2>8. b.past # 2
    <3>1. ASSUME b.past = 2 PROVE FALSE
      <4>1. 3 \in 3 .. 2 + b.past /\ 4 \in 3 .. 2 + b.past
        BY <3>1
      <4>2. QED
        BY <2>7, <4>1
    <3>2. QED
      BY <3>1
  <2>9. b.past # 0
    BY <2>4
  <2>10. QED
    BY <1>5, <2>8, <2>9
<1>11. ASSUME c.claimed = "next" PROVE b.form = "fit"
  <2>1. j = two
    BY <1>6, <1>9, <1>11, IssueFields
  <2>2. b.form # "split"
    BY <1>4, <1>6, <2>1 DEF Live, Accepted
  <2> DEFINE item == Item(two, "READY")
  <2>3. item \in Items(L) /\ item.deps = {"past"} /\ item.resolved = (b.form # "unresolved")
    BY <1>4, <1>7, <2>1 DEF Item
  <2> HIDE DEF item
  <2>4. ResolvedIn(Items(L), item)
    BY <1>2, <1>11, <2>3 DEF ResolvedIn
  <2>5. item.resolved = ResolvedIn(Items(L), item)
    BY <1>2, <2>3 DEF Clean
  <2>6. QED
    BY <1>5, <2>2, <2>3, <2>4, <2>5
<1>12. ASSUME c.claimed = "work" PROVE b.twin
  BY <1>4, <1>6, <1>9, <1>12
<1>13. QED
  BY <1>10, <1>11, <1>12 DEF b

\* While nobody edits or compensates, no snapshot taken between any two requests of any
\* number of transitions lets another issue be claimed (append_issue and its conflicts,
\* authorize_next_action).
THEOREM MidSagaIsBusy == Spec => []MidSagaNeverIdle
<1>1. OwnInv => MidSagaNeverIdle
  <2> SUFFICES ASSUME OwnInv, edits = 0, undos = 0, NEW c \in ClaimableNow PROVE FALSE
    BY DEF MidSagaNeverIdle
  <2>1. issue.labels # {} /\ issue.labels \subseteq {"from", "target"}
    BY DEF OwnInv, OwnPlan, Classify
  <2>2. c \in Claims /\ c.labels = issue.labels
    BY DEF ClaimableNow
  <2>3. QED
    BY <2>1, <2>2, ClaimsLeaveWork
<1>2. QED
  BY <1>1, OwnInvHolds, PTL

\* Whatever humans leave on the issue, another is claimed only when no label says that
\* it is being worked on, and only with the evidence the form asks for
\* (reconcile_snapshot, authorize_next_action).
THEOREM ClaimsNeedEvidence == Spec => []ClaimOnlyWhenFree
<1>1. ClaimOnlyWhenFree
  <2> SUFFICES ASSUME NEW c \in ClaimableNow
               PROVE  /\ issue.labels \cap {"from", "target"} = {}
                      /\ c.claimed = "next" => c.backlog.past = 1 /\ c.backlog.form = "fit"
                      /\ c.claimed = "work" => c.backlog.twin
    BY DEF ClaimOnlyWhenFree
  <2>1. c \in Claims /\ c.labels = issue.labels
    BY DEF ClaimableNow
  <2>2. QED
    BY <2>1, ClaimsLeaveWork, ClaimsAreFree
<1>2. QED
  BY <1>1, PTL
=============================================================================
