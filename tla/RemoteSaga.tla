----------------------------- MODULE RemoteSaga -----------------------------
(***************************************************************************)
(* The saga of .adwf/lib/remote_saga.py that moves an issue from one       *)
(* machine label to another although the provider has no transaction for   *)
(* labels and body, with its caller set_label of orchestrate_event.py.     *)
(* There is one saga: its key names the issue, the lease, the two states   *)
(* and the policy, and none of them changes here.  Humans edit the issue,  *)
(* requests fail and processes die between any two steps.                  *)
(***************************************************************************)
EXTENDS Naturals

CONSTANTS Process,     \* controllers and operators
          Text,        \* what an issue body says outside the state marker
          Idle,        \* a process outside of a call
          NoJournal,   \* the journal file does not exist
          Entries,     \* calls in use: "controller", "operator", "compensation"
          MaxEdits,    \* bound: edits by humans
          MaxMishaps,  \* bound: crashes and failed requests
          MaxUndos     \* bound: compensations started

ASSUME SagaAssumption ==
    /\ Entries \subseteq {"controller", "operator", "compensation"}
    /\ {MaxEdits, MaxMishaps, MaxUndos} \subseteq Nat

VARIABLES
    issue,    \* the remote issue; rev stands for its ETag
    journal,  \* .adwf-runtime/transactions/<saga>.json
    held,     \* the call each process is in
    edits,
    mishaps,
    undos

vars == <<issue, journal, held, edits, mishaps, undos>>

\* Machine labels: the two of the plan, and any other one.
Label  == {"from", "target", "other"}
Body   == [text : Text, marker : {"from", "to"}]
Issue  == [labels : SUBSET Label, body : Body, rev : Nat]
Status == {"PLANNED", "DRY_RUN", "APPLYING", "COMMITTED", "RECOVERY_REQUIRED", "COMPENSATED"}
Saga   == [original : Body, status : Status]

\* A call carries its own copy of the plan and the issue it read last; wrote
\* says that its last request changed the issue.
RunStages  == {"load", "save", "get", "begin", "add", "patch", "remove"}
UndoStages == {"unpatch", "restore", "drop"}
Call == [op : {"run", "dry", "compensate"},
         stage : RunStages \cup UndoStages \cup {"verify", "finish", "error"},
         original : Body, seen : Issue, wrote : BOOLEAN]

Desired(original) == [text |-> original.text, marker |-> "to"]

\* _classify_remote.
Classify(original, i) ==
    IF ~(/\ i.labels # {} /\ i.labels \subseteq {"from", "target"}
         /\ i.body \in {original, Desired(original)})
    THEN "CONFLICT"
    ELSE IF i.labels = {"target"} /\ i.body = Desired(original)
         THEN "COMMITTED"
         ELSE "RESUMABLE"

At(p, stages) == held[p] # Idle /\ held[p].stage \in stages
Go(p, stage)  == held' = [held EXCEPT ![p].stage = stage]
Return(p)     == held' = [held EXCEPT ![p] = Idle]

\* SagaJournal.save of the copy a call holds; no revision is compared.
SaveJournal(p, status) == journal' = [original |-> held[p].original, status |-> status]

Init ==
    /\ issue \in [labels : {{"from"}}, body : [text : Text, marker : {"from"}], rev : {0}]
    /\ journal = NoJournal
    /\ held = [p \in Process |-> Idle]
    /\ edits = 0 /\ mishaps = 0 /\ undos = 0

-----------------------------------------------------------------------------
Begins(p, op, stage, original) ==
    /\ held[p] = Idle
    /\ held' = [held EXCEPT ![p] = [op |-> op, stage |-> stage, original |-> original,
                                    seen |-> issue, wrote |-> FALSE]]
    /\ UNCHANGED <<issue, journal, edits, mishaps>>

\* set_label up to run_transition: exactly one machine label, the marker
\* agrees with it, and the plan is made for the body that was read.
SetLabel(p) ==
    /\ "controller" \in Entries
    /\ issue.labels = {"from"} /\ issue.body.marker = "from"
    /\ Begins(p, "run", "load", issue.body)
    /\ UNCHANGED undos

\* run_transition called again with the stored plan.
Rerun(p, op) ==
    /\ "operator" \in Entries
    /\ journal # NoJournal
    /\ Begins(p, op, "load", journal.original)
    /\ UNCHANGED undos

\* compensate_transition up to its first request.
Compensate(p) ==
    /\ "compensation" \in Entries
    /\ journal # NoJournal
    /\ undos < MaxUndos
    /\ Begins(p, "compensate", "get", journal.original)
    /\ undos' = undos + 1

\* The stored plan must agree with the caller's; a committed one is returned.
LoadPlan(p) ==
    /\ At(p, {"load"})
    /\ IF journal = NoJournal THEN Go(p, "save")
       ELSE IF journal.original # held[p].original \/ journal.status = "COMMITTED"
            THEN Return(p)
       ELSE Go(p, "get")
    /\ UNCHANGED <<issue, journal, edits, mishaps, undos>>

SavePlan(p) ==
    /\ At(p, {"save"})
    /\ SaveJournal(p, "PLANNED")
    /\ Go(p, "get")
    /\ UNCHANGED <<issue, edits, mishaps, undos>>

FirstGet(p) ==
    /\ At(p, {"get"})
    /\ held' = [held EXCEPT ![p].seen = issue, ![p].stage = "begin"]
    /\ UNCHANGED <<issue, journal, edits, mishaps, undos>>

\* What the first reading of the issue decides.
Begin(p) ==
    LET state == Classify(held[p].original, held[p].seen)
    IN  /\ At(p, {"begin"})
        /\ \/ /\ state = "CONFLICT"
              /\ SaveJournal(p, "RECOVERY_REQUIRED") /\ Return(p)
           \/ /\ state = "COMMITTED" /\ held[p].op # "compensate"
              /\ SaveJournal(p, "COMMITTED") /\ Return(p)
           \/ /\ state = "RESUMABLE" /\ held[p].op = "dry"
              /\ SaveJournal(p, "DRY_RUN") /\ Return(p)
           \/ /\ state = "RESUMABLE" /\ held[p].op = "run"
              /\ SaveJournal(p, "APPLYING") /\ Go(p, "add")
           \/ /\ state # "CONFLICT" /\ held[p].op = "compensate"
              /\ Go(p, "unpatch") /\ UNCHANGED journal
        /\ UNCHANGED <<issue, edits, mishaps, undos>>

-----------------------------------------------------------------------------
WriteStages == {"add", "patch", "remove"} \cup UndoStages

\* Mutant: the old label is removed before the new one is there.
NeededRemoveFirst(stage, c) ==
    CASE stage = "add"     -> "from" \notin c.seen.labels /\ "target" \notin c.seen.labels
      [] stage = "patch"   -> c.seen.body # Desired(c.original)
      [] stage = "remove"  -> "from" \in c.seen.labels
      [] stage = "unpatch" -> c.seen.body = Desired(c.original)
      [] stage = "restore" -> "from" \notin c.seen.labels
      [] stage = "drop"    -> "target" \in c.seen.labels

\* Whether a stage has something to do on the issue the call has seen.
Needed(stage, c) ==
    CASE stage = "add"     -> "target" \notin c.seen.labels
      [] stage = "patch"   -> c.seen.body # Desired(c.original)
      [] stage = "remove"  -> "from" \in c.seen.labels
      [] stage = "unpatch" -> c.seen.body = Desired(c.original)
      [] stage = "restore" -> "from" \notin c.seen.labels
      [] stage = "drop"    -> "target" \in c.seen.labels

NextStage(stage) ==
    CASE stage = "add"     -> "patch"   [] stage = "patch"   -> "remove"
      [] stage = "unpatch" -> "restore" [] stage = "restore" -> "drop"
      [] OTHER             -> "verify"

\* The request of a stage, as the provider executes it.
Effect(stage, c, i) ==
    [labels |-> CASE stage = "add"     -> i.labels \cup {"target"}
                  [] stage = "restore" -> i.labels \cup {"from"}
                  [] stage = "remove"  -> i.labels \ {"from"}
                  [] stage = "drop"    -> i.labels \ {"target"}
                  [] OTHER             -> i.labels,
     body   |-> IF stage = "patch" THEN Desired(c.original)
                ELSE IF stage = "unpatch" THEN c.original ELSE i.body,
     rev    |-> i.rev + 1]

Skip(p) ==
    /\ At(p, WriteStages)
    /\ ~held[p].wrote /\ ~Needed(held[p].stage, held[p])
    /\ Go(p, NextStage(held[p].stage))
    /\ UNCHANGED <<issue, journal, edits, mishaps, undos>>

\* If-Match: the provider executes a request only on the revision the call saw.
Precondition(c) == c.seen.rev = issue.rev

Write(p) ==
    /\ At(p, WriteStages)
    /\ ~held[p].wrote /\ Needed(held[p].stage, held[p])
    /\ IF Precondition(held[p])
       THEN /\ issue' = Effect(held[p].stage, held[p], issue)
            /\ held' = [held EXCEPT ![p].wrote = TRUE]
       ELSE /\ Go(p, "error")
            /\ UNCHANGED issue
    /\ UNCHANGED <<journal, edits, mishaps, undos>>

\* Mutant: the issue read after a request is not classified again.
ConflictSeenNever(p) == FALSE

\* run_transition classifies the issue again after a request, compensate does not.
ConflictSeen(p) == held[p].op = "run" /\ Classify(held[p].original, issue) = "CONFLICT"

\* After a request that is not the last one: journal, read again, classify.
Refresh(p) ==
    /\ At(p, WriteStages)
    /\ held[p].wrote /\ NextStage(held[p].stage) # "verify"
    /\ IF held[p].op = "run" THEN SaveJournal(p, "APPLYING") ELSE UNCHANGED journal
    /\ IF ConflictSeen(p)
       THEN Go(p, "error")
       ELSE held' = [held EXCEPT ![p].seen = issue, ![p].wrote = FALSE,
                                 ![p].stage = NextStage(held[p].stage)]
    /\ UNCHANGED <<issue, edits, mishaps, undos>>

\* The final readback.
Verify(p) ==
    /\ \/ At(p, {"verify"})
       \/ At(p, WriteStages) /\ held[p].wrote /\ NextStage(held[p].stage) = "verify"
    /\ IF held[p].op = "run" /\ held[p].wrote
       THEN SaveJournal(p, "APPLYING") ELSE UNCHANGED journal
    /\ held' = [held EXCEPT ![p].seen = issue, ![p].wrote = FALSE, ![p].stage = "finish"]
    /\ UNCHANGED <<issue, edits, mishaps, undos>>

\* Mutant: the postcondition is not tested.
FinishUnchecked(p) ==
    /\ At(p, {"finish"})
    /\ SaveJournal(p, IF held[p].op = "run" THEN "COMMITTED" ELSE "COMPENSATED")
    /\ Return(p)
    /\ UNCHANGED <<issue, edits, mishaps, undos>>

Finish(p) ==
    LET c      == held[p]
        passed == IF c.op = "run" THEN Classify(c.original, c.seen) = "COMMITTED"
                  ELSE c.seen.labels = {"from"} /\ c.seen.body = c.original
    IN  /\ At(p, {"finish"})
        /\ IF passed
           THEN /\ SaveJournal(p, IF c.op = "run" THEN "COMMITTED" ELSE "COMPENSATED")
                /\ Return(p)
           ELSE /\ Go(p, "error")
                /\ UNCHANGED journal
        /\ UNCHANGED <<issue, edits, mishaps, undos>>

\* _record_error.
RecordError(p) ==
    /\ At(p, {"error"})
    /\ SaveJournal(p, "RECOVERY_REQUIRED")
    /\ Return(p)
    /\ UNCHANGED <<issue, edits, mishaps, undos>>

-----------------------------------------------------------------------------
\* A request fails before or after the provider has executed it.  Only the
\* first reading is outside the handler that records the error.
RequestFails(p) ==
    /\ mishaps < MaxMishaps
    /\ mishaps' = mishaps + 1
    /\ \/ At(p, {"get"}) /\ Return(p) /\ UNCHANGED issue
       \/ At(p, WriteStages \cup {"verify"}) /\ Go(p, "error") /\ UNCHANGED issue
       \/ /\ At(p, WriteStages) /\ ~held[p].wrote /\ Needed(held[p].stage, held[p])
          /\ Precondition(held[p])
          /\ issue' = Effect(held[p].stage, held[p], issue)
          /\ Go(p, "error")
    /\ UNCHANGED <<journal, edits, undos>>

Crash(p) ==
    /\ mishaps < MaxMishaps
    /\ held[p] # Idle
    /\ mishaps' = mishaps + 1
    /\ Return(p)
    /\ UNCHANGED <<issue, journal, edits, undos>>

\* A human, or another tool, changes labels or body.
Edit(labels, body) ==
    /\ edits < MaxEdits
    /\ <<labels, body>> # <<issue.labels, issue.body>>
    /\ issue' = [labels |-> labels, body |-> body, rev |-> issue.rev + 1]
    /\ edits' = edits + 1
    /\ UNCHANGED <<journal, held, mishaps, undos>>

Step(p) ==
    \/ LoadPlan(p) \/ SavePlan(p) \/ FirstGet(p) \/ Begin(p) \/ Skip(p) \/ Write(p)
    \/ Refresh(p) \/ Verify(p) \/ Finish(p) \/ RecordError(p)

Next ==
    \/ \E p \in Process : SetLabel(p)
    \/ \E p \in Process, op \in {"run", "dry"} : Rerun(p, op)
    \/ \E p \in Process : Compensate(p)
    \/ \E p \in Process : Step(p)
    \/ \E p \in Process : RequestFails(p)
    \/ \E p \in Process : Crash(p)
    \/ \E l \in SUBSET Label, b \in Body : Edit(l, b)

Spec == Init /\ [][Next]_vars

-----------------------------------------------------------------------------
TypeOK ==
    /\ issue \in Issue
    /\ journal \in Saga \cup {NoJournal}
    /\ held \in [Process -> Call \cup {Idle}]
    /\ edits \in Nat /\ mishaps \in Nat /\ undos \in Nat

(* AUTOMATIC_ORCHESTRATION.md: a concurrent human edit is not overwritten.   *)
(* What a human wrote outside the marker survives every request of every     *)
(* saga call, including the ones that planned or read before the edit.       *)
HumanTextKept == [][edits' = edits => issue'.body.text = issue.body.text]_vars

(* remote_saga.py: an unknown remote state is not changed.  A request of a   *)
(* transition is only executed on an issue that it does not classify as a    *)
(* conflict, whatever was edited between its reading and its writing.        *)
UnknownNeverMutated ==
    [][\A p \in Process :
          /\ held[p] # Idle /\ held[p].op = "run"
          /\ held'[p] # held[p] /\ issue' # issue
          => Classify(held[p].original, issue) # "CONFLICT"]_vars

(* What transitions leave behind can always be resumed: as long as no human  *)
(* interferes and no compensation was started, no crash, failure or race of  *)
(* two transitions ends in a state that run_transition takes for a conflict. *)
OwnStepsResumable ==
    edits = 0 /\ undos = 0 /\ journal # NoJournal
        => Classify(journal.original, issue) # "CONFLICT"

Recorded(statuses) == journal # NoJournal /\ journal.status \in statuses
Moved(original)    == issue.labels = {"target"} /\ issue.body = Desired(original)
Restored(original) == issue.labels = {"from"} /\ issue.body = original

(* The postconditions of run_transition and compensate_transition: whatever  *)
(* was edited, refused or lost on the way, when the journal becomes          *)
(* COMMITTED or COMPENSATED and nobody touched the issue since the call read *)
(* it, the issue has exactly the new, or exactly the old, label and body.    *)
StatusFollowsReadback ==
    [][\A p \in Process :
          held[p] # Idle /\ held'[p] = Idle /\ journal' # journal /\ held[p].seen = issue
          => /\ Recorded({"COMMITTED"})'   => Moved(held[p].original)
             /\ Recorded({"COMPENSATED"})' => Restored(held[p].original)]_vars
=============================================================================
