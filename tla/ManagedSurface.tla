--------------------------- MODULE ManagedSurface ---------------------------
(***************************************************************************)
(* The managed surface of a consumer project: the undo of a detach, the    *)
(* death of a call between any two writes, the consumer's own edits, and   *)
(* what all of it promises the consumer.                                   *)
(***************************************************************************)
EXTENDS SurfaceDetach

(* What apply_detach refuses on its way raises ManagedSurfaceError.          *)
DetachCheckFails(w) ==
    LET h == held[w]  p == Here(w)  e == h.journal.entry[p]  q == Quarantine(h.tx, p)
    IN  \/ /\ h.pc = "entry" /\ target[p] # "absent"
           /\ p \in WasGone(h.tx) \/ e = "PURGED"
        \/ /\ h.pc = "entry" /\ e = "QUARANTINE_PLANNED"
           /\ target[p] # (IF q # "absent" THEN "absent" ELSE "source")
        \/ h.pc = "rename" /\ target[p] = "absent"
        \/ h.pc = "moved" /\ ~Quarantined(w, p)
        \/ h.pc = "entry" /\ e = "QUARANTINED" /\ ~Quarantined(w, p)
        \/ h.pc = "entry" /\ e = "VERIFIED_ABSENT" /\ q # "source"
        \/ h.pc = "post" /\ ~AllGone(h)
        \/ h.pc = "readback" /\ ~Detached(h.tx)

FailDetach(w) ==
    LET j == [held[w].journal EXCEPT !.status = "RECOVERY_REQUIRED"]
    IN  /\ Busy(w) /\ held[w].op = "detach" /\ held[w].pc \in MoveSteps
        /\ \/ DetachCheckFails(w) /\ UNCHANGED mishaps
           \/ mishaps < MaxMishaps /\ mishaps' = mishaps + 1
        /\ detach' = [detach EXCEPT ![held[w].tx] = j]
        /\ held' = [held EXCEPT ![w].journal = j, ![w].pc = "restore", ![w].at = Len(Order)]
        /\ UNCHANGED <<files, adoption, snapshot, history, edits>>

Restored(h, state) ==
    LET p == Order[h.at]
        b == [h EXCEPT !.blocked = @ \/ state = "RECOVERY_BLOCKED",
                       !.journal.entry[p] = state,
                       !.journal.moved = IF state = "RESTORED" THEN @ \ {p} ELSE @]
    IN  IF h.at = 1 THEN [b EXCEPT !.pc = "closed"]
        ELSE [b EXCEPT !.pc = "restore", !.at = @ - 1]

Restore(w, p) ==
    At(w, DetachOps, "restore") /\ p = Here(w) /\ p \in Leaves(held[w].tx)
Settle(w, state) == held' = [held EXCEPT ![w] = Restored(@, state)]
InQuarantine(w, p) == p \in held[w].journal.moved /\ Quarantine(held[w].tx, p) # "absent"
MovedOnce == {"QUARANTINE_PLANNED", "QUARANTINED", "VERIFIED_ABSENT", "PURGED"}

RestoreNothing(w) ==
    LET h == held[w]
    IN  /\ At(w, DetachOps, "restore") /\ Here(w) \notin Leaves(h.tx)
        /\ Settle(w, h.journal.entry[Here(w)])
        /\ UNCHANGED files /\ NoSave

(* _recover_detach_locked looks at the quarantine and the file and decides.  *)
LookBack(w) ==
    LET p == Here(w)  h == held[w]  q == Quarantine(h.tx, p)
        reach == p \in Nested => directory
        here == InQuarantine(w, p)
        \* the call that follows, and what makes it the right one
        next == CASE here /\ target[p] = "absent" /\ reach               -> "return"
                  [] here /\ target[p] = "source" /\ q = "source"         -> "drop"
                  [] ~here /\ target[p] = "absent" /\ reach
                           /\ h.journal.entry[p] \in MovedOnce            -> "restage"
                  [] OTHER                                                -> "none"
        fine == ~here /\ (target[p] = "source"
                          \/ (target[p] = "absent" /\ h.journal.entry[p] = "PENDING"))
    IN  /\ Restore(w, p)
        /\ IF next # "none" THEN Goto(w, next)
           ELSE Settle(w, IF fine THEN "RESTORED" ELSE "RECOVERY_BLOCKED")
        /\ UNCHANGED files /\ NoSave

\* os.rename puts the file back over whatever is there by now.
ReturnFile(w) ==
    LET p == Here(w)  h == held[w]  q == Quarantine(h.tx, p)
    IN  /\ At(w, DetachOps, "return")
        /\ target' = [target EXCEPT ![p] = q]
        /\ maker' = [maker EXCEPT ![p] = IF q = "source" THEN h.tx.adoption ELSE Consumer]
        /\ Keep(h.tx, p, "absent")
        /\ held' = [held EXCEPT ![w] =
               [Restored(h, IF q = "source" THEN "RESTORED" ELSE "RECOVERY_BLOCKED")
                   EXCEPT !.journal.moved = @ \ {p}]]
        /\ UNCHANGED <<directory, stage, linked, restage>> /\ NoSave

DropCopy(w) ==
    /\ At(w, DetachOps, "drop") /\ Keep(held[w].tx, Here(w), "absent")
    /\ Settle(w, "RESTORED")
    /\ UNCHANGED <<target, maker, directory, stage, linked, restage>> /\ NoSave

(* _restore_exact_source_no_replace: the file is staged from the package      *)
(* under a name of the detachment, linked, and the staging file unlinked.     *)
Restaged(d, p) == {r \in restage : r.tx = d /\ r.path = p}
Whole(d, p, whole) == [tx |-> d, path |-> p, whole |-> whole]

\* _prepare_stage: what a death left is used when it is whole.
Restage(w) ==
    LET p == Here(w)  d == held[w].tx  torn == Whole(d, p, FALSE) \in restage
    IN  /\ At(w, DetachOps, "restage")
        /\ IF target[p] # "absent" \/ torn
           THEN /\ Settle(w, IF target[p] = "source" THEN "RESTORED" ELSE "RECOVERY_BLOCKED")
                /\ UNCHANGED restage
           ELSE Goto(w, "relink") /\ restage' = restage \cup {Whole(d, p, TRUE)}
        /\ UNCHANGED <<target, maker, directory, stage, linked, quarantine>> /\ NoSave

\* _link_stage_no_replace.
RelinkSource(w) ==
    LET p == Here(w)  free == target[p] = "absent"
    IN  /\ At(w, DetachOps, "relink")
        /\ target' = IF free THEN [target EXCEPT ![p] = "source"] ELSE target
        /\ maker' = IF free THEN [maker EXCEPT ![p] = held[w].tx.adoption] ELSE maker
        /\ held' = [held EXCEPT ![w].pc = "clear", ![w].hit = ~free]
        /\ UNCHANGED <<directory, stage, linked, quarantine, restage>> /\ NoSave

\* The finally clause, and the last look at the file.
ClearRestage(w) ==
    LET p == Here(w)  h == held[w]
        state == IF ~h.hit /\ target[p] = "source" THEN "RESTORED" ELSE "RECOVERY_BLOCKED"
    IN  /\ At(w, DetachOps, "clear")
        /\ restage' = restage \ Restaged(h.tx, p)
        /\ held' = [held EXCEPT ![w] = Restored([h EXCEPT !.hit = FALSE], state)]
        /\ UNCHANGED <<target, maker, directory, stage, linked, quarantine>> /\ NoSave

\* A rename, an unlink or a link fails; the staging file is unlinked even so,
\* and that it cannot be is passed over.
RestoreCallFails(w) ==
    LET p == Here(w)  h == held[w]
        state == IF h.pc = "clear" /\ ~h.hit /\ target[p] = "source" THEN "RESTORED"
                 ELSE "RECOVERY_BLOCKED"
    IN  /\ Busy(w) /\ h.pc \in {"return", "drop", "relink", "clear"}
        /\ mishaps < MaxMishaps /\ mishaps' = mishaps + 1
        /\ held' = [held EXCEPT ![w] = IF h.pc = "relink" THEN [h EXCEPT !.pc = "clear", !.hit = TRUE]
                                       ELSE Restored([h EXCEPT !.hit = FALSE], state)]
        /\ UNCHANGED <<files, disk, history, edits>>

CloseRestore(w) ==
    LET h == held[w]
        j == [h.journal EXCEPT !.status = IF h.blocked THEN "RECOVERY_BLOCKED" ELSE "ROLLED_BACK"]
        on == [h EXCEPT !.journal = j, !.pc = "plan"]
    IN  /\ At(w, DetachOps, "closed")
        /\ detach' = [detach EXCEPT ![h.tx] = j]
        /\ held' = [held EXCEPT ![w] = IF h.op = "retry" /\ ~h.blocked THEN on ELSE Idle]
        /\ OnlyDetach

\* A retry goes on under its lock when the plan still is that of the files.
StartOver(w) ==
    LET d == held[w].tx
        fresh == d.saw = target /\ DetachReady(d.adoption, target)
    IN  /\ At(w, {"retry"}, "plan")
        /\ detach' = IF fresh THEN [detach EXCEPT ![d] = NewDetach(d)] ELSE detach
        /\ held' = [held EXCEPT ![w] =
               IF fresh THEN DetachCall("detach", d, NewDetach(d), "begin", 1) ELSE Idle]
        /\ OnlyDetach

DetachStep(w) ==
    \/ BeginDetach(w) \/ KeepEntry(w) \/ PlanMove(w) \/ LookAtFile(w) \/ MoveFile(w)
    \/ RecordMoved(w) \/ VerifyAbsent(w) \/ Purge(w) \/ RecordPurged(w)
    \/ CheckDetached(w) \/ CommitDetach(w) \/ ReadBackDetach(w) \/ CleanDirectory(w)
    \/ CloseDetach(w) \/ FailDetach(w) \/ RestoreNothing(w) \/ LookBack(w)
    \/ ReturnFile(w) \/ DropCopy(w) \/ Restage(w) \/ RelinkSource(w) \/ ClearRestage(w)
    \/ RestoreCallFails(w) \/ CloseRestore(w) \/ StartOver(w)

\* A call dies; writing a staging file takes more than one moment.
Crash(w) ==
    /\ Busy(w) /\ mishaps < MaxMishaps /\ mishaps' = mishaps + 1
    /\ \/ UNCHANGED <<stage, restage>>
       \/ /\ held[w].pc = "prepare" /\ Stage(held[w].tx, Here(w)) = "absent"
          /\ stage' = Put(stage, held[w].tx, [Stages(held[w].tx) EXCEPT ![Here(w)] = "partial"])
          /\ UNCHANGED restage
       \/ /\ held[w].pc = "restage" /\ Restaged(held[w].tx, Here(w)) = {}
          /\ restage' = restage \cup {Whole(held[w].tx, Here(w), FALSE)}
          /\ UNCHANGED stage
    /\ held' = [held EXCEPT ![w] = Idle]
    /\ UNCHANGED <<target, maker, directory, linked, quarantine, disk, history, edits>>

SurfaceInit ==
    /\ target \in {f \in [Path -> Bytes] : AdoptionReady(f)}
    /\ directory = (\E p \in Nested : target[p] # "absent")
    /\ maker = [p \in Path |-> Consumer] /\ touched = {} /\ late = {}
    /\ stage = <<>> /\ linked = <<>> /\ quarantine = <<>> /\ restage = {}
    /\ resumed = {} /\ overlaps = 0 /\ adoption = <<>> /\ snapshot = {} /\ detach = <<>>
    /\ held = [w \in Process |-> Idle] /\ edits = 0 /\ mishaps = 0

OpenDetach(d) == detach[d].status \in {"PLANNED", "DETACHING", "RECOVERY_REQUIRED"}
Recovering(w) == \/ \E t \in DOMAIN adoption : Open(t) /\ RecoverAdoption(w, t)
                 \/ \E d \in DOMAIN detach : OpenDetach(d) /\ RecoverDetach(w, d)

Calls(w) ==
    \/ \E t \in DOMAIN adoption \cup {AdoptionPlan(target)} : ApplyAdoption(w, t)
    \/ \E t \in DOMAIN adoption : RecoverAdoption(w, t)
    \/ \E d \in DOMAIN detach \cup {[adoption |-> t, saw |-> target] : t \in DOMAIN adoption} :
            ApplyDetach(w, d)
    \/ \E d \in DOMAIN detach : RecoverDetach(w, d)

SurfaceNext ==
    \/ \E w \in Process : Calls(w) \/ AdoptionStep(w) \/ DetachStep(w) \/ Crash(w)
    \/ \E p \in Path, bytes \in Bytes \ {"source"} : Edit(p, bytes)

SurfaceSpec == SurfaceInit /\ [][SurfaceNext]_surface

\* A call that runs goes on; operators come back to what is open again and again.
Fairness == \A w \in Process :
    WF_surface(AdoptionStep(w) \/ DetachStep(w)) /\ SF_surface(Recovering(w))
LiveSpec == SurfaceSpec /\ Fairness
-----------------------------------------------------------------------------
(* The journals and the calls have the states their schemas allow.           *)
SurfaceTypes ==
    /\ target \in [Path -> Bytes] /\ directory \in BOOLEAN
    /\ DOMAIN adoption \subseteq Adoption /\ snapshot \subseteq DOMAIN adoption
    /\ \A t \in DOMAIN adoption : adoption[t] \in AdoptionJournal
    /\ \A t \in DOMAIN stage : stage[t] \in [Path -> {"absent", "source", "partial"}]
    /\ \A t \in DOMAIN linked : linked[t] \subseteq Path
    /\ DOMAIN detach \subseteq Detachment /\ DOMAIN quarantine \subseteq DOMAIN detach
    /\ \A d \in DOMAIN detach : detach[d] \in DetachJournal
    /\ \A d \in DOMAIN quarantine : quarantine[d] \in [Path -> Bytes]
    /\ restage \subseteq [tx : DOMAIN detach, path : Path, whole : BOOLEAN]
    /\ \A w \in Process : Busy(w) =>
          held[w].journal \in IF held[w].op \in DetachOps THEN DetachJournal ELSE AdoptionJournal
    /\ edits \in 0..MaxEdits /\ mishaps \in 0..MaxMishaps

(* No operation ever destroys bytes of the consumer: a file of its own leaves *)
(* its place only into a quarantine, and leaves that only to come back.  What  *)
(* the code leaves open is named: a change behind the very check whose unlink  *)
(* (recover_adoption) or rename (recover_detach) is the call's next step.      *)
Overtaken(p) == p \in late /\ \E w \in Process : ActsOn(w, p)
KeepsForeign ==
    \A p \in Path : /\ target[p] \in Foreign /\ target'[p] # target[p] /\ edits' = edits =>
                        \/ \E d \in DOMAIN quarantine' : quarantine'[d][p] = target[p]
                        \/ Overtaken(p)
                    /\ \A d \in DOMAIN quarantine : quarantine[d][p] \in Foreign =>
                        quarantine'[d][p] = quarantine[d][p] \/ target'[p] = quarantine[d][p]
ConsumerBytesSurvive == [][KeepsForeign]_surface

(* A committed adoption is complete: what it installed or kept is there,      *)
(* unless the consumer changed it or a detach moved it away;               *)
(* the bytes of a moved file are in the quarantine until they were looked at  *)
(* there, or its recovery is reported as blocked.                             *)
MovedAway(p) == \E d \in DOMAIN detach :
    /\ p \in Leaves(d)
    /\ Quarantine(d, p) = "source" \/ detach[d].entry[p] \in {"VERIFIED_ABSENT", "PURGED", "RECOVERY_BLOCKED"}
CommittedIsComplete ==
    \A t \in DOMAIN adoption, p \in Path \ touched :
        adoption[t].status = "COMMITTED" =>
            /\ t \in snapshot
            /\ target[p] = Expected(t, p) \/ MovedAway(p)

(* A rollback that reports itself clean leaves nothing of its own behind.     *)
RolledBackIsClean ==
    \A t \in DOMAIN adoption, p \in Path :
        adoption[t].status = "ROLLED_BACK" /\ t \notin resumed => Stage(t, p) = "absent" /\ maker[p] # t

(* A detach that was rolled back has given back every file it took.           *)
TakenByAnother(d, p) == \E e \in DOMAIN detach \ {d} :
    p \in Leaves(e) /\ detach[e].status # "ROLLED_BACK"
RestoredIsWhole ==
    \A d \in DOMAIN detach : detach[d].status = "ROLLED_BACK" =>
        \A p \in Leaves(d) \ touched : TakenByAnother(d, p) \/ target[p] = "source"

(* A status that claims an end is true, whatever call died or failed and      *)
(* whatever the consumer did in between (managed_surface_transaction.py,       *)
(* readback before COMMITTED and ROLLED_BACK), as long as no adoption was begun *)
(* beside one that is not rolled back: nothing in the code prevents that.      *)
StatusIsTrue == overlaps = 0 => CommittedIsComplete /\ RolledBackIsClean /\ RestoredIsWhole

(* Whatever was interrupted comes to an end once operators keep recovering    *)
(* it: neither recovery runs into a state only another recovery could leave.  *)
Unfinished == (\E t \in DOMAIN adoption : Open(t)) \/ (\E d \in DOMAIN detach : OpenDetach(d))
Settles == []<>~Unfinished
=============================================================================
