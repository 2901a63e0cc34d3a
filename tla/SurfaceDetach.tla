--------------------------- MODULE SurfaceDetach ---------------------------
(***************************************************************************)
(* apply_detach and recover_detach of managed_surface_transaction.py: each *)
(* file is moved into a quarantine, looked at there, and only then purged. *)
(***************************************************************************)
EXTENDS SurfaceAdoption

DetachEntry == {"PENDING", "QUARANTINE_PLANNED", "QUARANTINED", "VERIFIED_ABSENT", "PURGED",
                "ALREADY_ABSENT", "PRESERVED", "RESTORED", "RECOVERY_BLOCKED"}
DetachStatus == {"PLANNED", "DETACHING", "COMMITTED", "RECOVERY_REQUIRED",
                 "RECOVERY_BLOCKED", "ROLLED_BACK"}
DetachJournal == [status : DetachStatus, entry : [Path -> DetachEntry],
                  moved : SUBSET Path, removed : BOOLEAN]

NewDetach(d) ==
    [status |-> "PLANNED",
     entry |-> [p \in Path |-> IF p \in Leaves(d) THEN "PENDING"
                               ELSE IF p \in WasGone(d) THEN "ALREADY_ABSENT" ELSE "PRESERVED"],
     moved |-> {}, removed |-> FALSE]

MoveSteps == {"entry", "rename", "moved", "purged", "post", "commit", "readback", "rmdir", "close"}

DetachCall(op, d, j, pc, at) ==
    [op |-> op, tx |-> d, journal |-> j, pc |-> pc, at |-> at,
     hit |-> FALSE, blocked |-> FALSE]

Quarantine(d, p) == IF d \in DOMAIN quarantine THEN quarantine[d][p] ELSE "absent"
Keep(d, p, bytes) ==
    quarantine' = Put(quarantine, d,
        [x \in Path |-> IF x = p THEN bytes ELSE Quarantine(d, x)])

DetachOps == {"detach", "again", "retry", "restore"}
DetachLocked(d) == \E w \in Process :
    Busy(w) /\ held[w].op \in DetachOps /\ held[w].tx = d

\* The authority of a detach is rebuilt from the committed adoption every time.
Trusted(d) == /\ d.adoption \in DOMAIN adoption /\ d.adoption \in snapshot
              /\ adoption[d.adoption].status = "COMMITTED"
Provenance(d) == adoption[d.adoption].created

SaveDetach(w, j, pc) ==
    /\ detach' = [detach EXCEPT ![held[w].tx] = j]
    /\ held' = [held EXCEPT ![w].journal = j, ![w].pc = pc]

SaveRemoved(w, j) ==
    LET last == held[w].at = Len(Order)
    IN  /\ detach' = [detach EXCEPT ![held[w].tx] = j]
        /\ held' = [held EXCEPT ![w].journal = j,
                                ![w].pc = IF last THEN "post" ELSE "entry",
                                ![w].at = IF last THEN @ ELSE @ + 1]

OnlyDetach == UNCHANGED <<files, adoption, snapshot, environment>>

Detached(d) == /\ \A p \in Leaves(d) \cup WasGone(d) : target[p] = "absent"
               /\ \A p \in detach[d].moved : Quarantine(d, p) = "absent"
               /\ \A p \in Path : d.adoption[p] # "CREATE_PLANNED"
                                    => target[p] = Expected(d.adoption, p)

(* apply_detach up to the first save.  The plan must be that of the files as *)
(* they are now, unless a detach that was interrupted goes on.               *)
ApplyDetach(w, d) ==
    LET known == d \in DOMAIN detach
        status == IF known THEN detach[d].status ELSE "NEW"
        fresh == d.saw = target /\ DetachReady(d.adoption, target)
    IN  /\ ~Busy(w) /\ ~DetachLocked(d) /\ Trusted(d)
        /\ \/ /\ status \in {"NEW", "ROLLED_BACK", "PLANNED"} /\ fresh
              /\ detach' = Put(detach, d, NewDetach(d))
              /\ held' = [held EXCEPT ![w] = DetachCall("detach", d, NewDetach(d), "begin", 1)]
           \/ /\ status = "DETACHING" /\ UNCHANGED detach
              /\ held' = [held EXCEPT ![w] = DetachCall("detach", d, detach[d], "begin", 1)]
           \/ /\ status = "RECOVERY_REQUIRED" /\ UNCHANGED detach
              /\ held' = [held EXCEPT ![w] =
                             DetachCall("retry", d, detach[d], "restore", Len(Order))]
           \/ /\ status = "COMMITTED" /\ Detached(d) /\ UNCHANGED detach
              /\ held' = [held EXCEPT ![w] = DetachCall("again", d, detach[d], "rmdir", 1)]
    /\ OnlyDetach

RecoverDetach(w, d) ==
    /\ ~Busy(w) /\ ~DetachLocked(d) /\ d \in DOMAIN detach /\ Trusted(d)
    /\ detach[d].status \notin {"COMMITTED", "ROLLED_BACK"}
    /\ held' = [held EXCEPT ![w] = DetachCall("restore", d, detach[d], "restore", Len(Order))]
    /\ UNCHANGED files /\ NoSave

BeginDetach(w) ==
    /\ At(w, {"detach"}, "begin")
    /\ SaveDetach(w, [held[w].journal EXCEPT !.status = "DETACHING"], "entry")
    /\ OnlyDetach

Entering(w, p, state) == /\ At(w, {"detach"}, "entry") /\ p = Here(w)
                         /\ held[w].journal.entry[p] = state

KeepEntry(w) ==
    LET h == held[w]  p == Here(w)
    IN  /\ At(w, {"detach"}, "entry")
        /\ \/ /\ p \notin Removable(h.tx.adoption)
              /\ SaveRemoved(w, [h.journal EXCEPT !.entry[p] = "PRESERVED"])
           \/ /\ p \in WasGone(h.tx) /\ target[p] = "absent"
              /\ SaveRemoved(w, [h.journal EXCEPT !.entry[p] = "ALREADY_ABSENT"])
           \/ /\ h.journal.entry[p] = "PURGED" /\ target[p] = "absent"
              /\ SaveRemoved(w, h.journal)
        /\ OnlyDetach

PlanMove(w) ==
    LET p == Here(w)
    IN  /\ Entering(w, p, "PENDING")
        /\ SaveDetach(w, [held[w].journal EXCEPT !.entry[p] = "QUARANTINE_PLANNED",
                                                 !.moved = @ \cup {p}], "entry")
        /\ OnlyDetach

\* Either the file was moved before a crash, or it is there and about to be.
LookAtFile(w) ==
    LET h == held[w]  p == Here(w)  gone == Quarantine(h.tx, p) # "absent"
    IN  /\ Entering(w, p, "QUARANTINE_PLANNED")
        /\ target[p] = IF gone THEN "absent" ELSE "source"
        /\ IF gone
           THEN SaveDetach(w, [h.journal EXCEPT !.entry[p] = "QUARANTINED"], "entry")
           ELSE Goto(w, "rename") /\ UNCHANGED detach
        /\ OnlyDetach

\* Mutant: the file is unlinked where it is, its bytes being known from the check.
MoveFileByUnlink(w) ==
    LET p == Here(w)
    IN  /\ At(w, {"detach"}, "rename") /\ target[p] # "absent"
        /\ Keep(held[w].tx, p, "source")
        /\ target' = [target EXCEPT ![p] = "absent"]
        /\ maker' = [maker EXCEPT ![p] = Consumer]
        /\ linked' = [t \in DOMAIN linked |-> linked[t] \ {p}]
        /\ Goto(w, "moved") /\ UNCHANGED <<directory, stage, restage>> /\ NoSave

\* os.rename moves what is there by now, checked or not.
MoveFile(w) ==
    LET p == Here(w)
    IN  /\ At(w, {"detach"}, "rename") /\ target[p] # "absent"
        /\ Keep(held[w].tx, p, target[p])
        /\ target' = [target EXCEPT ![p] = "absent"]
        /\ maker' = [maker EXCEPT ![p] = Consumer]
        /\ linked' = [t \in DOMAIN linked |-> linked[t] \ {p}]
        /\ Goto(w, "moved") /\ UNCHANGED <<directory, stage, restage>> /\ NoSave

Quarantined(w, p) == Quarantine(held[w].tx, p) = "source" /\ target[p] = "absent"

RecordMoved(w) ==
    LET p == Here(w)
    IN  /\ At(w, {"detach"}, "moved") /\ Quarantined(w, p)
        /\ SaveDetach(w, [held[w].journal EXCEPT !.entry[p] = "QUARANTINED"], "entry")
        /\ OnlyDetach

VerifyAbsent(w) ==
    LET p == Here(w)
    IN  /\ Entering(w, p, "QUARANTINED") /\ Quarantined(w, p)
        /\ SaveDetach(w, [held[w].journal EXCEPT !.entry[p] = "VERIFIED_ABSENT"], "entry")
        /\ OnlyDetach

Purge(w) ==
    LET p == Here(w)
    IN  /\ Entering(w, p, "VERIFIED_ABSENT") /\ Quarantine(held[w].tx, p) = "source"
        /\ Keep(held[w].tx, p, "absent")
        /\ Goto(w, "purged")
        /\ UNCHANGED <<target, maker, directory, stage, linked, restage>> /\ NoSave

RecordPurged(w) ==
    LET p == Here(w)
    IN  /\ At(w, {"detach"}, "purged")
        /\ SaveRemoved(w, [held[w].journal EXCEPT !.entry[p] = "PURGED", !.moved = @ \ {p}])
        /\ OnlyDetach

AllGone(h) == \A p \in Path : /\ p \in Leaves(h.tx) \cup WasGone(h.tx) => target[p] = "absent"
                              /\ p \in h.journal.moved => Quarantine(h.tx, p) = "absent"

CheckDetached(w) ==
    /\ At(w, {"detach"}, "post") /\ AllGone(held[w])
    /\ held' = [held EXCEPT ![w].pc = "commit", ![w].journal.moved = {}]
    /\ UNCHANGED files /\ NoSave

CommitDetach(w) ==
    /\ At(w, {"detach"}, "commit")
    /\ SaveDetach(w, [held[w].journal EXCEPT !.status = "COMMITTED"], "readback")
    /\ OnlyDetach

ReadBackDetach(w) ==
    /\ At(w, {"detach"}, "readback") /\ Detached(held[w].tx)
    /\ Goto(w, "rmdir") /\ UNCHANGED files /\ NoSave

\* _cleanup_detach_provenance_dirs: only a directory adoption made, if empty.
CleanDirectory(w) ==
    LET h == held[w]
        goes == Provenance(h.tx) /\ ~h.journal.removed /\ directory /\ Empty
    IN  /\ At(w, {"detach", "again"}, "rmdir")
        /\ directory' = (directory /\ ~goes)
        /\ held' = [held EXCEPT ![w].pc = "close", ![w].journal.removed = @ \/ goes]
        /\ UNCHANGED <<target, maker, stage, linked, quarantine, restage>> /\ NoSave

CloseDetach(w) ==
    /\ At(w, {"detach", "again"}, "close")
    /\ detach' = [detach EXCEPT ![held[w].tx] = held[w].journal]
    /\ held' = [held EXCEPT ![w] = Idle]
    /\ OnlyDetach
=============================================================================
