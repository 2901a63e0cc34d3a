-------------------------- MODULE SurfaceAdoption --------------------------
(***************************************************************************)
(* The tree of a consumer project and the plans managed_surface.py makes   *)
(* for it.  A file is known by its bytes: the package's ("source") or some *)
(* bytes of the consumer.  A symbolic link or a directory in the place of  *)
(* a file is refused wherever unknown bytes are and counts as such.        *)
(***************************************************************************)
EXTENDS Naturals, Sequences, FiniteSets

CONSTANTS
    Order,          \* the manifest: its paths in order
    SharedGuarded,  \* the paths of the policy's shared_guarded_paths
    Nested,         \* the paths under the one directory adoption may create
    Foreign,        \* bytes that are not those of the package
    Process,        \* operator calls of validate_managed_surface.py
    Consumer, Idle, \* model values
    MaxEdits,       \* bound: changes the consumer makes to its files
    MaxMishaps,     \* bound: crashes and failed system calls
    MaxOverlaps     \* bound: adoptions begun beside one that is not rolled back

Path == {Order[i] : i \in DOMAIN Order}

ASSUME SurfaceAssumption ==
    /\ Order \in Seq(STRING) /\ Order # <<>>
    /\ SharedGuarded \subseteq Path /\ Nested \subseteq Path
    /\ Foreign \cap {"absent", "source", "partial", "CREATE_PLANNED", "KEEP_EXACT"} = {}
    /\ MaxEdits \in Nat /\ MaxMishaps \in Nat /\ MaxOverlaps \in Nat

Bytes == {"absent", "source"} \cup Foreign

(* plan_adoption: create what is absent, keep what is exact, preserve a      *)
(* shared file with the bytes it has; anything else blocks the plan.  The    *)
(* plan is the identity of its transaction.                                  *)
AdoptionAction == {"CREATE_PLANNED", "KEEP_EXACT"} \cup Foreign
Adoption == [Path -> AdoptionAction]

ASSUME ConsumerAssumption == Consumer \notin Adoption

PlannedAction(bytes) ==
    CASE bytes = "absent" -> "CREATE_PLANNED"
      [] bytes = "source" -> "KEEP_EXACT"
      [] OTHER            -> bytes

AdoptionPlan(there) == [p \in Path |-> PlannedAction(there[p])]
AdoptionReady(there) == \A p \in Path : there[p] \in Foreign => p \in SharedGuarded

\* The bytes a transaction expects at a path once it has committed.
Expected(t, p) == IF t[p] \in Foreign THEN t[p] ELSE "source"

(* plan_detach: only files adoption created and the package owns alone may   *)
(* be removed, and only while they have the installed bytes.  The plan is    *)
(* what it saw: the bytes at every path, and with them the actions.          *)
Removable(t) == {p \in Path \ SharedGuarded : t[p] = "CREATE_PLANNED"}
DetachReady(t, there) == \A p \in Removable(t) : there[p] \in {"absent", "source"}

Detachment == [adoption : Adoption, saw : [Path -> Bytes]]
Leaves(d)   == {p \in Removable(d.adoption) : d.saw[p] = "source"}
WasGone(d)  == {p \in Removable(d.adoption) : d.saw[p] = "absent"}

VARIABLES
    target,      \* the consumer's file at each path
    maker,       \* who wrote that file: the consumer or an adoption (history)
    touched,     \* the paths the consumer has changed (history)
    late,        \* those it changed behind a check that is acted on (history)
    resumed,     \* adoptions that were interrupted and applied again (history)
    overlaps,    \* adoptions begun beside one that is not rolled back (history)
    directory,   \* does the directory of the nested paths exist?
    stage,       \* staging file of an adoption at a path
    linked,      \* staging files that are the same inode as their target
    quarantine,  \* files a detach has moved away
    restage,     \* staging files of a restoral, by detachment and path
    adoption,    \* adoption journals on disk, by transaction
    snapshot,    \* transactions whose snapshot is on disk
    detach,      \* detach journals on disk, by transaction
    held,        \* the call each process executes
    edits, mishaps

files == <<target, maker, directory, stage, linked, quarantine, restage>>
disk  == <<adoption, snapshot, detach>>
history == <<touched, late, resumed, overlaps>>
environment == <<history, edits, mishaps>>
surface  == <<files, disk, held, environment>>

Busy(w) == held[w] # Idle

Here(w) == Order[held[w].at]

\* A call has looked at the file and removes it, or renames another over it, on
\* the strength of that look.
ActsOn(w, p) == Busy(w) /\ held[w].pc \in {"remove", "return"} /\ p = Here(w)

(* The consumer writes or deletes one of its files; a write makes a new      *)
(* inode.                                                                    *)
Edit(p, bytes) ==
    /\ edits < MaxEdits
    /\ bytes # target[p]
    /\ bytes # "absent" /\ p \in Nested => directory
    /\ edits' = edits + 1
    /\ late' = IF \E w \in Process : ActsOn(w, p) THEN late \cup {p} ELSE late
    /\ target' = [target EXCEPT ![p] = bytes]
    /\ maker' = [maker EXCEPT ![p] = Consumer]
    /\ touched' = touched \cup {p}
    /\ linked' = [t \in DOMAIN linked |-> linked[t] \ {p}]
    /\ UNCHANGED <<directory, stage, quarantine, restage, disk, held, resumed, overlaps, mishaps>>

Empty == /\ \A p \in Nested : target[p] = "absent"
         /\ \A t \in DOMAIN stage, p \in Nested : stage[t][p] = "absent"
         /\ \A r \in restage : r.path \notin Nested

Put(f, k, v) == [x \in DOMAIN f \cup {k} |-> IF x = k THEN v ELSE f[x]]

-----------------------------------------------------------------------------
(***************************************************************************)
(* apply_adoption and recover_adoption of managed_surface_transaction.py,  *)
(* one action per write to the disk.  A process works on its own copy of   *)
(* the journal; what it has not saved is lost when it dies.                *)
(***************************************************************************)

AdoptionEntry == {"PENDING", "STAGING", "CREATED", "VERIFIED", "PRESERVED", "ROLLED_BACK"}
AdoptionStatus == {"PLANNED", "APPLYING", "COMMITTED", "RECOVERY_REQUIRED",
                   "RECOVERY_BLOCKED", "ROLLED_BACK"}
AdoptionJournal == [status : AdoptionStatus, entry : [Path -> AdoptionEntry],
                    staged : SUBSET Path, created : BOOLEAN]

NewAdoption ==
    [status |-> "PLANNED", entry |-> [p \in Path |-> "PENDING"], staged |-> {},
     created |-> FALSE]

ApplySteps == {"begin", "entry", "record", "prepare", "link", "created", "unstage",
               "verify", "post", "snapshot", "commit", "readback"}
UndoSteps  == {"undo", "remove", "cleanup", "rmdir", "close"}

AdoptionCall(op, t, j, pc, at) ==
    [op |-> op, tx |-> t, journal |-> j, pc |-> pc, at |-> at,
     hit |-> FALSE, blocked |-> FALSE]

Stage(t, p) == IF t \in DOMAIN stage THEN stage[t][p] ELSE "absent"
Linked(t, p) == t \in DOMAIN linked /\ p \in linked[t]
Stages(t) == IF t \in DOMAIN stage THEN stage[t] ELSE [p \in Path |-> "absent"]
Links(t)  == IF t \in DOMAIN linked THEN linked[t] ELSE {}

\* exclusive_file_lock on the transaction; the system frees it with its holder.
AdoptionLocked(t) == \E w \in Process :
    Busy(w) /\ held[w].op \in {"apply", "recover"} /\ held[w].tx = t

At(w, op, pc) == Busy(w) /\ held[w].op \in op /\ held[w].pc = pc
Goto(w, pc) == held' = [held EXCEPT ![w].pc = pc]
\* Saving also makes the process go on with what it saved.
SaveAdoption(w, j, pc) ==
    /\ adoption' = [adoption EXCEPT ![held[w].tx] = j]
    /\ held' = [held EXCEPT ![w].journal = j, ![w].pc = pc]

SaveEntry(w, j) ==
    LET last == held[w].at = Len(Order)
    IN  /\ adoption' = [adoption EXCEPT ![held[w].tx] = j]
        /\ held' = [held EXCEPT ![w].journal = j,
                                ![w].pc = IF last THEN "post" ELSE "entry",
                                ![w].at = IF last THEN @ ELSE @ + 1]

OnlyAdoption == UNCHANGED <<files, snapshot, detach, environment>>
NoSave == UNCHANGED <<disk, environment>>

\* An open transaction: interrupted, or waiting for its recovery.
Open(t) == t \in DOMAIN adoption
           /\ adoption[t].status \in {"PLANNED", "APPLYING", "RECOVERY_REQUIRED"}

(* apply_adoption up to the first save: the plan is fresh or that of a       *)
(* transaction that can go on.  A committed one is verified and left alone.  *)
ApplyAdoption(w, t) ==
    /\ ~Busy(w) /\ ~AdoptionLocked(t)
    /\ IF \E u \in DOMAIN adoption \ {t} : adoption[u].status # "ROLLED_BACK"
       THEN overlaps < MaxOverlaps /\ overlaps' = overlaps + 1
       ELSE UNCHANGED overlaps
    /\ IF t \in DOMAIN adoption
       THEN /\ adoption[t].status \notin {"COMMITTED", "RECOVERY_BLOCKED"}
            /\ resumed' = resumed \cup {u \in {t} : Open(u)}
            /\ LET j == IF adoption[t].status = "ROLLED_BACK" THEN NewAdoption
                        ELSE adoption[t]
               IN  /\ adoption' = [adoption EXCEPT ![t] = j]
                   /\ held' = [held EXCEPT ![w] = AdoptionCall("apply", t, j, "begin", 1)]
       ELSE /\ AdoptionReady(target) /\ t = AdoptionPlan(target)
            /\ adoption' = Put(adoption, t, NewAdoption) /\ UNCHANGED resumed
            /\ held' = [held EXCEPT ![w] = AdoptionCall("apply", t, NewAdoption, "begin", 1)]
    /\ UNCHANGED <<files, snapshot, detach, touched, late, edits, mishaps>>

Begin(w) ==
    /\ At(w, {"apply"}, "begin")
    /\ SaveAdoption(w, [held[w].journal EXCEPT !.status = "APPLYING"], "entry")
    /\ OnlyAdoption

\* KEEP_EXACT and PRESERVE_SHARED are proved again and never written.
Preserve(w) ==
    LET h == held[w]  p == Here(w)
    IN  /\ At(w, {"apply"}, "entry") /\ h.tx[p] # "CREATE_PLANNED"
        /\ target[p] = Expected(h.tx, p)
        /\ SaveEntry(w, [h.journal EXCEPT !.entry[p] = "PRESERVED", !.staged = @ \ {p}])
        /\ OnlyAdoption

\* Resuming, an entry that was verified before is only looked at.
PassVerified(w) ==
    LET h == held[w]  p == Here(w)
    IN  /\ At(w, {"apply"}, "entry") /\ h.journal.entry[p] = "VERIFIED"
        /\ target[p] = "source"
        /\ SaveEntry(w, h.journal)
        /\ OnlyAdoption

Creating(w) == /\ At(w, {"apply"}, "entry")
               /\ held[w].tx[Here(w)] = "CREATE_PLANNED"
               /\ held[w].journal.entry[Here(w)] # "VERIFIED"

\* _safe_parent_dirs: the directory is made first and recorded afterwards.
MakeDirectory(w) ==
    /\ Creating(w) /\ Here(w) \in Nested /\ ~directory
    /\ directory' = TRUE /\ Goto(w, "record")
    /\ UNCHANGED <<target, maker, stage, linked, quarantine, restage>> /\ NoSave

RecordDirectory(w) ==
    /\ At(w, {"apply"}, "record")
    /\ SaveAdoption(w, [held[w].journal EXCEPT !.created = TRUE], "entry")
    /\ OnlyAdoption

Announce(w) ==
    LET p == Here(w)
    IN  /\ Creating(w) /\ (p \in Nested => directory)
        /\ SaveAdoption(w, [held[w].journal EXCEPT !.entry[p] = "STAGING",
                                                   !.staged = @ \cup {p}], "prepare")
        /\ OnlyAdoption

\* _prepare_stage: an exact staging file of an earlier attempt is reused.
Prepare(w) ==
    LET t == held[w].tx  p == Here(w)
    IN  /\ At(w, {"apply"}, "prepare") /\ Stage(t, p) # "partial"
        /\ stage' = Put(stage, t, [Stages(t) EXCEPT ![p] = "source"])
        /\ Goto(w, "link")
        /\ UNCHANGED <<target, maker, directory, linked, quarantine, restage>> /\ NoSave

\* _link_stage_no_replace: a hard link, or the proof that it is there already.
LinkStage(w) ==
    LET t == held[w].tx  p == Here(w)
    IN  /\ At(w, {"apply"}, "link")
        /\ target[p] = "absent" \/ (target[p] = "source" /\ Linked(t, p))
        /\ target' = [target EXCEPT ![p] = "source"]
        /\ maker' = [maker EXCEPT ![p] = IF target[p] = "absent" THEN t ELSE @]
        /\ linked' = Put(linked, t, Links(t) \cup {p})
        /\ Goto(w, "created")
        /\ UNCHANGED <<directory, stage, quarantine, restage>> /\ NoSave

RecordCreated(w) ==
    /\ At(w, {"apply"}, "created")
    /\ SaveAdoption(w, [held[w].journal EXCEPT !.entry[Here(w)] = "CREATED"], "unstage")
    /\ OnlyAdoption

DropStage(t, p) ==
    /\ stage' = Put(stage, t, [Stages(t) EXCEPT ![p] = "absent"])
    /\ linked' = Put(linked, t, Links(t) \ {p})

Unstage(w) ==
    LET t == held[w].tx  p == Here(w)
    IN  /\ At(w, {"apply"}, "unstage")
        /\ DropStage(t, p)
        /\ held' = [held EXCEPT ![w].pc = "verify", ![w].journal.staged = @ \ {p}]
        /\ UNCHANGED <<target, maker, directory, quarantine, restage>> /\ NoSave

Verify(w) ==
    LET p == Here(w)
    IN  /\ At(w, {"apply"}, "verify") /\ target[p] = "source"
        /\ SaveEntry(w, [held[w].journal EXCEPT !.entry[p] = "VERIFIED"])
        /\ OnlyAdoption

Installed(t) == \A p \in Path : target[p] = Expected(t, p)

CheckPost(w) ==
    /\ At(w, {"apply"}, "post") /\ Installed(held[w].tx)
    /\ Goto(w, "snapshot") /\ UNCHANGED files /\ NoSave

WriteSnapshot(w) ==
    /\ At(w, {"apply"}, "snapshot")
    /\ snapshot' = snapshot \cup {held[w].tx} /\ Goto(w, "commit")
    /\ UNCHANGED <<files, adoption, detach, environment>>

Commit(w) ==
    /\ At(w, {"apply"}, "commit")
    /\ SaveAdoption(w, [held[w].journal EXCEPT !.status = "COMMITTED"], "readback")
    /\ OnlyAdoption

\* _verify_committed behind the commit.
ReadBack(w) ==
    /\ At(w, {"apply"}, "readback") /\ held[w].tx \in snapshot /\ Installed(held[w].tx)
    /\ held' = [held EXCEPT ![w] = Idle]
    /\ UNCHANGED files /\ NoSave

(* Every check of apply_adoption that fails raises ManagedSurfaceError.      *)
CheckFails(w) ==
    LET h == held[w]  p == Here(w)
    IN  \/ h.pc = "entry" /\ h.tx[p] # "CREATE_PLANNED" /\ target[p] # Expected(h.tx, p)
        \/ h.pc = "entry" /\ h.journal.entry[p] = "VERIFIED" /\ target[p] # "source"
        \/ h.pc = "prepare" /\ Stage(h.tx, p) = "partial"
        \/ h.pc = "link" /\ target[p] # "absent"
                         /\ ~(target[p] = "source" /\ Linked(h.tx, p))
        \/ h.pc = "verify" /\ target[p] # "source"
        \/ h.pc \in {"post", "readback"} /\ ~Installed(h.tx)

Undoing(h) == [h EXCEPT !.pc = "undo", !.at = Len(Order)]

\* The except clause: announce the recovery, then undo under the same lock.
FailAdoption(w) ==
    LET j == [held[w].journal EXCEPT !.status = "RECOVERY_REQUIRED"]
    IN  /\ Busy(w) /\ held[w].op = "apply" /\ held[w].pc \in ApplySteps \ {"begin"}
        /\ \/ CheckFails(w) /\ UNCHANGED mishaps
           \/ mishaps < MaxMishaps /\ mishaps' = mishaps + 1
        /\ adoption' = [adoption EXCEPT ![held[w].tx] = j]
        /\ held' = [held EXCEPT ![w] = Undoing([held[w] EXCEPT !.journal = j])]
        /\ UNCHANGED <<files, snapshot, detach, history, edits>>

\* Mutant: only an announced recovery is one.
RecoverAnnounced(w, t) ==
    /\ ~Busy(w) /\ ~AdoptionLocked(t) /\ t \in DOMAIN adoption
    /\ adoption[t].status = "RECOVERY_REQUIRED"
    /\ held' = [held EXCEPT ![w] =
                   Undoing(AdoptionCall("recover", t, adoption[t], "undo", 1))]
    /\ UNCHANGED files /\ NoSave

RecoverAdoption(w, t) ==
    /\ ~Busy(w) /\ ~AdoptionLocked(t) /\ t \in DOMAIN adoption
    /\ adoption[t].status # "COMMITTED"
    /\ held' = [held EXCEPT ![w] =
                   Undoing(AdoptionCall("recover", t, adoption[t], "undo", 1))]
    /\ UNCHANGED files /\ NoSave

\* The next entry down, or the directory; a blocker stays with the call.
UndoNext(h) ==
    LET b == [h EXCEPT !.blocked = @ \/ h.hit, !.hit = FALSE]
    IN  IF h.at = 1 THEN [b EXCEPT !.pc = "rmdir"]
        ELSE [b EXCEPT !.pc = "undo", !.at = @ - 1]

Undo(w) == At(w, {"apply", "recover"}, "undo")
Settled(h, p, state) ==
    IF h.hit THEN h
    ELSE [h EXCEPT !.journal.entry[p] = state, !.journal.staged = @ \ {p}]

UndoPreserved(w) ==
    LET h == held[w]  p == Here(w)
        seen == [h EXCEPT !.hit = h.tx[p] \in Foreign /\ target[p] # h.tx[p]]
    IN  /\ Undo(w) /\ h.tx[p] # "CREATE_PLANNED"
        /\ held' = [held EXCEPT ![w] = UndoNext(Settled(seen, p, "PRESERVED"))]
        /\ UNCHANGED files /\ NoSave

\* Mutant: the inode of the staging file is no proof.
ProvenByJournal(h, p) == h.journal.entry[p] \in {"CREATED", "VERIFIED"}

\* What the journal or the inode of the staging file proves to be ours.
Proven(h, p) == \/ h.journal.entry[p] \in {"CREATED", "VERIFIED"}
                \/ p \in h.journal.staged /\ Linked(h.tx, p)

StageGone(h, p) == p \notin h.journal.staged \/ Stage(h.tx, p) = "absent"

UndoTarget(w) ==
    LET h == held[w]  p == Here(w)
        hit == IF Proven(h, p) THEN target[p] \in Foreign
               ELSE h.journal.entry[p] = "STAGING" /\ target[p] = "source" /\ StageGone(h, p)
    IN  /\ Undo(w) /\ h.tx[p] = "CREATE_PLANNED"
        /\ held' = [held EXCEPT
              ![w].pc = IF Proven(h, p) /\ target[p] = "source" THEN "remove" ELSE "cleanup",
              ![w].hit = hit]
        /\ UNCHANGED files /\ NoSave

RemoveTarget(w) ==
    LET h == held[w]  p == Here(w)
    IN  /\ At(w, {"apply", "recover"}, "remove")
        /\ target' = [target EXCEPT ![p] = "absent"]
        /\ maker' = [maker EXCEPT ![p] = Consumer]
        /\ linked' = Put(linked, h.tx, Links(h.tx) \ {p})
        /\ held' = [held EXCEPT ![w].pc = "cleanup", ![w].hit = target[p] = "absent"]
        /\ UNCHANGED <<directory, stage, quarantine, restage>> /\ NoSave

\* A torn staging file is drift and stays; an exact one is removed.
UndoStage(w) ==
    LET h == held[w]  p == Here(w)
        seen == [h EXCEPT !.hit = @ \/ (~StageGone(h, p) /\ Stage(h.tx, p) = "partial")]
    IN  /\ At(w, {"apply", "recover"}, "cleanup")
        /\ IF p \in h.journal.staged /\ Stage(h.tx, p) = "source"
           THEN DropStage(h.tx, p) ELSE UNCHANGED <<stage, linked>>
        /\ held' = [held EXCEPT ![w] = UndoNext(Settled(seen, p, "ROLLED_BACK"))]
        /\ UNCHANGED <<target, maker, directory, quarantine, restage>> /\ NoSave

\* _remove_created_dirs: a directory with consumer files in it is kept.
RemoveDirectory(w) ==
    /\ At(w, {"apply", "recover"}, "rmdir")
    /\ directory' = (directory /\ ~(held[w].journal.created /\ Empty))
    /\ Goto(w, "close")
    /\ UNCHANGED <<target, maker, stage, linked, quarantine, restage>> /\ NoSave

\* The last save of a rollback.
CloseAdoption(w) ==
    LET h == held[w]
        j == IF h.blocked THEN [h.journal EXCEPT !.status = "RECOVERY_BLOCKED"]
             ELSE [h.journal EXCEPT !.status = "ROLLED_BACK", !.created = FALSE]
    IN  /\ At(w, {"apply", "recover"}, "close")
        /\ adoption' = [adoption EXCEPT ![h.tx] = j]
        /\ held' = [held EXCEPT ![w] = Idle]
        /\ OnlyAdoption

\* An unlink that fails during a rollback is a blocker, not an error.
UndoCallFails(w) ==
    /\ Busy(w) /\ held[w].op \in {"apply", "recover"} /\ held[w].pc \in {"remove", "cleanup"}
    /\ mishaps < MaxMishaps /\ mishaps' = mishaps + 1
    /\ held' = [held EXCEPT ![w] = IF @.pc = "remove" THEN [@ EXCEPT !.pc = "cleanup", !.hit = TRUE]
                                   ELSE UndoNext([@ EXCEPT !.hit = TRUE])]
    /\ UNCHANGED <<files, disk, history, edits>>

AdoptionStep(w) ==
    \/ Begin(w) \/ Preserve(w) \/ PassVerified(w) \/ MakeDirectory(w) \/ RecordDirectory(w)
    \/ Announce(w) \/ Prepare(w) \/ LinkStage(w) \/ RecordCreated(w) \/ Unstage(w)
    \/ Verify(w) \/ CheckPost(w) \/ WriteSnapshot(w) \/ Commit(w) \/ ReadBack(w)
    \/ FailAdoption(w) \/ UndoPreserved(w) \/ UndoTarget(w) \/ RemoveTarget(w)
    \/ UndoStage(w) \/ RemoveDirectory(w) \/ CloseAdoption(w) \/ UndoCallFails(w)
=============================================================================
