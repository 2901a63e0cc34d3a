-------------------------- MODULE UpgradeTransaction -------------------------
(***************************************************************************)
(* apply_upgrade of consumer_upgrade_transaction.py, one action per write  *)
(* to the disk.  A call works on its own copy of the journal; what it has  *)
(* not saved is lost when it dies.                                         *)
(***************************************************************************)
EXTENDS Upgrade

(* A call: how far it is, the copies of the two journals it works on, and of *)
(* its recovery: what it could not undo, whether it undoes a commit too, and *)
(* what comes after it.                                                      *)
Call(pc, j, v) ==
    [pc |-> pc, at |-> 1, journal |-> j, projection |-> v,
     blocked |-> {}, undo |-> FALSE, after |-> "return"]

At(w, pc) == Busy(w) /\ held[w].pc = pc
Goto(w, pc) == held' = [held EXCEPT ![w].pc = pc]
Here(w) == Items[held[w].at]
Return(w) == held' = [held EXCEPT ![w] = Idle]

\* The calls that hold the transaction's file lock.
CoreSteps == {"begin", "entry", "record", "staged", "backup", "backedup", "remove", "unlink",
              "removed", "install", "installed", "unstage", "verify", "post", "publish",
              "published", "commit", "readback"}
UndoSteps == {"recover", "undo", "drop", "restore", "clear", "rmdir", "purge", "close", "renew"}
Locked == \E w \in Process : Busy(w) /\ held[w].pc \in CoreSteps \cup UndoSteps

Save(w, j, pc) ==
    /\ journal' = j
    /\ held' = [held EXCEPT ![w].journal = j, ![w].pc = pc]
    /\ UNCHANGED <<files, proof, environment>>
SaveEntry(w, state, pc) == Save(w, [held[w].journal EXCEPT !.entry[Here(w)] = state], pc)
Look(w, pc) == Goto(w, pc) /\ UNCHANGED <<files, journal, proof, environment>>

Advance(h) == IF h.at = Len(Items) THEN [h EXCEPT !.pc = "post"]
              ELSE [h EXCEPT !.pc = "entry", !.at = @ + 1]

(* The probe for a committed transaction, and the preflight: before any      *)
(* write the consumer has exactly the files of A.                            *)
Preflight(w) ==
    /\ At(w, "preflight")
    /\ IF journal # None /\ journal.status = "COMMITTED"
       THEN /\ ~Locked
            /\ IF IsAfter /\ snapshot THEN Goto(w, "project") ELSE Return(w)
       ELSE IF IsBefore THEN Goto(w, "open") ELSE Return(w)
    /\ UNCHANGED <<files, journal, proof, environment>>

\* Under the lock: what an earlier attempt left is recovered first.
Open(w) ==
    LET j == IF journal = None \/ journal.status = "ROLLED_BACK" THEN NewJournal ELSE journal
        next == CASE j.status = "PLANNED"          -> "begin"
                  [] j.status = "COMMITTED"        -> IF IsAfter /\ snapshot THEN "project" ELSE "raise"
                  [] j.status = "RECOVERY_BLOCKED" -> "raise"
                  [] OTHER                         -> "recover"
    IN  /\ At(w, "open") /\ ~Locked
        /\ journal' = j
        /\ held' = [held EXCEPT ![w] =
               IF next = "raise" THEN Idle
               ELSE [@ EXCEPT !.journal = j, !.pc = next, !.after = "retry",
                              !.at = IF next = "recover" THEN Len(Items) ELSE 1]]
        /\ UNCHANGED <<files, proof, environment>>

Begin(w) == At(w, "begin") /\ Save(w, [held[w].journal EXCEPT !.status = "APPLYING"], "entry")

\* A path to keep is proved; the journal of an unchanged profile says so already.
Preserve(w) ==
    LET h == held[w]  p == Here(w)
        j == IF p = Profile THEN h.journal ELSE [h.journal EXCEPT !.entry[p] = "PRESERVED"]
    IN  /\ At(w, "entry") /\ plan[p] = "KEEP" /\ target[p] = "A"
        /\ journal' = j /\ held' = [held EXCEPT ![w] = Advance([h EXCEPT !.journal = j])]
        /\ UNCHANGED <<files, proof, environment>>

\* _ensure_parent: the directory is made first and recorded afterwards.
MakeDirectory(w) ==
    /\ At(w, "entry") /\ Stages(Here(w)) /\ Here(w) \in Nested /\ ~directory
    /\ directory' = TRUE /\ Goto(w, "record")
    /\ UNCHANGED <<target, stage, linked, quarantine, snapshot, journal, proof, environment>>

RecordDirectory(w) ==
    At(w, "record") /\ Save(w, [held[w].journal EXCEPT !.created = TRUE], "entry")

\* _write_exact_stage: an exact staging file of an earlier attempt is reused.
WriteStage(w) ==
    LET p == Here(w)
    IN  /\ At(w, "entry") /\ Stages(p) /\ (p \in Nested => directory)
        /\ stage[p] # "partial"
        /\ stage' = [stage EXCEPT ![p] = "B"] /\ Goto(w, "staged")
        /\ UNCHANGED <<target, directory, linked, quarantine, snapshot, journal, proof, environment>>

\* The staging file is announced only when it is complete.
RecordStage(w) ==
    LET p == Here(w)
        j == [held[w].journal EXCEPT !.entry[p] = "STAGED", !.staged = @ \cup {p}]
    IN  At(w, "staged") /\ Save(w, j, IF Removes(p) THEN "backup" ELSE "install")

\* _copy_quarantine, of a file that still is exactly that of A.
BackUp(w) ==
    LET p == Here(w)
    IN  /\ At(w, "backup") \/ (At(w, "entry") /\ plan[p] = "REMOVE")
        /\ target[p] = "A" /\ quarantine[p] # "partial"
        /\ quarantine' = [quarantine EXCEPT ![p] = "A"] /\ Goto(w, "backedup")
        /\ UNCHANGED <<target, directory, stage, linked, snapshot, journal, proof, environment>>

RecordBackUp(w) == At(w, "backedup") /\ SaveEntry(w, "BACKED_UP", "remove")

LookAtSource(w) == At(w, "remove") /\ target[Here(w)] = "A" /\ Look(w, "unlink")

UnlinkSource(w) ==
    LET p == Here(w)
    IN  /\ At(w, "unlink") /\ target[p] # "absent"
        /\ target' = [target EXCEPT ![p] = "absent"] /\ linked' = linked \ {p}
        /\ Goto(w, "removed")
        /\ UNCHANGED <<directory, stage, quarantine, snapshot, journal, proof, environment>>

RecordRemoved(w) ==
    At(w, "removed") /\ SaveEntry(w, "SOURCE_REMOVED", IF Stages(Here(w)) THEN "install" ELSE "verify")

\* Mutant: the installation replaces what is there.
InstallReplacing(w) ==
    LET p == Here(w)
    IN  /\ At(w, "install") /\ stage[p] = "B"
        /\ target' = [target EXCEPT ![p] = "B"] /\ linked' = linked \cup {p}
        /\ Goto(w, "installed")
        /\ UNCHANGED <<directory, stage, quarantine, snapshot, journal, proof, environment>>

\* _link_stage: a hard link, which never replaces a file.
Install(w) ==
    LET p == Here(w)
    IN  /\ At(w, "install") /\ target[p] = "absent" /\ stage[p] = "B"
        /\ target' = [target EXCEPT ![p] = "B"] /\ linked' = linked \cup {p}
        /\ Goto(w, "installed")
        /\ UNCHANGED <<directory, stage, quarantine, snapshot, journal, proof, environment>>

RecordInstalled(w) == At(w, "installed") /\ SaveEntry(w, "TARGET_INSTALLED", "unstage")

RemoveStage(p) == stage' = [stage EXCEPT ![p] = "absent"] /\ linked' = linked \ {p}

Unstage(w) ==
    /\ At(w, "unstage") /\ RemoveStage(Here(w))
    /\ held' = [held EXCEPT ![w].pc = "verify", ![w].journal.staged = @ \ {Here(w)}]
    /\ UNCHANGED <<target, directory, quarantine, snapshot, journal, proof, environment>>

Verify(w) ==
    LET h == held[w]  p == Here(w)
        j == [h.journal EXCEPT !.entry[p] = "VERIFIED"]
    IN  /\ At(w, "verify") /\ target[p] = After(p)
        /\ journal' = j /\ held' = [held EXCEPT ![w] = Advance([h EXCEPT !.journal = j])]
        /\ UNCHANGED <<files, proof, environment>>

CheckAfter(w) == At(w, "post") /\ IsAfter /\ Look(w, "publish")

\* _write_target_snapshot; its digest reaches the journal by the next save.
Publish(w) ==
    /\ At(w, "publish") /\ snapshot' = TRUE /\ Goto(w, "published")
    /\ UNCHANGED <<target, directory, stage, linked, quarantine, journal, proof, environment>>

RecordSnapshot(w) ==
    At(w, "published") /\ Save(w, [held[w].journal EXCEPT !.published = TRUE], "commit")

Commit(w) == At(w, "commit") /\ Save(w, [held[w].journal EXCEPT !.status = "COMMITTED"], "readback")

\* _verify_committed behind the commit; the sidecars come next.
ReadBack(w) == At(w, "readback") /\ IsAfter /\ snapshot /\ Look(w, "project")

(* What apply_upgrade refuses on its way raises ConsumerUpgradeError.        *)
CheckFails(w) ==
    LET p == Here(w)
    IN  \/ At(w, "entry") /\ \/ plan[p] = "KEEP" /\ target[p] # "A"
                             \/ Stages(p) /\ stage[p] = "partial"
                             \/ plan[p] = "REMOVE" /\ (target[p] # "A" \/ quarantine[p] = "partial")
        \/ At(w, "backup") /\ (target[p] # "A" \/ quarantine[p] = "partial")
        \/ At(w, "remove") /\ target[p] # "A"
        \/ At(w, "unlink") /\ target[p] = "absent"
        \/ At(w, "install") /\ target[p] # "absent"
        \/ At(w, "verify") /\ target[p] # After(p)
        \/ At(w, "post") /\ ~IsAfter
        \/ At(w, "readback") /\ ~(IsAfter /\ snapshot)

\* A system call of a step that writes files may fail as well.
Mishap == mishaps < MaxMishaps /\ mishaps' = mishaps + 1

\* The except clause: announce the recovery, then undo under the same lock.
Fail(w) ==
    LET j == [held[w].journal EXCEPT !.status = "RECOVERY_REQUIRED"]
    IN  /\ Busy(w) /\ held[w].pc \in CoreSteps \ {"begin"}
        /\ \/ CheckFails(w) /\ UNCHANGED <<failed, mishaps>>
           \/ Mishap /\ failed' = TRUE
        /\ journal' = j
        /\ held' = [held EXCEPT ![w].journal = j, ![w].pc = "recover", ![w].at = Len(Items),
                                ![w].after = "return"]
        /\ UNCHANGED <<files, proof, plan, touched, late, edits>>

ApplySteps(w) ==
    \/ Preflight(w) \/ Open(w) \/ Begin(w) \/ Preserve(w) \/ MakeDirectory(w)
    \/ RecordDirectory(w) \/ WriteStage(w) \/ RecordStage(w) \/ BackUp(w) \/ RecordBackUp(w)
    \/ LookAtSource(w) \/ UnlinkSource(w) \/ RecordRemoved(w) \/ Install(w)
    \/ RecordInstalled(w) \/ Unstage(w) \/ Verify(w) \/ CheckAfter(w) \/ Publish(w)
    \/ RecordSnapshot(w) \/ Commit(w) \/ ReadBack(w) \/ Fail(w)

-----------------------------------------------------------------------------
(***************************************************************************)
(* _recover_locked of consumer_upgrade_transaction.py: profile first, then *)
(* the entries in reverse order.  What cannot be undone is a blocker; the  *)
(* rest is undone all the same, and the journal is saved once, at the end. *)
(***************************************************************************)

\* COMMITTED without the authority to roll back is only verified, and the call
\* returns or raises: a recovery finds that when another operator has committed
\* since it looked.  Otherwise the snapshot goes first; it is the transaction's
\* own once its digest is in the journal.
RetractSnapshot(w) ==
    /\ At(w, "recover")
    /\ IF held[w].journal.status = "COMMITTED" /\ ~held[w].undo
       THEN Return(w) /\ UNCHANGED snapshot
       ELSE /\ snapshot' = (snapshot /\ ~held[w].journal.published)
            /\ held' = [held EXCEPT ![w].pc = "undo", ![w].at = Len(Items), ![w].blocked = {}]
    /\ UNCHANGED <<target, directory, stage, linked, quarantine, journal, proof, environment>>

Lower(h) == IF h.at = 1 THEN [h EXCEPT !.pc = "rmdir"] ELSE [h EXCEPT !.pc = "undo", !.at = @ - 1]
Blocked(h, p) == [h EXCEPT !.blocked = @ \cup {p}]
Recorded(h, p) ==
    IF p \in h.blocked THEN h
    ELSE [h EXCEPT !.journal.entry[p] = "ROLLED_BACK", !.journal.staged = @ \ {p}]
Undone(h, p) == Lower(Recorded(h, p))

\* A profile that was never touched, or was put back already, is passed over.
Untouched(h) == /\ h.journal.entry[Profile] \in {"PENDING", "ROLLED_BACK"}
                /\ h.journal.status # "COMMITTED"

UndoKept(w) ==
    LET h == held[w]  p == Here(w)
        seen == IF target[p] = "A" THEN h ELSE Blocked(h, p)
    IN  /\ At(w, "undo") /\ plan[p] = "KEEP"
        /\ held' = [held EXCEPT ![w] =
               IF p = Profile /\ h.journal.entry[p] # "UNCHANGED" THEN Lower(h) ELSE Undone(seen, p)]
        /\ UNCHANGED <<files, journal, proof, environment>>

PassProfile(w) ==
    LET h == held[w]
    IN  /\ At(w, "undo") /\ Here(w) = Profile /\ plan[Profile] = "REPLACE" /\ Untouched(h)
        /\ held' = [held EXCEPT ![w] = Lower(h)]
        /\ UNCHANGED <<files, journal, proof, environment>>

\* Mutant: only the journal proves who made a file.
ProvenByJournal(h, p) == p = Profile \/ h.journal.entry[p] \in {"TARGET_INSTALLED", "VERIFIED"}

\* Who made the B bytes: the journal or the inode of the staging file tells;
\* for the profile the bytes are enough.
Proven(h, p) == \/ p = Profile
                \/ h.journal.entry[p] \in {"TARGET_INSTALLED", "VERIFIED"}
                \/ p \in h.journal.staged /\ p \in linked

LookBack(w) ==
    LET h == held[w]  p == Here(w)
        here == target[p]
        next == CASE here = "B" /\ Stages(p) /\ Proven(h, p) -> "drop"
                  [] here = "absent" /\ plan[p] = "CREATE"   -> "clear"
                  [] here \in {"absent", "A"} /\ Removes(p)  -> "restore"
                  [] OTHER                                   -> "blocked"
    IN  /\ At(w, "undo") /\ plan[p] # "KEEP" /\ ~(p = Profile /\ Untouched(h))
        /\ held' = [held EXCEPT ![w] =
               IF next = "blocked" THEN [Blocked(h, p) EXCEPT !.pc = "clear"]
               ELSE [h EXCEPT !.pc = next]]
        /\ UNCHANGED <<files, journal, proof, environment>>

\* The digest has been checked before; the file is removed by its name.
DropInstalled(w) ==
    LET p == Here(w)
    IN  /\ At(w, "drop")
        /\ target' = [target EXCEPT ![p] = "absent"] /\ linked' = linked \ {p}
        /\ held' = [held EXCEPT ![w] =
               [(IF target[p] = "absent" THEN Blocked(@, p) ELSE @)
                   EXCEPT !.pc = IF Removes(p) /\ (target[p] # "absent" \/ p = Profile)
                                  THEN "restore" ELSE "clear"]]
        /\ UNCHANGED <<directory, stage, quarantine, snapshot, journal, proof, environment>>

\* _restore_from_quarantine: by a hard link, which never replaces a file.
Restore(w) ==
    LET h == held[w]  p == Here(w)
        back == target[p] = "absent" /\ quarantine[p] = "A"
    IN  /\ At(w, "restore")
        /\ target' = [target EXCEPT ![p] = IF back THEN "A" ELSE @]
        /\ held' = [held EXCEPT ![w] =
               [(IF back \/ target[p] = "A" THEN h ELSE Blocked(h, p)) EXCEPT !.pc = "clear"]]
        /\ UNCHANGED <<directory, stage, linked, quarantine, snapshot, journal, proof, environment>>

\* A staging file the journal knows of is removed; another one is left.
ClearStage(w) ==
    LET h == held[w]  p == Here(w)
    IN  /\ At(w, "clear")
        /\ IF p \in h.journal.staged THEN RemoveStage(p) ELSE UNCHANGED <<stage, linked>>
        /\ held' = [held EXCEPT ![w] = Undone(h, p)]
        /\ UNCHANGED <<target, directory, quarantine, snapshot, journal, proof, environment>>

\* A system call of the undo that fails is a blocker, not an error.
UndoFails(w) ==
    LET h == held[w]  p == Here(w)
    IN  /\ Busy(w) /\ h.pc \in {"drop", "restore", "clear"}
        /\ Mishap /\ failed' = TRUE
        /\ h.pc = "clear" => p \in h.journal.staged /\ stage[p] # "absent"
        /\ held' = [held EXCEPT ![w] = IF h.pc = "clear" THEN Undone(Blocked(h, p), p)
                                       ELSE [Blocked(h, p) EXCEPT !.pc = "clear"]]
        /\ UNCHANGED <<files, journal, proof, plan, touched, late, edits>>

Empty == \A p \in Nested : target[p] = "absent" /\ stage[p] = "absent"

\* Mutant: the quarantine goes although something could not be undone.
RemoveDirectoryAndPurge(w) ==
    /\ At(w, "rmdir")
    /\ directory' = (directory /\ ~(held[w].journal.created /\ Empty)) /\ Goto(w, "purge")
    /\ UNCHANGED <<target, stage, linked, quarantine, snapshot, journal, proof, environment>>

\* _cleanup_created_dirs: a directory with files in it is kept.
RemoveDirectory(w) ==
    LET h == held[w]
    IN  /\ At(w, "rmdir")
        /\ directory' = (directory /\ ~(h.journal.created /\ Empty))
        /\ Goto(w, IF h.blocked = {} THEN "purge" ELSE "close")
        /\ UNCHANGED <<target, stage, linked, quarantine, snapshot, journal, proof, environment>>

\* The quarantine goes when everything is back, before the journal says so.
PurgeQuarantine(w) ==
    /\ At(w, "purge")
    /\ quarantine' = [p \in Path |-> "absent"] /\ Goto(w, "close")
    /\ UNCHANGED <<target, directory, stage, linked, snapshot, journal, proof, environment>>

\* The one save of a recovery, and what its caller does with the result.
CloseRecovery(w) ==
    LET h == held[w]
        j == IF h.blocked # {} THEN [h.journal EXCEPT !.status = "RECOVERY_BLOCKED"]
             ELSE [h.journal EXCEPT !.status = "ROLLED_BACK", !.created = FALSE, !.published = FALSE]
        next == CASE h.after = "retry" /\ h.blocked = {}  -> "renew"
                  [] h.after = "seal"                     -> "seal"
                  [] h.after = "restore" /\ h.blocked = {} -> "check"
                  [] OTHER                                -> "return"
    IN  /\ At(w, "close")
        /\ journal' = j
        /\ held' = [held EXCEPT ![w] = IF next = "return" THEN Idle
                                       ELSE [h EXCEPT !.journal = j, !.pc = next, !.at = Len(Sidecars)]]
        /\ UNCHANGED <<files, proof, environment>>

\* apply_upgrade goes on with a fresh journal, still under its lock.
Renew(w) ==
    /\ At(w, "renew") /\ journal' = NewJournal
    /\ held' = [held EXCEPT ![w] = [@ EXCEPT !.journal = NewJournal, !.pc = "begin", !.at = 1]]
    /\ UNCHANGED <<files, proof, environment>>

RecoverySteps(w) ==
    \/ RetractSnapshot(w) \/ UndoKept(w) \/ PassProfile(w)
    \/ LookBack(w) \/ DropInstalled(w) \/ Restore(w) \/ ClearStage(w) \/ UndoFails(w)
    \/ RemoveDirectory(w) \/ PurgeQuarantine(w) \/ CloseRecovery(w) \/ Renew(w)
=============================================================================
