-------------------------- MODULE ConnectedUpgrade --------------------------
(***************************************************************************)
(* consumer_upgrade_projection.py around the upgrade transaction: the      *)
(* sidecars are projected to B behind the commit, and brought back to A    *)
(* before it is rolled back.  It takes no lock of its own.                 *)
(***************************************************************************)
EXTENDS UpgradeTransaction

SaveProjection(w, v, pc) ==
    /\ projection' = v
    /\ held' = [held EXCEPT ![w].projection = v, ![w].pc = pc]
    /\ UNCHANGED <<files, journal, sidecar, preimage, environment>>
ReturnWith(w, v) ==
    /\ projection' = v /\ Return(w)
    /\ UNCHANGED <<files, journal, sidecar, preimage, environment>>
There(w) == Sidecars[held[w].at]

\* _validate_source_bindings: the sidecars are valid documents.
SidecarsValid == \A s \in Sidecar : sidecar[s] \in {"A", "B"}

\* apply_connected_upgrade; a projection's journal that exists is taken as it is.
Apply(w) ==
    /\ ~Busy(w)
    /\ IF projection # None THEN held' = [held EXCEPT ![w] = Call("preflight", None, projection)]
       ELSE SidecarsValid /\ held' = [held EXCEPT ![w] = Call("preimage", None, None)]
    /\ UNCHANGED <<files, journal, proof, environment>>

SavePreimage(w) ==
    LET h == held[w]  s == There(w)
    IN  /\ At(w, "preimage")
        /\ IF sidecar[s] = "absent" THEN Return(w) /\ UNCHANGED preimage
           ELSE /\ preimage' = [preimage EXCEPT ![s] = sidecar[s]]
                /\ held' = [held EXCEPT ![w] = IF h.at = Len(Sidecars) THEN [h EXCEPT !.pc = "prepared"]
                                               ELSE [h EXCEPT !.at = @ + 1]]
        /\ UNCHANGED <<files, journal, sidecar, projection, environment>>

Prepare(w) ==
    /\ At(w, "prepared")
    /\ SaveProjection(w, [status |-> "PREPARED", source |-> preimage, aimed |-> {}, there |-> {}],
                      "preflight")

\* project_committed_upgrade reads its journal again, and that of the files.
Project(w) ==
    LET v == projection
        next == CASE v.status = "COMMITTED" ->
                       IF \A s \in Sidecar : sidecar[s] = "B" THEN "return" ELSE "unwind"
                  [] journal = None \/ journal.status # "COMMITTED" \/ ~snapshot -> "unwind"
                  [] OTHER -> "aim"
        goes == [held[w] EXCEPT !.projection = v, !.pc = next, !.at = 1]
    IN  /\ At(w, "project")
        /\ held' = [held EXCEPT ![w] = IF next = "return" /\ IsAfter THEN Idle
                                       ELSE IF next = "return" THEN [goes EXCEPT !.pc = "unwind"]
                                       ELSE goes]
        /\ UNCHANGED <<files, journal, proof, environment>>

\* _cas_project records the digest it aims at, ...
Aim(w) == At(w, "aim") /\ SaveProjection(w, [held[w].projection EXCEPT !.aimed = @ \cup {There(w)}], "compare")

\* ... compares, ...
Compare(w) ==
    LET s == There(w)  v == held[w].projection
    IN  /\ At(w, "compare") /\ sidecar[s] \in {"B", v.source[s]}
        /\ Look(w, IF sidecar[s] = "B" THEN "projected" ELSE "write")

\* ... and swaps.
Swap(w) ==
    /\ At(w, "write") /\ sidecar' = [sidecar EXCEPT ![There(w)] = "B"] /\ Goto(w, "written")
    /\ UNCHANGED <<files, journal, preimage, projection, environment>>

Reread(w) == At(w, "written") /\ sidecar[There(w)] = "B" /\ Look(w, "projected")

RecordProjected(w) ==
    LET h == held[w]  last == h.at = Len(Sidecars)
        v == [h.projection EXCEPT !.there = @ \cup {There(w)}]
    IN  /\ At(w, "projected") /\ projection' = v
        /\ held' = [held EXCEPT ![w] = [h EXCEPT !.projection = v, !.pc = IF last THEN "prove" ELSE "aim",
                                                 !.at = IF last THEN @ ELSE @ + 1]]
        /\ UNCHANGED <<files, journal, sidecar, preimage, environment>>

\* _verify_target: a fresh session of B accepts the files and the sidecars.
ProvedTarget == IsAfter /\ \A s \in Sidecar : sidecar[s] = "B"
Prove(w) == At(w, "prove") /\ ProvedTarget /\ Look(w, "commitproof")
CommitProof(w) ==
    At(w, "commitproof") /\ ReturnWith(w, [held[w].projection EXCEPT !.status = "COMMITTED"])

ProjectionSteps == {"aim", "compare", "write", "written", "projected", "prove", "commitproof"}
ProjectionFails(w) ==
    \/ At(w, "compare") /\ sidecar[There(w)] \notin {"B", held[w].projection.source[There(w)]}
    \/ At(w, "written") /\ sidecar[There(w)] # "B"
    \/ At(w, "prove") /\ ~ProvedTarget

\* The except clause reads the journal again; the callers then roll back.
FailProjection(w) ==
    LET v == [projection EXCEPT !.status = "RECOVERY_REQUIRED"]
    IN  /\ Busy(w) /\ held[w].pc \in ProjectionSteps
        /\ \/ ProjectionFails(w) /\ UNCHANGED <<failed, mishaps>>
           \/ Mishap /\ failed' = TRUE
        /\ projection' = v
        /\ held' = [held EXCEPT ![w].projection = v, ![w].pc = "unwind"]
        /\ UNCHANGED <<files, journal, sidecar, preimage, plan, touched, late, edits>>

\* rollback_connected_upgrade.  (Every transaction here has a projection; the
\* code takes the older ones straight to the recovery of the files.)
Rollback(w) ==
    /\ ~Busy(w) /\ projection # None
    /\ held' = [held EXCEPT ![w] = Call("unwind", None, projection)]
    /\ UNCHANGED <<files, journal, proof, environment>>

\* _preflight_restore: no sidecar is restored unless all of them can be.
Known(v, s) == sidecar[s] = v.source[s] \/ (s \in v.aimed /\ sidecar[s] = "B")

\* Mutant: the files are rolled back and the sidecars left.
UnwindFiles(w) ==
    /\ At(w, "unwind")
    /\ held' = [held EXCEPT ![w].projection = projection, ![w].pc = "rollback",
                            ![w].undo = TRUE, ![w].after = "seal"]
    /\ UNCHANGED <<files, journal, proof, environment>>

Unwind(w) ==
    LET v == projection
    IN  /\ At(w, "unwind")
        /\ IF \A s \in Sidecar : Known(v, s)
           THEN /\ held' = [held EXCEPT ![w] =
                       [@ EXCEPT !.projection = v, !.pc = "sidecars", !.at = Len(Sidecars),
                                 !.undo = TRUE, !.after = "seal"]]
                /\ UNCHANGED <<files, journal, proof, environment>>
           ELSE ReturnWith(w, [v EXCEPT !.status = "RECOVERY_BLOCKED"])

\* Mutant: a commit of the files is taken for the end.
RecoverFilesOnly(w) ==
    /\ ~Busy(w) /\ projection # None /\ journal # None /\ journal.status # "COMMITTED"
    /\ held' = [held EXCEPT ![w] = [Call("rollback", None, projection) EXCEPT !.after = "restore"]]
    /\ UNCHANGED <<files, journal, proof, environment>>

\* recover_connected_upgrade goes forward from a commit, and back otherwise.
Recover(w) ==
    /\ ~Busy(w) /\ projection # None /\ journal # None
    /\ held' = [held EXCEPT ![w] =
           IF journal.status = "COMMITTED" THEN Call("project", None, projection)
           ELSE [Call("rollback", None, projection) EXCEPT !.after = "restore"]]
    /\ UNCHANGED <<files, journal, proof, environment>>

\* recover_upgrade and rollback_upgrade: the journal is read under the lock.
EnterCore(w) ==
    /\ At(w, "rollback") /\ ~Locked
    /\ IF journal = None THEN Return(w)
       ELSE held' = [held EXCEPT ![w].journal = journal, ![w].pc = "recover"]
    /\ UNCHANGED <<files, journal, proof, environment>>

\* A recovery looks as well, but says nothing when it must not go on.
CheckSidecars(w) ==
    /\ At(w, "check")
    /\ held' = [held EXCEPT ![w] =
           IF \A s \in Sidecar : Known(@.projection, s) THEN [@ EXCEPT !.pc = "sidecars"] ELSE Idle]
    /\ UNCHANGED <<files, journal, proof, environment>>

\* One sidecar further; then the files, or the last save of a recovery.
Onward(h) == IF h.at > 1 THEN [h EXCEPT !.pc = "sidecars", !.at = @ - 1]
             ELSE [h EXCEPT !.pc = IF h.undo THEN "rollback" ELSE "sealback"]
Home(h, s) == [h EXCEPT !.projection.there = @ \ {s}]

LookAtSidecar(w) ==
    LET h == held[w]  s == There(w)
    IN  /\ At(w, "sidecars")
        /\ held' = [held EXCEPT ![w] = IF sidecar[s] = h.projection.source[s] THEN Onward(Home(h, s))
                                       ELSE [h EXCEPT !.pc = "unproject"]]
        /\ UNCHANGED <<files, journal, proof, environment>>

RestoreSidecar(w) ==
    LET s == There(w)
    IN  /\ At(w, "unproject")
        /\ sidecar' = [sidecar EXCEPT ![s] = preimage[s]]
        /\ Goto(w, "unprojected")
        /\ UNCHANGED <<files, journal, preimage, projection, environment>>

RecordRestored(w) ==
    LET h == Home(held[w], There(w))
    IN  /\ At(w, "unprojected")
        /\ projection' = h.projection /\ held' = [held EXCEPT ![w] = Onward(h)]
        /\ UNCHANGED <<files, journal, sidecar, preimage, environment>>

\* The last save of a rollback says what the files came to.
Seal(w) ==
    LET back == held[w].journal.status = "ROLLED_BACK" /\ SidecarsValid
    IN  /\ At(w, "seal")
        /\ ReturnWith(w, [held[w].projection EXCEPT
                             !.status = IF back THEN "ROLLED_BACK" ELSE "RECOVERY_BLOCKED"])

SealBack(w) ==
    At(w, "sealback") /\ ReturnWith(w, [held[w].projection EXCEPT !.status = "ROLLED_BACK"])

ConnectedSteps(w) ==
    \/ SavePreimage(w) \/ Prepare(w) \/ Project(w) \/ Aim(w) \/ Compare(w) \/ Swap(w)
    \/ Reread(w) \/ RecordProjected(w) \/ Prove(w) \/ CommitProof(w) \/ FailProjection(w)
    \/ Unwind(w) \/ EnterCore(w) \/ CheckSidecars(w) \/ LookAtSidecar(w)
    \/ RestoreSidecar(w) \/ RecordRestored(w) \/ Seal(w) \/ SealBack(w)

\* A call dies; copies that are being written are torn.
Crash(w) ==
    LET p == Here(w)
    IN  /\ Busy(w) /\ Mishap
        /\ \/ UNCHANGED <<stage, quarantine>>
           \/ /\ At(w, "entry") /\ Stages(p) /\ stage[p] = "absent" /\ (p \in Nested => directory)
              /\ stage' = [stage EXCEPT ![p] = "partial"] /\ UNCHANGED quarantine
           \/ /\ At(w, "backup") \/ (At(w, "entry") /\ plan[p] = "REMOVE")
              /\ quarantine[p] = "absent" /\ target[p] = "A"
              /\ quarantine' = [quarantine EXCEPT ![p] = "partial"] /\ UNCHANGED stage
        /\ Return(w)
        /\ UNCHANGED <<target, directory, linked, snapshot, journal, proof, plan, touched, late, failed, edits>>

Init ==
    /\ plan \in Plans
    /\ target = [p \in Path |-> Before(p)]
    /\ directory = (\E p \in Nested : plan[p] # "CREATE")
    /\ stage = [p \in Path |-> "absent"] /\ linked = {}
    /\ quarantine = [p \in Path |-> "absent"] /\ snapshot = FALSE
    /\ journal = None /\ projection = None
    /\ sidecar = [s \in Sidecar |-> "A"] /\ preimage = [s \in Sidecar |-> "absent"]
    /\ held = [w \in Process |-> Idle] /\ touched = {} /\ late = {} /\ failed = FALSE
    /\ edits = 0 /\ mishaps = 0

Calls(w) == Apply(w) \/ Recover(w) \/ Rollback(w)
Steps(w) == ApplySteps(w) \/ RecoverySteps(w) \/ ConnectedSteps(w)

Next ==
    \/ \E w \in Process : Calls(w) \/ Steps(w) \/ Crash(w)
    \/ \E p \in Path \cup Sidecar, bytes \in Bytes \ {"A"} : Edit(p, bytes)

Spec == Init /\ [][Next]_vars

(* A call that runs goes on; an operator recovers what is open, again and    *)
(* again, and does nothing else for ever.                                    *)
OpenCore == journal # None /\ journal.status \in {"PLANNED", "APPLYING", "RECOVERY_REQUIRED"}

\* The sidecars do not say yet what the files are: the projection announced its
\* recovery, never came behind the commit, or was left in the middle of a rollback
\* (which announces nothing) before or after the files were rolled back.
OpenProof ==
    /\ projection # None /\ journal # None /\ journal.status # "RECOVERY_BLOCKED"
    /\ \/ projection.status = "RECOVERY_REQUIRED"
       \/ projection.status = "PREPARED" /\ journal.status = "COMMITTED"
       \/ /\ projection.status = "COMMITTED"
          /\ \/ journal.status = "ROLLED_BACK"
             \/ ~snapshot \/ \E s \in Sidecar : sidecar[s] # "B"

Fairness == \A w \in Process :
    WF_vars(Steps(w)) /\ SF_vars((OpenCore \/ OpenProof) /\ Recover(w))
LiveSpec == Spec /\ Fairness
-----------------------------------------------------------------------------
Put(p, bytes) == bytes \in Foreign /\ p \in Path \cup Sidecar

(* The journals and the calls have the states their schemas allow.           *)
TypeOK ==
    /\ plan \in Plans /\ target \in [Path -> Bytes] /\ directory \in BOOLEAN
    /\ stage \in [Path -> {"absent", "partial", "B"}] /\ linked \subseteq Path
    /\ quarantine \in [Path -> {"absent", "partial", "A"}] /\ snapshot \in BOOLEAN
    /\ journal \in Journal \cup {None}
    /\ sidecar \in [Sidecar -> Bytes] /\ preimage \in [Sidecar -> Bytes]
    /\ projection \in Projection \cup {None}
    /\ \A w \in Process : Busy(w) => /\ held[w].journal \in Journal \cup {None}
                                     /\ held[w].projection \in Projection \cup {None}
                                     /\ held[w].blocked \subseteq Path

(* The bytes of A are never lost: while they are not in their place they are *)
(* in the quarantine, whatever dies when.                                    *)
SourceSurvives ==
    \A p \in Path \ touched : Removes(p) => target[p] = "A" \/ quarantine[p] = "A"

(* A published snapshot of a committed transaction, which the next upgrade   *)
(* trusts as its source, describes files that are there.                     *)
PublishedIsInstalled ==
    journal # None /\ journal.status = "COMMITTED" /\ snapshot =>
        \A p \in Path \ touched : target[p] = After(p)

(* What calls itself rolled back has exactly the files of A.                 *)
RolledBackIsA ==
    journal # None /\ journal.status = "ROLLED_BACK" =>
        \A p \in Path \ touched : target[p] = Before(p)

(* A sidecar claims B only while the files are committed to it: the proof is *)
(* never ahead of the files, and goes before them.                           *)
ProofFollowsFiles ==
    \A s \in Sidecar \ touched : sidecar[s] = "B" =>
        journal # None /\ journal.status = "COMMITTED"

(* A projection that calls itself rolled back has sidecars and files of A.   *)
RolledBackProof ==
    projection # None /\ projection.status = "ROLLED_BACK" /\ journal.status = "ROLLED_BACK"
        => \A s \in Sidecar \ touched : sidecar[s] = "A"

(* Recovery gets stuck only on what others have changed or the system has    *)
(* refused: a crash alone never blocks it.                                   *)
BlockedByOthers ==
    journal # None /\ journal.status = "RECOVERY_BLOCKED" => touched # {} \/ failed

(* What a journal, a snapshot or a sidecar claims of the installation is     *)
(* true at every moment, whatever dies when (consumer_upgrade_transaction.py,*)
(* consumer_upgrade_projection.py).                                          *)
StatusIsTrue ==
    PublishedIsInstalled /\ RolledBackIsA /\ ProofFollowsFiles /\ RolledBackProof /\ BlockedByOthers

\* The consumer changed x after a call looked at it, and the call is about to act.
Overtaken(x) == x \in late /\ \E w \in Process : ActsOn(w, x)

(* No step of a call destroys bytes of the consumer, whenever the consumer   *)
(* acts and whatever dies, but for one case: the consumer changed the very   *)
(* file after the call had looked at it for the last time.  The code removes *)
(* and replaces by name what it saw, and nothing stops the consumer there.   *)
KeepsForeign ==
    edits' = edits =>
        /\ \A p \in Path : target[p] \in Foreign => target'[p] = target[p] \/ Overtaken(p)
        /\ \A s \in Sidecar : sidecar[s] \in Foreign =>
               sidecar'[s] = sidecar[s] \/ preimage'[s] = sidecar[s] \/ Overtaken(s)
ConsumerBytesSurvive == [][KeepsForeign]_vars

(* What is interrupted settles: committed, rolled back, or openly blocked.   *)
(* (Sidecars the consumer has changed can leave the projection open.)        *)
Settles == []<>(/\ ~OpenCore /\ (OpenProof => touched \cap Sidecar # {})
                /\ \A w \in Process : ~Busy(w))
=============================================================================
