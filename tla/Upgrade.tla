------------------------------ MODULE Upgrade ------------------------------
(***************************************************************************)
(* The disk of a consumer that is brought from framework revision A to B   *)
(* by one sealed plan of consumer_upgrade_transaction.py.  Files are known *)
(* by their bytes: those of A, those of B, or some bytes of the consumer.  *)
(* The profile is the last item of every plan; the sidecars are the        *)
(* installation record, the operational and the gate binding, which prove  *)
(* to others which revision is installed.                                  *)
(***************************************************************************)
EXTENDS Naturals, Sequences, FiniteSets

CONSTANTS
    Entries,      \* the plan's paths in order
    Profile,      \* the path of the consumer profile
    Sidecars,     \* SIDECARS, in order
    Plans,        \* the plans considered: what happens to each path
    Nested,       \* the paths under the one directory an upgrade may create
    Foreign,      \* bytes of neither revision
    Process,      \* operator calls of apply_consumer_upgrade.py
    Idle, None,   \* model values
    MaxEdits,     \* bound: changes the consumer makes to its files
    MaxMishaps    \* bound: crashes and failed system calls

Items    == Append(Entries, Profile)
Path     == {Items[i] : i \in DOMAIN Items}
Sidecar  == {Sidecars[i] : i \in DOMAIN Sidecars}

\* KEEP stands for the three actions that only verify; it preserves the bytes.
Action   == {"CREATE", "REPLACE", "REMOVE", "KEEP"}
Bytes    == {"absent", "A", "B"} \cup Foreign

ASSUME UpgradeAssumption ==
    /\ Entries \in Seq(STRING) /\ Sidecars \in Seq(STRING) /\ Sidecars # <<>>
    /\ \A i, k \in DOMAIN Items : Items[i] = Items[k] => i = k  \* duplicates are refused
    /\ Path \cap Sidecar = {} /\ Nested \subseteq Path \ {Profile}
    /\ Plans \subseteq [Path -> Action]
    /\ \A q \in Plans : q[Profile] \in {"REPLACE", "KEEP"}
    /\ Foreign \cap {"absent", "A", "B", "partial"} = {}
    /\ MaxEdits \in Nat /\ MaxMishaps \in Nat

VARIABLES
    plan,        \* the sealed plan
    target,      \* the consumer's file at each path
    directory,   \* does the directory of the nested paths exist?
    stage,       \* staging file of a path: absent, partial or B
    linked,      \* paths whose staging file is the same inode as the target
    quarantine,  \* copy of the A bytes of a path: absent, partial or A
    snapshot,    \* is the snapshot of B on disk?
    journal,     \* the transaction's journal on disk, or None
    sidecar,     \* the consumer's sidecar files
    preimage,    \* copies of the sidecars made before the upgrade
    projection,  \* the journal of the sidecars' projection, or None
    held,        \* the call each process executes
    touched,     \* files and sidecars the consumer has changed (history)
    late,        \* those it changed between a call's look and its act (history)
    failed,      \* has a system call failed?  (history)
    edits, mishaps

files  == <<target, directory, stage, linked, quarantine, snapshot>>
proof  == <<sidecar, preimage, projection>>
environment == <<plan, touched, late, failed, edits, mishaps>>
vars   == <<files, journal, proof, held, environment>>

EntryState == {"PENDING", "STAGED", "BACKED_UP", "SOURCE_REMOVED", "TARGET_INSTALLED",
               "VERIFIED", "PRESERVED", "UNCHANGED", "ROLLED_BACK"}
Status == {"PLANNED", "APPLYING", "COMMITTED", "RECOVERY_REQUIRED", "RECOVERY_BLOCKED",
           "ROLLED_BACK"}
Journal == [status : Status, entry : [Path -> EntryState], staged : SUBSET Path,
            created : BOOLEAN, published : BOOLEAN]

\* _new_journal.
NewJournal ==
    [status |-> "PLANNED", staged |-> {}, created |-> FALSE, published |-> FALSE,
     entry |-> [p \in Path |-> IF p = Profile /\ plan[p] = "KEEP" THEN "UNCHANGED" ELSE "PENDING"]]

Before(p) == IF plan[p] = "CREATE" THEN "absent" ELSE "A"
After(p)  == CASE plan[p] = "REMOVE" -> "absent" [] plan[p] = "KEEP" -> "A" [] OTHER -> "B"
IsBefore  == \A p \in Path : target[p] = Before(p)
IsAfter   == \A p \in Path : target[p] = After(p)

Stages(p)  == plan[p] \in {"CREATE", "REPLACE"}
Removes(p) == plan[p] \in {"REPLACE", "REMOVE"}

Projection == [status : {"PREPARED", "COMMITTED", "RECOVERY_REQUIRED", "RECOVERY_BLOCKED",
                         "ROLLED_BACK"},
               source : [Sidecar -> Bytes], aimed : SUBSET Sidecar, there : SUBSET Sidecar]

\* No journal and no projection is a value of its own.
ASSUME NoneAssumption == None \notin Journal /\ None \notin Projection

Busy(w) == held[w] # Idle

\* The call is about to remove or replace x by its name.
ActsOn(w, x) ==
    Busy(w) /\ \/ held[w].pc \in {"unlink", "drop"} /\ x = Items[held[w].at]
               \/ held[w].pc \in {"write", "unproject"} /\ x = Sidecars[held[w].at]

\* The call has looked at x and may still act on what it saw; before the first
\* sidecar is restored all of them are looked at.
HasSeen(w, x) ==
    \/ ActsOn(w, x)
    \/ Busy(w) /\ held[w].pc \in {"sidecars", "unproject", "unprojected"} /\ x \in Sidecar

(* The consumer's tools change or delete a file, or a sidecar, at any time.  *)
Edit(p, bytes) ==
    /\ edits < MaxEdits /\ edits' = edits + 1
    /\ late' = IF \E w \in Process : HasSeen(w, p) THEN late \cup {p} ELSE late
    /\ touched' = touched \cup {p}
    /\ \/ /\ p \in Path /\ bytes # target[p] /\ (p \in Nested => directory)
          /\ target' = [target EXCEPT ![p] = bytes] /\ linked' = linked \ {p}
          /\ UNCHANGED sidecar
       \/ /\ p \in Sidecar /\ bytes # sidecar[p]
          /\ sidecar' = [sidecar EXCEPT ![p] = bytes] /\ UNCHANGED <<target, linked>>
    /\ UNCHANGED <<plan, directory, stage, quarantine, snapshot, journal, preimage,
                   projection, held, failed, mishaps>>
=============================================================================
