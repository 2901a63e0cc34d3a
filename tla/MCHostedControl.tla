--------------------------- MODULE MCHostedControl ---------------------------
(***************************************************************************)
(* HostedControl for TLC: jobs of the workflow and one private host.       *)
(***************************************************************************)
EXTENDS HostedControl, TLC

CONSTANTS job, host, i1

Sites == {job, host}
Jobs  == {job}
Hosts == {host}
Ranks == [i \in Work |-> IF i = i1 THEN 1 ELSE 2]

\* The host's run makes one step and is put on record early or not at all.
\* Three checkpoints are published; only the second brings a session
\* checkpoint, and only when the host published nothing.  The lease is acquired
\* before main moves, and main moves only when the host has no run.
Depth ==
    /\ \A r \in Run : disk[host][r] # None => disk[host][r].rev <= 1
    /\ Published <= 3
    /\ \A i \in DOMAIN ledgers : \A k \in DOMAIN ledgers[i].comments :
           LET e == ledgers[i].comments[k] IN
           /\ e.checkpoint # None =>
                  /\ k = 2
                  /\ ledgers[i].comments[1].stamp[1] = job
                  /\ disk[host] = NoRuns
           /\ e.stamp[1] = host => k = 1 /\ main = 0
    /\ At(host, "append") => Published = 0
    /\ lease # None => lease.base = 0
    /\ main > 0 => disk[host] = NoRuns

RunSymmetry == Permutations(Run)
=============================================================================
