-------------------------- MODULE CheckpointManager --------------------------
(***************************************************************************)
(* drigs/recovery/checkpoint.py, for one job: a manifest per step in the   *)
(* job's directory, which names the file of the checkpoint: the manifest   *)
(* itself, or one that the workload wrote.  The manager keeps nothing in   *)
(* memory.  A manifest is truncated and then written: a crash in between   *)
(* leaves one that does not parse.                                         *)
(***************************************************************************)
EXTENDS Naturals, FiniteSets, FiniteSetsExt

CONSTANTS
    MaxStep,    \* bound on the steps saved
    Files,      \* files of the workload
    Own,        \* filepath of a manifest that names itself
    Keeps       \* values of keep_last_n

ASSUME CheckpointAssumption == MaxStep \in Nat /\ Keeps \subseteq Nat

Steps == 1..MaxStep

VARIABLES
    manifest,   \* manifest[s]: "absent", "torn" or "whole", and its filepath
    written,    \* the files of the workload that exist
    saving      \* the [step, file] that save_checkpoint is writing, if any

checkpointVars == <<manifest, written, saving>>

CheckpointInit ==
    /\ manifest = [s \in Steps |-> [state |-> "absent", file |-> Own]]
    /\ written = {}
    /\ saving = {}

\* list_checkpoints: those that parse, in the order of their steps.
Listed == {s \in Steps : manifest[s].state = "whole"}

\* get_latest_checkpoint; 0 for None.
Latest == IF Listed = {} THEN 0 ELSE Max(Listed)

WorkloadWrites(f) ==
    /\ written' = written \cup {f}
    /\ UNCHANGED <<manifest, saving>>

\* A step may be saved again by a job that was resumed before it.
SaveBegins(s, f) ==
    /\ saving = {}
    /\ f = Own \/ f \in written
    /\ saving' = {[step |-> s, file |-> f]}
    /\ manifest' = [manifest EXCEPT ![s].state = "torn"]
    /\ UNCHANGED written

SaveEnds ==
    \E c \in saving :
        /\ manifest' = [manifest EXCEPT ![c.step] = [state |-> "whole", file |-> c.file]]
        /\ saving' = {}
        /\ UNCHANGED written

Crash ==
    /\ saving # {}
    /\ saving' = {}
    /\ UNCHANGED <<manifest, written>>

Newer(s) == {t \in Listed : t > s}

\* Mutant: one less is kept.
BeyondKeptLess(n) == {s \in Listed : n > 0 /\ Cardinality(Newer(s)) >= n - 1}

\* manifests[:-keep_last_n]: those with n newer ones, and none for n = 0.
BeyondKept(n) == {s \in Listed : n > 0 /\ Cardinality(Newer(s)) >= n}

\* cleanup_checkpoints deletes the files the old manifests name: the manifest
\* itself or the workload's file, of which the manifest then stays.  A crash, or
\* an error of unlink, may leave some.
Cleanup(n) ==
    /\ saving = {}
    /\ \E gone \in SUBSET BeyondKept(n) :
          /\ manifest' = [s \in Steps |->
                 IF s \in gone /\ manifest[s].file = Own
                 THEN [state |-> "absent", file |-> Own] ELSE manifest[s]]
          /\ written' = written \ {manifest[s].file : s \in gone}
    /\ UNCHANGED saving

CheckpointNext ==
    \/ \E f \in Files : WorkloadWrites(f)
    \/ \E s \in Steps, f \in Files \cup {Own} : SaveBegins(s, f)
    \/ SaveEnds \/ Crash
    \/ \E n \in Keeps : Cleanup(n)

CheckpointTypeOK ==
    /\ manifest \in [Steps -> [state : {"absent", "torn", "whole"}, file : Files \cup {Own}]]
    /\ written \subseteq Files
    /\ Cardinality(saving) <= 1

HasData(s) == manifest[s].file \in written \cup {Own}

\* Another manifest names the file of the latest one.
Shared == \E s \in Listed \ {Latest} : manifest[s].file = manifest[Latest].file /\ manifest[s].file # Own

\* No step falls below a manifest that was listed, unless that very manifest is
\* the one torn: neither cleanup nor a crash takes the resume point behind it.
NoneBelow == \A s \in Listed : manifest'[s].state # "torn" => Latest' >= s

\* The data of the latest checkpoint stay while no older manifest shares its file
\* and it is not itself torn; a newer checkpoint that takes its place has data.
DataStays ==
    Latest # 0 /\ ~Shared /\ HasData(Latest) /\ manifest'[Latest].state # "torn" => HasData(Latest)'

\* What a recovered job resumes from: a save that a crash tears costs the one
\* manifest it was rewriting, be it the latest, and never an older one, and a
\* cleanup costs the resume point neither its manifest nor its data.  Three things
\* are not promised, for the code does not keep them: a step that is saved again
\* is torn in place, and the job then steps back to the manifest before; that
\* manifest may be one whose file an earlier cleanup deleted; and a cleanup deletes
\* a file that the latest manifest shares with an old one.
ResumePointKept == [][NoneBelow /\ DataStays]_checkpointVars
=============================================================================
