-------------------------- MODULE FormalPreparation --------------------------
(* scripts/prepare_formal_sf10.py: one run after another takes the inputs of   *)
(* the formal benchmark through three stages, each a directory with a manifest *)
(* that is written last: raw (dbgen), q5 (prepare_tpch_q5_data.py) and arrow   *)
(* (prepare_arrow_dataset.py, seen from outside: DatasetSwap has its inside).  *)
(* A run may fail, or be killed, at any point, and between runs the operator   *)
(* may delete a directory; the next run goes on from the directories it finds. *)
(* A killed run takes its child with it; one run works at a time.              *)
EXTENDS Naturals

CONSTANTS NTables,  \* the tables of a stage (six; fewer suffice), at least one
          None

VARIABLES dir,     \* the directory of each stage, or None
          pc,      \* where the run is
          existed  \* the stages whose directory was there when the run began

vars == <<dir, pc, existed>>

Stages == {"raw", "q5", "arrow"}

Ended(how) == <<how, "none">>
Reaching(s) == <<"reaching", s>>
After == [raw |-> Reaching("q5"), q5 |-> Reaching("arrow"), arrow |-> Ended("done")]

\* Data that validate() refuses is flawed: what dbgen leaves on a full disk.
Directory(tables, manifest, flawed) ==
    [tables |-> tables, manifest |-> manifest, flawed |-> flawed]

(* _stage_assessment with the three validators: the manifest parses and it     *)
(* lists all tables, with their sizes and hashes.                              *)
Complete(d) == d # None /\ d.tables = NTables /\ d.manifest = "whole"

Missing(d) == d = None \/ (d.tables = 0 /\ d.manifest = "none")

Assess(d) ==
    IF Missing(d) THEN "missing" ELSE IF Complete(d) THEN "complete" ELSE "invalid"

Init ==
    /\ dir = [s \in Stages |-> None]
    /\ pc = Ended("idle")
    /\ existed = {}

Idle == pc \in {Ended("idle"), Ended("done"), Ended("failed")}

(* preflight, and the options --force and --replace, fixed here for the run.   *)
Begin ==
    /\ Idle
    /\ pc' \in IF \E s \in Stages : Assess(dir[s]) = "invalid"
               THEN {Ended("failed")}
               ELSE {Reaching("raw"), Ended("failed")}  \* failed: not enough free space
    /\ existed' = {s \in Stages : dir[s] # None}
    /\ UNCHANGED dir

\* Mutant: every stage is run again.
WantedAlways(s) == s \in Stages

(* `if state == "complete": continue`                                          *)
Wanted(s) == Assess(dir[s]) # "complete"

Skip(s) ==
    /\ pc = Reaching(s)
    /\ ~Wanted(s)
    /\ pc' = After[s]
    /\ UNCHANGED <<dir, existed>>

(* The start of a stage.  dbgen writes into the directory as it is;            *)
(* prepare_output takes an existing one away if it was told to, else it ends.  *)
Start(s) ==
    /\ pc = Reaching(s)
    /\ s \in {"raw", "q5"}
    /\ Wanted(s)
    /\ \/ /\ s = "raw" \/ dir[s] = None \/ s \in existed
          /\ \E flawed \in (IF s = "raw" THEN BOOLEAN ELSE {dir["raw"].flawed}) :
                dir' = [dir EXCEPT ![s] = Directory(0, "none", flawed)]
          /\ pc' = <<"filling", s>>
       \/ /\ s = "q5" /\ dir[s] # None /\ s \notin existed
          /\ pc' = Ended("failed")
          /\ UNCHANGED dir
    /\ UNCHANGED existed

Fill(s) ==
    /\ pc = <<"filling", s>>
    /\ dir[s].tables < NTables
    /\ dir' = [dir EXCEPT ![s].tables = @ + 1]
    /\ UNCHANGED <<pc, existed>>

(* _raw_manifest, and build_manifest: write_text is not atomic.                *)
OpenManifest(s) ==
    /\ pc = <<"filling", s>>
    /\ dir[s].tables = NTables
    /\ dir' = [dir EXCEPT ![s].manifest = "torn"]
    /\ pc' = <<"closing", s>>
    /\ UNCHANGED existed

(* prepare_tpch_q5_data.py returns 1 when its validation has failed.           *)
Refuses(s) == s = "q5" /\ dir[s].flawed

CloseManifest(s) ==
    /\ pc = <<"closing", s>>
    /\ dir' = [dir EXCEPT ![s].manifest = "whole"]
    /\ pc' = IF Refuses(s) THEN Ended("failed") ELSE <<"checking", s>>
    /\ UNCHANGED existed

(* prepare_dataset: an empty directory is set aside before the new one comes   *)
(* into place; flawed tables may stop the conversion, or may not.              *)
SetArrowAside ==
    /\ pc = Reaching("arrow")
    /\ Wanted("arrow")
    /\ dir["arrow"] # None
    /\ IF "arrow" \in existed
       THEN dir' = [dir EXCEPT !["arrow"] = None] /\ UNCHANGED pc
       ELSE pc' = Ended("failed") /\ UNCHANGED dir
    /\ UNCHANGED existed

ConvertArrow ==
    /\ pc = Reaching("arrow")
    /\ dir["arrow"] = None
    /\ dir' = [dir EXCEPT !["arrow"] = Directory(NTables, "whole", dir["q5"].flawed)]
    /\ pc' = <<"checking", "arrow">>
    /\ UNCHANGED existed

(* The stage is assessed again, then the free space of its output.             *)
Finish(s) ==
    /\ pc = <<"checking", s>>
    /\ IF Assess(dir[s]) = "complete"
       THEN pc' \in {After[s], Ended("failed")}
       ELSE pc' = Ended("failed")
    /\ UNCHANGED <<dir, existed>>

(* A command of the run returns an error, or the run is killed.                *)
Fail ==
    /\ ~Idle
    /\ pc' \in {Ended("failed"), Ended("idle")}
    /\ UNCHANGED <<dir, existed>>

(* The operator deletes a directory, or what is in it.                         *)
Clear(s) ==
    /\ Idle
    /\ dir[s] # None
    /\ \E d \in {None, Directory(0, "none", FALSE)} : dir' = [dir EXCEPT ![s] = d]
    /\ pc' = Ended("idle")
    /\ UNCHANGED existed

(* Or makes the next ones while dbgen runs.                                    *)
Make(s) ==
    /\ pc[2] = "raw"
    /\ s # "raw" /\ dir[s] = None
    /\ dir' = [dir EXCEPT ![s] = Directory(0, "none", FALSE)]
    /\ UNCHANGED <<pc, existed>>

Next ==
    \/ Begin \/ SetArrowAside \/ ConvertArrow \/ Fail
    \/ \E s \in Stages :
          \/ Skip(s) \/ Start(s) \/ Fill(s) \/ OpenManifest(s)
          \/ CloseManifest(s) \/ Finish(s) \/ Clear(s) \/ Make(s)

Spec == Init /\ [][Next]_vars

-----------------------------------------------------------------------------
(* A finished stage is never rebuilt or taken away by a run: only the operator *)
(* undoes hours of generation.                                                 *)
FinishedStagesStay ==
    [][\A s \in Stages : Complete(dir[s]) /\ ~Idle => dir'[s] = dir[s]]_vars

(* Exit 0 means validated data: a stage whose command has failed is not taken  *)
(* for a complete one ("complete" if completed.returncode == 0 else "failed"). *)
DoneMeansValid == pc = Ended("done") => ~dir["q5"].flawed
=============================================================================
