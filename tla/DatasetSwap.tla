----------------------------- MODULE DatasetSwap -----------------------------
(* scripts/prepare_arrow_dataset.py, prepare_dataset: a preparer converts the  *)
(* tables into a directory of its own next to the output, sets an existing     *)
(* output aside, renames its directory into place and removes what it had set  *)
(* aside; its two handlers put the old dataset back.  Several preparers may    *)
(* work on one output, any call of the operating system may fail, and a        *)
(* preparer may be stopped at any point (a signal, or KeyboardInterrupt, which *)
(* `except Exception` does not catch).  Each step is one system call, or       *)
(* several of which only the last touches the shared output.                   *)
EXTENDS Naturals

CONSTANTS Preparers,   \* the calls of prepare_dataset
          Replacing,   \* those with replace=True
          NTables,     \* the tables of a dataset (six; fewer suffice)
          Failing,     \* the kinds of call that may fail
          MaxFailures, \* bound: how many of them do
          None

Earlier == "earlier"  \* the maker of the dataset that was there at first

\* What a directory may hold: the tables that are written, and the manifest.
Contents == [by : Preparers \cup {Earlier}, tables : 0..NTables, manifest : BOOLEAN]

ASSUME SwapAssumption ==
    /\ None \notin Contents
    /\ Earlier \notin Preparers
    /\ Replacing \subseteq Preparers
    /\ NTables \in Nat \ {0}
    /\ Failing \subseteq {"make", "write", "rename", "remove"}
    /\ MaxFailures \in Nat

VARIABLES output,   \* the dataset at output_root, or None
          temp,     \* temp_root of each preparer
          backup,   \* backup_root of each preparer
          pc,       \* where each preparer is
          failures  \* how many calls have failed

vars == <<output, temp, backup, pc, failures>>

Dataset(maker, tables, manifest) ==
    [by |-> maker, tables |-> tables, manifest |-> manifest]

Whole(d) == d # None /\ d.tables = NTables /\ d.manifest

Init ==
    /\ output \in {None, Dataset(Earlier, NTables, TRUE)}
    /\ temp = [p \in Preparers |-> None]
    /\ backup = [p \in Preparers |-> None]
    /\ pc = [p \in Preparers |-> "start"]
    /\ failures = 0

Goto(p, where) == pc' = [pc EXCEPT ![p] = where]

\* A call of the kind fails; the exception takes the preparer to `where`.
Fails(p, kind, where) ==
    /\ kind \in Failing /\ failures < MaxFailures
    /\ failures' = failures + 1
    /\ Goto(p, where)

(* The check on entry, and mkdtemp; both are before the try.                   *)
Enter(p) ==
    /\ pc[p] = "start"
    /\ Goto(p, IF output # None /\ p \notin Replacing THEN "refused" ELSE "making")
    /\ UNCHANGED <<output, temp, backup, failures>>

MakeTemp(p) ==
    /\ pc[p] = "making"
    /\ \/ /\ temp' = [temp EXCEPT ![p] = Dataset(p, 0, FALSE)]
          /\ Goto(p, "converting")
          /\ UNCHANGED failures
       \/ /\ Fails(p, "make", "failed")
          /\ UNCHANGED temp
    /\ UNCHANGED <<output, backup>>

\* Mutant: a table that cannot be converted is skipped.
ConvertTableLenient(p) ==
    /\ pc[p] = "converting"
    /\ temp[p].tables < NTables
    /\ \/ /\ temp' = [temp EXCEPT ![p].tables = @ + 1]
          /\ UNCHANGED <<pc, failures>>
       \/ /\ Fails(p, "write", "looking")
          /\ UNCHANGED temp
    /\ UNCHANGED <<output, backup>>

(* _convert_table for one table after another, then manifest.json.             *)
ConvertTable(p) ==
    /\ pc[p] = "converting"
    /\ temp[p].tables < NTables
    /\ \/ /\ temp' = [temp EXCEPT ![p].tables = @ + 1]
          /\ UNCHANGED <<pc, failures>>
       \/ /\ Fails(p, "write", "unwinding")
          /\ UNCHANGED temp
    /\ UNCHANGED <<output, backup>>

WriteManifest(p) ==
    /\ pc[p] = "converting"
    /\ temp[p].tables = NTables
    /\ \/ /\ temp' = [temp EXCEPT ![p].manifest = TRUE]
          /\ Goto(p, "looking")
          /\ UNCHANGED failures
       \/ /\ Fails(p, "write", "unwinding")
          /\ UNCHANGED temp
    /\ UNCHANGED <<output, backup>>

(* `if output_root.exists()`, and the path reserved for the backup.            *)
Look(p) ==
    /\ pc[p] = "looking"
    /\ \/ /\ Goto(p, IF output # None THEN "settingAside" ELSE "installing")
          /\ UNCHANGED failures
       \/ output # None /\ Fails(p, "make", "unwinding")
    /\ UNCHANGED <<output, temp, backup>>

\* Mutant: the output is removed instead of being set aside.
SetAsideDiscarding(p) ==
    /\ pc[p] = "settingAside"
    /\ output' = None
    /\ Goto(p, IF output # None THEN "installing" ELSE "unwinding")
    /\ UNCHANGED <<temp, backup, failures>>

SetAside(p) ==
    /\ pc[p] = "settingAside"
    /\ \/ /\ output # None
          /\ backup' = [backup EXCEPT ![p] = output]
          /\ output' = None
          /\ Goto(p, "installing")
          /\ UNCHANGED failures
       \/ /\ output = None  \* someone else took it away: FileNotFoundError
          /\ Goto(p, "unwinding")
          /\ UNCHANGED <<output, backup, failures>>
       \/ /\ Fails(p, "rename", "unwinding")
          /\ UNCHANGED <<output, backup>>
    /\ UNCHANGED temp

(* rename replaces no directory that holds anything.                           *)
Install(p) ==
    /\ pc[p] = "installing"
    /\ \/ /\ output = None
          /\ output' = temp[p]
          /\ temp' = [temp EXCEPT ![p] = None]
          /\ Goto(p, "removing")
          /\ UNCHANGED failures
       \/ /\ output # None
          /\ Goto(p, "restoring")
          /\ UNCHANGED <<output, temp, failures>>
       \/ /\ Fails(p, "rename", "restoring")
          /\ UNCHANGED <<output, temp>>
    /\ UNCHANGED backup

(* The old dataset is removed; rmtree may fail with part of it gone.           *)
Remains(d) == {d, [d EXCEPT !.tables = 0], [d EXCEPT !.manifest = FALSE]}

Remove(p) ==
    /\ pc[p] = "removing"
    /\ \/ /\ backup' = [backup EXCEPT ![p] = None]
          /\ Goto(p, "done")
          /\ UNCHANGED failures
       \/ /\ backup[p] # None
          /\ \E d \in Remains(backup[p]) : backup' = [backup EXCEPT ![p] = d]
          /\ Fails(p, "remove", "unwinding")
    /\ UNCHANGED <<output, temp>>

(* The condition of both handlers, and the rename it guards: the inner one is  *)
(* followed by the outer one whatever becomes of it, the outer one by the      *)
(* clean-up, unless its rename raises.                                         *)
MayRestore(p) == backup[p] # None /\ output = None

Check(p, from, ifso, ifnot) ==
    /\ pc[p] = from
    /\ Goto(p, IF MayRestore(p) THEN ifso ELSE ifnot)
    /\ UNCHANGED <<output, temp, backup, failures>>

\* Mutant: the put-back replaces whatever has come to the output meanwhile.
PutBackForcing(p, from, then, raised) ==
    /\ pc[p] = from
    /\ output' = backup[p]
    /\ backup' = [backup EXCEPT ![p] = None]
    /\ Goto(p, then)
    /\ UNCHANGED <<temp, failures>>

PutBack(p, from, then, raised) ==
    /\ pc[p] = from
    /\ \/ /\ output = None
          /\ output' = backup[p]
          /\ backup' = [backup EXCEPT ![p] = None]
          /\ Goto(p, then)
          /\ UNCHANGED failures
       \/ /\ output # None
          /\ Goto(p, raised)
          /\ UNCHANGED <<output, backup, failures>>
       \/ /\ Fails(p, "rename", raised)
          /\ UNCHANGED <<output, backup>>
    /\ UNCHANGED temp

InnerHandler(p) ==
    \/ Check(p, "restoring", "puttingBack", "unwinding")
    \/ PutBack(p, "puttingBack", "unwinding", "unwinding")

OuterHandler(p) ==
    \/ Check(p, "unwinding", "puttingBackAgain", "discarding")
    \/ PutBack(p, "puttingBackAgain", "discarding", "failed")

(* rmtree of both directories with its errors ignored, then raise.             *)
Discard(p) ==
    /\ pc[p] = "discarding"
    /\ temp' = [temp EXCEPT ![p] = None]
    /\ backup' = [backup EXCEPT ![p] = None]
    /\ Goto(p, "failed")
    /\ UNCHANGED <<output, failures>>

Ended == {"refused", "failed", "done", "stopped"}

(* A signal leaves everything as it is.                                        *)
Stop(p) ==
    /\ pc[p] \notin Ended
    /\ Goto(p, "stopped")
    /\ UNCHANGED <<output, temp, backup, failures>>

Next ==
    \E p \in Preparers :
        \/ Enter(p) \/ MakeTemp(p) \/ ConvertTable(p) \/ WriteManifest(p)
        \/ Look(p) \/ SetAside(p) \/ Install(p) \/ Remove(p)
        \/ InnerHandler(p) \/ OuterHandler(p) \/ Discard(p) \/ Stop(p)

Spec == Init /\ [][Next]_vars

-----------------------------------------------------------------------------
Places ==
    Ended \cup {"start", "making", "converting", "looking", "settingAside", "installing",
               "removing", "restoring", "puttingBack", "unwinding", "puttingBackAgain",
               "discarding"}

(* Whoever opens the output finds nothing or a finished dataset, however many  *)
(* preparers replace it, fail and are stopped: the temporary directory, the    *)
(* rename and the put-back of the handlers.                                    *)
OutputIsWhole == output # None => Whole(output)

(* A finished dataset, at the output or set aside next to it, is given up only *)
(* for another one: whatever fails and whoever is stopped, one can be found.   *)
Kept == Whole(output) \/ \E p \in Preparers : Whole(backup[p])
DatasetSurvives == [][Kept => Kept']_vars

(* A preparer that has returned its manifest is not undone: the dataset of     *)
(* before does not come back.                                                  *)
SuccessStands ==
    [][(\E p \in Preparers : pc[p] = "done") /\ output' # output /\ output' # None
         => output'.by # Earlier]_vars

(* Without replace, what is at the output stays there                          *)
(* (test_prepare_dataset_is_non_destructive_without_replace).                  *)
NonDestructive == [][output # None => output' = output]_vars
=============================================================================
