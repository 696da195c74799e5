-------------------------- MODULE DatasetSwap_proof --------------------------
(* Proofs about DatasetSwap, for every set of preparers and tables and any     *)
(* number of failures, as long as no removal fails halfway; and about the      *)
(* stages of FormalPreparation, for any number of tables and of runs.          *)
EXTENDS MCPreparation, TLAPS

RemovalsSucceed == "remove" \notin Failing

(* The inductive invariant.  Whatever is set aside is whole, and so is the     *)
(* directory of a preparer that looks for the output or is past that.          *)
PathsOK ==
    /\ temp \in [Preparers -> Contents \cup {None}]
    /\ backup \in [Preparers -> Contents \cup {None}]
    /\ pc \in [Preparers -> Places]
    /\ output \in Contents \cup {None}

AsideIsWhole == \A p \in Preparers : backup[p] # None => Whole(backup[p])

ConvertsSomething == \A p \in Preparers : pc[p] = "converting" => temp[p] \in Contents

ReadyIsWhole ==
    \A p \in Preparers :
        pc[p] \in {"looking", "settingAside", "installing"} => Whole(temp[p])

PutsBackSomething ==
    \A p \in Preparers :
        pc[p] \in {"puttingBack", "puttingBackAgain"} => backup[p] # None

(* While nothing is at the output, some preparer holds a dataset that it is    *)
(* not about to remove: this is why no handler and no removal loses the last.  *)
Holds(p) == backup[p] # None /\ pc[p] \notin {"removing", "discarding"}

SomeoneHolds ==
    output = None /\ (\E p \in Preparers : backup[p] # None)
        => \E p \in Preparers : Holds(p)

IInv ==
    /\ PathsOK
    /\ OutputIsWhole
    /\ AsideIsWhole
    /\ ConvertsSomething
    /\ ReadyIsWhole
    /\ PutsBackSomething
    /\ SomeoneHolds

-----------------------------------------------------------------------------
(* The directory of a new preparer, a written table and the manifest.          *)
LEMMA MakesContents ==
    ASSUME NEW p \in Preparers
    PROVE  Dataset(p, 0, FALSE) \in Contents
BY SwapAssumption DEF Dataset, Contents

LEMMA WritesContents ==
    ASSUME NEW d \in Contents, d.tables < NTables
    PROVE  [d EXCEPT !.tables = @ + 1] \in Contents
BY SwapAssumption DEF Contents

LEMMA FinishesContents ==
    ASSUME NEW d \in Contents, d.tables = NTables
    PROVE  /\ [d EXCEPT !.manifest = TRUE] \in Contents
           /\ Whole([d EXCEPT !.manifest = TRUE])
<1>1. [d EXCEPT !.manifest = TRUE] \in Contents
  BY DEF Contents
<1>2. [d EXCEPT !.manifest = TRUE].tables = NTables
  BY DEF Contents
<1>3. [d EXCEPT !.manifest = TRUE].manifest
  BY DEF Contents
<1> QED BY <1>1, <1>2, <1>3, SwapAssumption DEF Whole

LEMMA InitIInv == ASSUME Init PROVE IInv
<1>1. Dataset(Earlier, NTables, TRUE) \in Contents
  BY SwapAssumption DEF Dataset, Contents
<1>2. Whole(Dataset(Earlier, NTables, TRUE))
  BY <1>1, SwapAssumption DEF Dataset, Whole
<1>3. PathsOK
  <2>1. pc \in [Preparers -> Places] BY DEF Init, Places
  <2>2. output \in Contents \cup {None} BY <1>1 DEF Init
  <2>3. temp \in [Preparers -> Contents \cup {None}] BY DEF Init
  <2>4. backup \in [Preparers -> Contents \cup {None}] BY DEF Init
  <2> QED BY <2>1, <2>2, <2>3, <2>4 DEF PathsOK
<1>4. OutputIsWhole BY <1>2 DEF Init, OutputIsWhole
<1>5. AsideIsWhole BY DEF Init, AsideIsWhole
<1>6. ConvertsSomething BY DEF Init, ConvertsSomething
<1>7. ReadyIsWhole BY DEF Init, ReadyIsWhole
<1>8. PutsBackSomething BY DEF Init, PutsBackSomething
<1>9. SomeoneHolds BY DEF Init, SomeoneHolds
<1> QED BY <1>3, <1>4, <1>5, <1>6, <1>7, <1>8, <1>9 DEF IInv

-----------------------------------------------------------------------------
(* A step that leaves the output and everything set aside alone, as long as    *)
(* the preparer that takes it does not come to removing something it holds     *)
(* while nothing is at the output.                                             *)
LEMMA ElsewhereKeeps ==
    ASSUME IInv, NEW p \in Preparers, NEW where \in Places,
           UNCHANGED <<output, backup>>,
           pc' = [pc EXCEPT ![p] = where],
           where \in {"removing", "discarding"} /\ output = None => backup[p] = None,
           where \in {"puttingBack", "puttingBackAgain"} => backup[p] # None
    PROVE  OutputIsWhole' /\ AsideIsWhole' /\ PutsBackSomething' /\ SomeoneHolds'
<1> USE DEF IInv, PathsOK
<1>1. OutputIsWhole' BY DEF OutputIsWhole, Whole
<1>2. AsideIsWhole' BY DEF AsideIsWhole, Whole
<1>3. PutsBackSomething' BY DEF PutsBackSomething
<1>4. SomeoneHolds'
  <2> SUFFICES ASSUME output' = None, \E q \in Preparers : backup'[q] # None
               PROVE  \E q \in Preparers : Holds(q)'
    BY DEF SomeoneHolds
  <2>1. PICK q \in Preparers : Holds(q) BY DEF SomeoneHolds
  <2>2. Holds(q)' BY <2>1 DEF Holds
  <2> QED BY <2>2
<1> QED BY <1>1, <1>2, <1>3, <1>4

(* The same for the rest of the invariant, of a step that leaves temp alone.   *)
LEMMA ElsewhereKeepsTemp ==
    ASSUME IInv, NEW p \in Preparers, NEW where \in Places,
           UNCHANGED temp,
           pc' = [pc EXCEPT ![p] = where],
           output' \in Contents \cup {None},
           backup' \in [Preparers -> Contents \cup {None}],
           where = "converting" => pc[p] = "converting",
           where \in {"looking", "settingAside", "installing"} => Whole(temp[p])
    PROVE  PathsOK' /\ ConvertsSomething' /\ ReadyIsWhole'
<1> USE DEF IInv, PathsOK
<1>1. PathsOK' OBVIOUS
<1>2. ConvertsSomething' BY DEF ConvertsSomething
<1>3. ReadyIsWhole' BY DEF ReadyIsWhole, Whole
<1> QED BY <1>1, <1>2, <1>3

(* Steps that only move on: nothing they do shows at any path.                 *)
LEMMA MovesKeep ==
    ASSUME IInv, NEW p \in Preparers, NEW where \in Places,
           UNCHANGED <<output, temp, backup>>,
           pc' = [pc EXCEPT ![p] = where],
           where # "converting",
           where \in {"looking", "settingAside", "installing"} => Whole(temp[p]),
           where \in {"removing", "discarding"} /\ output = None => backup[p] = None,
           where \in {"puttingBack", "puttingBackAgain"} => backup[p] # None
    PROVE  IInv'
<1>1. output' \in Contents \cup {None} /\ backup' \in [Preparers -> Contents \cup {None}]
  BY DEF IInv, PathsOK
<1>2. PathsOK' /\ ConvertsSomething' /\ ReadyIsWhole'
  BY <1>1, ElsewhereKeepsTemp
<1>3. OutputIsWhole' /\ AsideIsWhole' /\ PutsBackSomething' /\ SomeoneHolds'
  BY ElsewhereKeeps
<1> QED BY <1>2, <1>3 DEF IInv

-----------------------------------------------------------------------------
(* One lemma per action.                                                       *)
LEMMA EnterKeeps == ASSUME IInv, NEW p \in Preparers, Enter(p) PROVE IInv'
<1>1. PICK where \in {"refused", "making"} :
        pc' = [pc EXCEPT ![p] = where] /\ UNCHANGED <<output, temp, backup>>
  BY DEF Enter, Goto
<1>2. where \in Places BY DEF Places, Ended
<1> QED BY <1>1, <1>2, MovesKeep

LEMMA StopKeeps == ASSUME IInv, NEW p \in Preparers, Stop(p) PROVE IInv'
BY MovesKeep DEF Stop, Goto, Places, Ended

LEMMA LookKeeps == ASSUME IInv, NEW p \in Preparers, Look(p) PROVE IInv'
<1>1. Whole(temp[p]) BY DEF Look, IInv, ReadyIsWhole
<1> QED BY <1>1, MovesKeep DEF Look, Goto, Fails, Places

LEMMA MakeTempKeeps == ASSUME IInv, NEW p \in Preparers, MakeTemp(p) PROVE IInv'
<1>1. UNCHANGED <<output, backup>> BY DEF MakeTemp
<1>2. CASE UNCHANGED temp /\ pc' = [pc EXCEPT ![p] = "failed"]
  BY <1>1, <1>2, MovesKeep DEF Places, Ended
<1>3. CASE temp' = [temp EXCEPT ![p] = Dataset(p, 0, FALSE)] /\ pc' = [pc EXCEPT ![p] = "converting"]
  <2>1. "converting" \in Places BY DEF Places
  <2>2. OutputIsWhole' /\ AsideIsWhole' /\ PutsBackSomething' /\ SomeoneHolds'
    BY <1>1, <1>3, <2>1, ElsewhereKeeps
  <2>3. PathsOK' BY <1>1, <1>3, <2>1, MakesContents DEF IInv, PathsOK
  <2>4. ConvertsSomething'
    BY <1>3, MakesContents DEF IInv, PathsOK, ConvertsSomething
  <2>5. ReadyIsWhole' BY <1>3 DEF IInv, PathsOK, ReadyIsWhole, Whole
  <2> QED BY <2>2, <2>3, <2>4, <2>5 DEF IInv
<1> QED BY <1>2, <1>3 DEF MakeTemp, Goto, Fails

(* The directory of one preparer changes and nothing else does.                *)
LEMMA WritesKeep ==
    ASSUME IInv, NEW p \in Preparers, NEW where \in {"converting", "looking"},
           UNCHANGED <<output, backup>>,
           pc' = [pc EXCEPT ![p] = where],
           NEW d \in Contents,
           temp' = [temp EXCEPT ![p] = d],
           where = "looking" => Whole(d)
    PROVE  IInv'
<1>1. where \in Places BY DEF Places
<1>2. OutputIsWhole' /\ AsideIsWhole' /\ PutsBackSomething' /\ SomeoneHolds'
  BY <1>1, ElsewhereKeeps
<1>3. PathsOK' BY <1>1 DEF IInv, PathsOK
<1>4. ConvertsSomething' BY DEF IInv, PathsOK, ConvertsSomething
<1>5. ReadyIsWhole' BY DEF IInv, PathsOK, ReadyIsWhole, Whole
<1> QED BY <1>2, <1>3, <1>4, <1>5 DEF IInv

LEMMA ConvertTableKeeps == ASSUME IInv, NEW p \in Preparers, ConvertTable(p) PROVE IInv'
<1>1. pc[p] = "converting" /\ temp[p].tables < NTables /\ UNCHANGED <<output, backup>>
  BY DEF ConvertTable
<1>2. temp[p] \in Contents BY <1>1 DEF IInv, ConvertsSomething
<1>3. CASE temp' = [temp EXCEPT ![p].tables = @ + 1] /\ UNCHANGED pc
  <2>1. pc' = [pc EXCEPT ![p] = "converting"] BY <1>1, <1>3 DEF IInv, PathsOK
  <2>2. temp' = [temp EXCEPT ![p] = [temp[p] EXCEPT !.tables = @ + 1]]
    BY <1>3 DEF IInv, PathsOK
  <2> QED BY <1>1, <1>2, <2>1, <2>2, WritesContents, WritesKeep
<1>4. CASE UNCHANGED temp /\ pc' = [pc EXCEPT ![p] = "unwinding"]
  BY <1>1, <1>4, MovesKeep DEF Places
<1> QED BY <1>3, <1>4 DEF ConvertTable, Fails, Goto

LEMMA WriteManifestKeeps == ASSUME IInv, NEW p \in Preparers, WriteManifest(p) PROVE IInv'
<1>1. pc[p] = "converting" /\ temp[p].tables = NTables /\ UNCHANGED <<output, backup>>
  BY DEF WriteManifest
<1>2. temp[p] \in Contents BY <1>1 DEF IInv, ConvertsSomething
<1>3. CASE temp' = [temp EXCEPT ![p].manifest = TRUE] /\ pc' = [pc EXCEPT ![p] = "looking"]
  <2>1. temp' = [temp EXCEPT ![p] = [temp[p] EXCEPT !.manifest = TRUE]]
    BY <1>3 DEF IInv, PathsOK
  <2> QED BY <1>1, <1>2, <1>3, <2>1, FinishesContents, WritesKeep
<1>4. CASE UNCHANGED temp /\ pc' = [pc EXCEPT ![p] = "unwinding"]
  BY <1>1, <1>4, MovesKeep DEF Places
<1> QED BY <1>3, <1>4 DEF WriteManifest, Fails, Goto

LEMMA SetAsideKeeps == ASSUME IInv, NEW p \in Preparers, SetAside(p) PROVE IInv'
<1>1. UNCHANGED temp /\ Whole(temp[p]) BY DEF SetAside, IInv, ReadyIsWhole
<1>2. CASE UNCHANGED <<output, backup>> /\ pc' = [pc EXCEPT ![p] = "unwinding"]
  BY <1>1, <1>2, MovesKeep DEF Places
<1>3. CASE /\ output # None
           /\ backup' = [backup EXCEPT ![p] = output]
           /\ output' = None
           /\ pc' = [pc EXCEPT ![p] = "installing"]
  <2>1. "installing" \in Places BY DEF Places
  <2>2. /\ output' \in Contents \cup {None}
        /\ backup' \in [Preparers -> Contents \cup {None}]
    BY <1>3 DEF IInv, PathsOK
  <2>3. PathsOK' /\ ConvertsSomething' /\ ReadyIsWhole'
    BY <1>1, <1>3, <2>1, <2>2, ElsewhereKeepsTemp
  <2>4. OutputIsWhole' BY <1>3 DEF OutputIsWhole
  <2>5. AsideIsWhole' BY <1>3 DEF IInv, PathsOK, OutputIsWhole, AsideIsWhole, Whole
  <2>6. PutsBackSomething' BY <1>3 DEF IInv, PathsOK, PutsBackSomething
  <2>7. Holds(p)' BY <1>3 DEF IInv, PathsOK, Holds
  <2> QED BY <2>3, <2>4, <2>5, <2>6, <2>7 DEF IInv, SomeoneHolds
<1> QED BY <1>2, <1>3 DEF SetAside, Fails, Goto

(* Whatever comes to the output is whole.                                      *)
LEMMA ArrivalKeeps ==
    ASSUME IInv, NEW p \in Preparers, NEW where \in {"removing", "unwinding", "discarding"},
           Whole(output'), output' \in Contents,
           \/ UNCHANGED <<backup, temp>>
           \/ backup' = [backup EXCEPT ![p] = None] /\ UNCHANGED temp
           \/ temp' = [temp EXCEPT ![p] = None] /\ UNCHANGED backup,
           pc' = [pc EXCEPT ![p] = where]
    PROVE  IInv'
<1>1. where \in Places BY DEF Places
<1>2. PathsOK' BY <1>1 DEF IInv, PathsOK
<1>3. OutputIsWhole' BY DEF OutputIsWhole, Whole
<1>4. AsideIsWhole' BY DEF IInv, PathsOK, AsideIsWhole, Whole
<1>5. ConvertsSomething' BY DEF IInv, PathsOK, ConvertsSomething
<1>6. ReadyIsWhole' BY DEF IInv, PathsOK, ReadyIsWhole, Whole
<1>7. PutsBackSomething' BY DEF IInv, PathsOK, PutsBackSomething
<1>8. SomeoneHolds' BY SwapAssumption DEF SomeoneHolds, Whole
<1> QED BY <1>2, <1>3, <1>4, <1>5, <1>6, <1>7, <1>8 DEF IInv

LEMMA InstallKeeps == ASSUME IInv, NEW p \in Preparers, Install(p) PROVE IInv'
<1>1. UNCHANGED backup /\ Whole(temp[p]) BY DEF Install, IInv, ReadyIsWhole
<1>2. temp[p] \in Contents BY <1>1 DEF IInv, PathsOK, Whole
<1>3. CASE UNCHANGED <<output, temp>> /\ pc' = [pc EXCEPT ![p] = "restoring"]
  BY <1>1, <1>3, MovesKeep DEF Places
<1>4. CASE /\ output' = temp[p]
           /\ temp' = [temp EXCEPT ![p] = None]
           /\ pc' = [pc EXCEPT ![p] = "removing"]
  <2>1. Whole(output') /\ output' \in Contents BY <1>1, <1>2, <1>4 DEF Whole
  <2> QED BY <1>1, <1>4, <2>1, ArrivalKeeps
<1> QED BY <1>3, <1>4 DEF Install, Fails, Goto

LEMMA PutBackKeeps ==
    ASSUME IInv, NEW p \in Preparers,
           NEW from \in {"puttingBack", "puttingBackAgain"},
           NEW then \in {"unwinding", "discarding"},
           NEW raised \in {"unwinding", "failed"},
           PutBack(p, from, then, raised)
    PROVE  IInv'
<1>1. UNCHANGED temp /\ backup[p] # None BY DEF PutBack, IInv, PutsBackSomething
<1>2. Whole(backup[p]) /\ backup[p] \in Contents BY <1>1 DEF IInv, AsideIsWhole, PathsOK
<1>3. raised \in Places BY DEF Places, Ended
<1>4. CASE UNCHANGED <<output, backup>> /\ pc' = [pc EXCEPT ![p] = raised]
  BY <1>1, <1>3, <1>4, MovesKeep
<1>5. CASE /\ output' = backup[p]
           /\ backup' = [backup EXCEPT ![p] = None]
           /\ pc' = [pc EXCEPT ![p] = then]
  <2>1. Whole(output') /\ output' \in Contents BY <1>2, <1>5 DEF Whole
  <2> QED BY <1>1, <1>5, <2>1, ArrivalKeeps
<1> QED BY <1>4, <1>5 DEF PutBack, Fails, Goto

LEMMA CheckKeeps ==
    ASSUME IInv, NEW p \in Preparers, NEW from,
           NEW ifso \in {"puttingBack", "puttingBackAgain"},
           NEW ifnot \in {"unwinding", "discarding"},
           Check(p, from, ifso, ifnot)
    PROVE  IInv'
<1>1. UNCHANGED <<output, temp, backup>> BY DEF Check
<1>2. ifso \in Places /\ ifnot \in Places BY DEF Places
<1>3. CASE MayRestore(p) /\ pc' = [pc EXCEPT ![p] = ifso]
  BY <1>1, <1>2, <1>3, MovesKeep DEF MayRestore
<1>4. CASE ~MayRestore(p) /\ pc' = [pc EXCEPT ![p] = ifnot]
  BY <1>1, <1>2, <1>4, MovesKeep DEF MayRestore
<1> QED BY <1>3, <1>4 DEF Check, Goto

(* Something that is set aside is removed, but not the last of all.            *)
LEMMA RemovalKeeps ==
    ASSUME IInv, NEW p \in Preparers, NEW where \in {"done", "failed"},
           pc[p] \in {"removing", "discarding"},
           backup' = [backup EXCEPT ![p] = None],
           temp' = temp \/ temp' = [temp EXCEPT ![p] = None],
           UNCHANGED output,
           pc' = [pc EXCEPT ![p] = where]
    PROVE  IInv'
<1>1. where \in Places BY DEF Places, Ended
<1>2. PathsOK' BY <1>1 DEF IInv, PathsOK
<1>3. OutputIsWhole' BY DEF IInv, OutputIsWhole, Whole
<1>4. AsideIsWhole' BY DEF IInv, PathsOK, AsideIsWhole, Whole
<1>5. ConvertsSomething' BY DEF IInv, PathsOK, ConvertsSomething
<1>6. ReadyIsWhole' BY DEF IInv, PathsOK, ReadyIsWhole, Whole
<1>7. PutsBackSomething' BY DEF IInv, PathsOK, PutsBackSomething
<1>8. SomeoneHolds'
  <2> SUFFICES ASSUME output' = None, \E q \in Preparers : backup'[q] # None
               PROVE  \E q \in Preparers : Holds(q)'
    BY DEF SomeoneHolds
  <2>1. \E q \in Preparers : backup[q] # None BY DEF IInv, PathsOK
  <2>2. PICK q \in Preparers : Holds(q) BY <2>1 DEF IInv, SomeoneHolds
  <2>3. Holds(q)' BY <2>2 DEF IInv, PathsOK, Holds
  <2> QED BY <2>3
<1> QED BY <1>2, <1>3, <1>4, <1>5, <1>6, <1>7, <1>8 DEF IInv

-----------------------------------------------------------------------------
LEMMA NextIInv == ASSUME RemovalsSucceed, IInv, [Next]_vars PROVE IInv'
<1>1. CASE UNCHANGED vars
  BY <1>1 DEF vars, IInv, PathsOK, OutputIsWhole, AsideIsWhole, ConvertsSomething,
              ReadyIsWhole, PutsBackSomething, SomeoneHolds, Holds, Whole
<1>2. ASSUME NEW p \in Preparers, Enter(p) \/ MakeTemp(p) \/ ConvertTable(p) \/ WriteManifest(p)
      PROVE  IInv'
  BY <1>2, EnterKeeps, MakeTempKeeps, ConvertTableKeeps, WriteManifestKeeps
<1>3. ASSUME NEW p \in Preparers, Look(p) \/ SetAside(p) \/ Install(p) \/ Stop(p)
      PROVE  IInv'
  BY <1>3, LookKeeps, SetAsideKeeps, InstallKeeps, StopKeeps
<1>4. ASSUME NEW p \in Preparers, Remove(p) PROVE IInv'
  <2>1. /\ pc[p] = "removing"
        /\ backup' = [backup EXCEPT ![p] = None]
        /\ pc' = [pc EXCEPT ![p] = "done"]
        /\ UNCHANGED <<output, temp>>
    BY <1>4 DEF Remove, Fails, Goto, RemovalsSucceed
  <2> QED BY <2>1, RemovalKeeps
<1>5. ASSUME NEW p \in Preparers, InnerHandler(p) PROVE IInv'
  BY <1>5, CheckKeeps, PutBackKeeps DEF InnerHandler
<1>6. ASSUME NEW p \in Preparers, OuterHandler(p) PROVE IInv'
  BY <1>6, CheckKeeps, PutBackKeeps DEF OuterHandler
<1>7. ASSUME NEW p \in Preparers, Discard(p) PROVE IInv'
  BY <1>7, RemovalKeeps DEF Discard, Goto
<1> QED BY <1>1, <1>2, <1>3, <1>4, <1>5, <1>6, <1>7 DEF Next

LEMMA Invariance == ASSUME RemovalsSucceed PROVE Spec => []IInv
<1>1. Init => IInv BY InitIInv
<1>2. IInv /\ [Next]_vars => IInv' BY NextIInv
<1> QED BY <1>1, <1>2, PTL DEF Spec

(* Whoever opens the output finds nothing or a finished dataset.               *)
THEOREM ReadersSeeWholeDatasets == ASSUME RemovalsSucceed PROVE Spec => []OutputIsWhole
<1>1. IInv => OutputIsWhole BY DEF IInv
<1> QED BY <1>1, Invariance, PTL

(* A step that leaves the output and the backups alone gives nothing up, and   *)
(* neither does the removal of one backup, since someone else holds another    *)
(* when there is nothing at the output.                                        *)
LEMMA UnchangedIsKept == ASSUME Kept, UNCHANGED <<output, backup>> PROVE Kept'
BY DEF Kept, Whole

LEMMA RemovalIsKept ==
    ASSUME IInv, Kept, NEW p \in Preparers,
           pc[p] \in {"removing", "discarding"},
           backup' = [backup EXCEPT ![p] = None],
           UNCHANGED output
    PROVE  Kept'
<1>1. CASE output # None
  BY <1>1 DEF IInv, OutputIsWhole, Kept, Whole
<1>2. CASE output = None
  <2>1. \E q \in Preparers : backup[q] # None BY <1>2 DEF Kept, Whole
  <2>2. PICK q \in Preparers : Holds(q) BY <1>2, <2>1 DEF IInv, SomeoneHolds
  <2>3. Whole(backup'[q]) BY <2>2 DEF IInv, PathsOK, AsideIsWhole, Holds, Whole
  <2> QED BY <2>3 DEF Kept, Whole
<1> QED BY <1>1, <1>2

LEMMA PutBackIsKept ==
    ASSUME IInv, Kept, NEW p \in Preparers,
           NEW from \in {"puttingBack", "puttingBackAgain"}, NEW then, NEW raised,
           PutBack(p, from, then, raised)
    PROVE  Kept'
<1>1. Whole(backup[p]) BY DEF PutBack, IInv, PutsBackSomething, AsideIsWhole
<1>2. UNCHANGED <<output, backup>> \/ output' = backup[p] BY DEF PutBack, Fails
<1> QED BY <1>1, <1>2, UnchangedIsKept DEF Kept, Whole

LEMMA NextIsKept == ASSUME RemovalsSucceed, IInv, [Next]_vars, Kept PROVE Kept'
<1>1. CASE UNCHANGED vars BY <1>1, UnchangedIsKept DEF vars
<1>2. ASSUME NEW p \in Preparers,
             \/ Enter(p) \/ MakeTemp(p) \/ ConvertTable(p) \/ WriteManifest(p)
             \/ Look(p) \/ Stop(p)
      PROVE  Kept'
  BY <1>2, UnchangedIsKept DEF Enter, MakeTemp, ConvertTable, WriteManifest, Look, Stop
<1>3. ASSUME NEW p \in Preparers, SetAside(p) PROVE Kept'
  <2>1. CASE UNCHANGED <<output, backup>> BY <2>1, UnchangedIsKept
  <2>2. CASE output # None /\ backup' = [backup EXCEPT ![p] = output]
    <3>1. Whole(backup'[p]) BY <2>2 DEF IInv, PathsOK, OutputIsWhole, Whole
    <3> QED BY <3>1 DEF Kept, Whole
  <2> QED BY <1>3, <2>1, <2>2 DEF SetAside, Fails
<1>4. ASSUME NEW p \in Preparers, Install(p) PROVE Kept'
  <2>1. UNCHANGED <<output, backup>> \/ Whole(output')
    BY <1>4 DEF Install, Fails, IInv, ReadyIsWhole, Whole
  <2> QED BY <2>1, UnchangedIsKept DEF Kept, Whole
<1>5. ASSUME NEW p \in Preparers, Remove(p) PROVE Kept'
  BY <1>5, RemovalIsKept DEF Remove, Fails, RemovalsSucceed
<1>6. ASSUME NEW p \in Preparers, InnerHandler(p) \/ OuterHandler(p) PROVE Kept'
  <2>1. (\E then, raised : PutBack(p, "puttingBack", then, raised)
                           \/ PutBack(p, "puttingBackAgain", then, raised))
        \/ UNCHANGED <<output, backup>>
    BY <1>6 DEF InnerHandler, OuterHandler, Check
  <2> QED BY <2>1, PutBackIsKept, UnchangedIsKept
<1>7. ASSUME NEW p \in Preparers, Discard(p) PROVE Kept'
  BY <1>7, RemovalIsKept DEF Discard
<1> QED BY <1>1, <1>2, <1>3, <1>4, <1>5, <1>6, <1>7 DEF Next

(* A finished dataset, at the output or set aside, is given up only for        *)
(* another one, whatever fails and whoever is stopped.                         *)
THEOREM DatasetsSurvive == ASSUME RemovalsSucceed PROVE Spec => DatasetSurvives
<1>1. IInv /\ [Next]_vars => [Kept => Kept']_vars BY NextIsKept
<1> QED BY <1>1, Invariance, PTL DEF Spec, DatasetSurvives

-----------------------------------------------------------------------------
(* With one preparer, or two, a preparer that has installed its dataset knows  *)
(* that the first one does not come back: it is not at the output, and whoever *)
(* else has it set aside finds the output taken.                               *)
AtMostTwo == \A p, q, r \in Preparers : p = q \/ p = r \/ q = r

Installed(p) == pc[p] \in {"removing", "done"}

TempIsOwn == \A p \in Preparers : temp[p] # None => temp[p].by = p

FirstIsGone ==
    \A p \in Preparers : Installed(p) =>
        /\ output # None => output.by # Earlier
        /\ \A q \in Preparers :
              q # p /\ backup[q] # None /\ output = None => backup[q].by # Earlier

LEMMA InitGone == ASSUME Init PROVE TempIsOwn /\ FirstIsGone
BY DEF Init, TempIsOwn, FirstIsGone, Installed

LEMMA NextTempIsOwn == ASSUME IInv, TempIsOwn, [Next]_vars PROVE TempIsOwn'
<1>1. CASE UNCHANGED temp BY <1>1 DEF TempIsOwn
<1>2. ASSUME NEW p \in Preparers, temp' = [temp EXCEPT ![p] = None] PROVE TempIsOwn'
  BY <1>2 DEF TempIsOwn, IInv, PathsOK
<1>3. ASSUME NEW p \in Preparers, MakeTemp(p) PROVE TempIsOwn'
  <2>1. CASE UNCHANGED temp BY <2>1, <1>1
  <2>2. CASE temp' = [temp EXCEPT ![p] = Dataset(p, 0, FALSE)]
    BY <2>2 DEF TempIsOwn, IInv, PathsOK, Dataset
  <2> QED BY <1>3, <2>1, <2>2 DEF MakeTemp
<1>4. ASSUME NEW p \in Preparers, ConvertTable(p) \/ WriteManifest(p)
      PROVE  TempIsOwn'
  <2>1. temp[p] \in Contents BY <1>4 DEF IInv, ConvertsSomething, ConvertTable, WriteManifest
  <2>2. temp[p].by = p BY <2>1, SwapAssumption DEF TempIsOwn
  <2>3. UNCHANGED temp \/ temp'[p].by = temp[p].by
    BY <1>4, <2>1 DEF ConvertTable, WriteManifest, IInv, PathsOK, Contents
  <2>4. \A q \in Preparers \ {p} : temp'[q] = temp[q]
    BY <1>4 DEF ConvertTable, WriteManifest, IInv, PathsOK
  <2> QED BY <2>2, <2>3, <2>4 DEF TempIsOwn
<1> QED
  BY <1>1, <1>2, <1>3, <1>4 DEF Next, vars, Enter, Look, SetAside, Install, Remove,
     InnerHandler, OuterHandler, Check, PutBack, Discard, Stop

(* A step of q keeps what p knows.                                             *)
LEMMA NextFirstIsGone ==
    ASSUME RemovalsSucceed, AtMostTwo, IInv, TempIsOwn, FirstIsGone, [Next]_vars
    PROVE  FirstIsGone'
<1>1. CASE UNCHANGED vars BY <1>1 DEF vars, FirstIsGone, Installed
<1>2. ASSUME NEW q \in Preparers,
             UNCHANGED <<output, backup>>, pc' = [pc EXCEPT ![q] = pc'[q]],
             pc'[q] \notin {"removing", "done"}
      PROVE  FirstIsGone'
  BY <1>2 DEF FirstIsGone, Installed, IInv, PathsOK
<1>3. ASSUME NEW q \in Preparers,
             \/ Enter(q) \/ MakeTemp(q) \/ ConvertTable(q) \/ WriteManifest(q)
             \/ Look(q) \/ Stop(q)
      PROVE  FirstIsGone'
  BY <1>3, <1>2 DEF Enter, MakeTemp, ConvertTable, WriteManifest, Look, Stop, Goto, Fails,
     IInv, PathsOK, FirstIsGone, Installed
<1>4. ASSUME NEW q \in Preparers, SetAside(q) PROVE FirstIsGone'
  <2>1. pc' = [pc EXCEPT ![q] = pc'[q]] /\ pc'[q] \notin {"removing", "done"}
    BY <1>4 DEF SetAside, Goto, Fails, IInv, PathsOK
  <2>2. CASE UNCHANGED <<output, backup>> BY <2>1, <2>2, <1>2
  <2>3. CASE output # None /\ output' = None /\ backup' = [backup EXCEPT ![q] = output]
    BY <2>1, <2>3 DEF FirstIsGone, Installed, IInv, PathsOK, AtMostTwo
  <2> QED BY <1>4, <2>2, <2>3 DEF SetAside
<1>5. ASSUME NEW q \in Preparers, Install(q) PROVE FirstIsGone'
  <2>1. CASE UNCHANGED output /\ Goto(q, "restoring")
    BY <1>5, <2>1, <1>2 DEF Install, Goto, IInv, PathsOK
  <2>2. CASE output' = temp[q] /\ UNCHANGED backup /\ Goto(q, "removing")
    <3>1. output' # None /\ output'.by # Earlier
      BY <1>5, <2>2, SwapAssumption DEF Install, IInv, ReadyIsWhole, Whole, TempIsOwn
    <3> QED BY <3>1 DEF FirstIsGone
  <2> QED BY <1>5, <2>1, <2>2 DEF Install, Fails
<1>6. ASSUME NEW q \in Preparers, UNCHANGED output,
             backup' = [backup EXCEPT ![q] = None],
             \A p \in Preparers : Installed(p)' => Installed(p)
      PROVE  FirstIsGone'
  BY <1>6 DEF FirstIsGone, IInv, PathsOK
<1>7. ASSUME NEW q \in Preparers, Remove(q) PROVE FirstIsGone'
  BY <1>7, <1>6 DEF Remove, Fails, RemovalsSucceed, Goto, Installed, IInv, PathsOK
<1>8. ASSUME NEW q \in Preparers, NEW from, NEW ifso, NEW ifnot,
             {ifso, ifnot} \cap {"removing", "done"} = {}, Check(q, from, ifso, ifnot)
      PROVE  FirstIsGone'
  BY <1>8, <1>2 DEF Check, Goto, IInv, PathsOK
<1>9. ASSUME NEW q \in Preparers, NEW from, NEW then, NEW raised,
             {from, then, raised} \cap {"removing", "done"} = {}, PutBack(q, from, then, raised)
      PROVE  FirstIsGone'
  <2>1. CASE UNCHANGED <<output, backup>>
    BY <1>9, <2>1, <1>2 DEF PutBack, Goto, Fails, IInv, PathsOK
  <2>2. CASE output = None /\ output' = backup[q]
             /\ backup' = [backup EXCEPT ![q] = None] /\ Goto(q, then)
    <3>1. \A p \in Preparers : Installed(p)' => Installed(p) /\ p # q
      BY <1>9, <2>2 DEF PutBack, Goto, Installed, IInv, PathsOK
    <3>2. ASSUME NEW p \in Preparers, Installed(p), p # q, backup[q] # None
          PROVE  backup[q].by # Earlier
      BY <2>2, <3>2 DEF FirstIsGone
    <3>3. ASSUME NEW p \in Preparers, Installed(p), p # q, NEW r \in Preparers, r # p,
                 backup'[r] # None
          PROVE  FALSE
      BY <2>2, <3>3 DEF AtMostTwo, IInv, PathsOK
    <3> QED BY <2>2, <3>1, <3>2, <3>3 DEF FirstIsGone
  <2> QED BY <1>9, <2>1, <2>2 DEF PutBack
<1>10. ASSUME NEW q \in Preparers, InnerHandler(q) \/ OuterHandler(q) PROVE FirstIsGone'
  BY <1>10, <1>8, <1>9 DEF InnerHandler, OuterHandler
<1>11. ASSUME NEW q \in Preparers, Discard(q) PROVE FirstIsGone'
  BY <1>11, <1>6 DEF Discard, Goto, Installed, IInv, PathsOK
<1> QED
  BY <1>1, <1>3, <1>4, <1>5, <1>7, <1>10, <1>11 DEF Next

(* So what a preparer whose work is done then finds at the output is its own   *)
(* dataset or a later one, never the one of before.                            *)
LEMMA NextSuccessStands ==
    ASSUME IInv, TempIsOwn, FirstIsGone, [Next]_vars,
           NEW p \in Preparers, pc[p] = "done", output' # output, output' # None
    PROVE  output'.by # Earlier
<1>1. ASSUME NEW q \in Preparers, Install(q), output' = temp[q] PROVE output'.by # Earlier
  BY <1>1, SwapAssumption DEF TempIsOwn
<1>2. ASSUME NEW q \in Preparers, NEW from \in {"puttingBack", "puttingBackAgain"},
             NEW then, NEW raised, PutBack(q, from, then, raised)
      PROVE  output'.by # Earlier
  <2>1. output = None /\ output' = backup[q] /\ q # p BY <1>2 DEF PutBack
  <2> QED BY <2>1 DEF FirstIsGone, Installed
<1>3. ASSUME NEW q \in Preparers, UNCHANGED output \/ output' = None
      PROVE  FALSE
  BY <1>3
<1>4. PICK q \in Preparers :
        \/ UNCHANGED output \/ output' = None
        \/ Install(q) /\ output' = temp[q]
        \/ \E then, raised : \/ PutBack(q, "puttingBack", then, raised)
                              \/ PutBack(q, "puttingBackAgain", then, raised)
  BY DEF Next, vars, Enter, MakeTemp, ConvertTable, WriteManifest, Look, SetAside, Install,
     Remove, InnerHandler, OuterHandler, Check, Discard, Stop
<1> QED BY <1>1, <1>2, <1>3, <1>4

(* A preparer that has returned its manifest is not undone, as long as no more *)
(* than two work on one output (with three it can be: one takes aside what the *)
(* second had installed, and the third puts the first dataset back).           *)
THEOREM TwoPreparersSucceed ==
    ASSUME RemovalsSucceed, AtMostTwo PROVE Spec => SuccessStands
<1>1. Init => TempIsOwn /\ FirstIsGone BY InitGone
<1>2. IInv /\ TempIsOwn /\ FirstIsGone /\ [Next]_vars => (TempIsOwn /\ FirstIsGone)'
  BY NextTempIsOwn, NextFirstIsGone
<1>3. IInv /\ TempIsOwn /\ FirstIsGone /\ [Next]_vars
        => [(\E p \in Preparers : pc[p] = "done") /\ output' # output /\ output' # None
              => output'.by # Earlier]_vars
  BY NextSuccessStands
<1> QED BY <1>1, <1>2, <1>3, Invariance, PTL DEF Spec, SuccessStands

-----------------------------------------------------------------------------
(* The stages of prepare_formal_sf10.py.  The run that fills a directory began *)
(* with one that was not complete, and it is not complete before its manifest  *)
(* is closed; a stage is begun when the one before it is complete.             *)
StageDirectory == [tables : Nat, manifest : {"none", "torn", "whole"}, flawed : BOOLEAN]

StagesOK ==
    /\ dir \in [Formal!Stages -> StageDirectory \cup {None}]
    /\ \A s \in Formal!Stages :
          /\ formalPc = <<"filling", s>> => dir[s] \in StageDirectory /\ dir[s].manifest = "none"
          /\ formalPc = <<"closing", s>> => dir[s] \in StageDirectory /\ dir[s].manifest = "torn"
    /\ formalPc = Formal!Reaching("q5") => Formal!Complete(dir["raw"])
    /\ formalPc = Formal!Reaching("arrow") => Formal!Complete(dir["q5"])

LEMMA StartsUnfinished == ASSUME Formal!Init PROVE StagesOK
BY DEF Formal!Init, StagesOK, Formal!Ended, Formal!Reaching

(* One stage has another directory, and the run is not inside another stage.   *)
LEMMA NewDirectoryKeeps ==
    ASSUME StagesOK, NEW s \in Formal!Stages, NEW d \in StageDirectory \cup {None},
           dir' = [dir EXCEPT ![s] = d],
           \A r \in Formal!Stages \ {s} :
              formalPc' \in {<<"filling", r>>, <<"closing", r>>} => formalPc' = formalPc,
           \/ formalPc' \notin {Formal!Reaching("q5"), Formal!Reaching("arrow")}
           \/ formalPc' = formalPc /\ s = "arrow",
           formalPc' = <<"filling", s>> => d \in StageDirectory /\ d.manifest = "none",
           formalPc' = <<"closing", s>> => d \in StageDirectory /\ d.manifest = "torn"
    PROVE  StagesOK'
<1>1. dir' \in [Formal!Stages -> StageDirectory \cup {None}]
      /\ dir'[s] = d /\ \A r \in Formal!Stages \ {s} : dir'[r] = dir[r]
  BY DEF StagesOK
<1>2. "raw" \in Formal!Stages /\ "q5" \in Formal!Stages BY DEF Formal!Stages
<1> QED BY <1>1, <1>2 DEF StagesOK

(* The run goes on or ends, and the directories stay as they are.              *)
LEMMA MovingKeeps ==
    ASSUME StagesOK, UNCHANGED dir,
           \A s \in Formal!Stages : formalPc' \notin {<<"filling", s>>, <<"closing", s>>},
           formalPc' = Formal!Reaching("q5") => Formal!Complete(dir["raw"]),
           formalPc' = Formal!Reaching("arrow") => Formal!Complete(dir["q5"])
    PROVE  StagesOK'
BY DEF StagesOK, Formal!Complete

LEMMA DirectoryIsStage ==
    ASSUME NEW tables \in Nat, NEW manifest \in {"none", "torn", "whole"},
           NEW flawed \in BOOLEAN
    PROVE  /\ Formal!Directory(tables, manifest, flawed) \in StageDirectory
           /\ Formal!Directory(tables, manifest, flawed).manifest = manifest
BY DEF Formal!Directory, StageDirectory

LEMMA FillingKeeps ==
    ASSUME StagesOK, NEW s \in Formal!Stages,
           Formal!Fill(s) \/ Formal!OpenManifest(s) \/ Formal!CloseManifest(s)
    PROVE  StagesOK'
<1>1. dir[s] \in StageDirectory
  BY DEF StagesOK, Formal!Fill, Formal!OpenManifest, Formal!CloseManifest
<1>2. /\ \A r \in Formal!Stages \ {s} :
              formalPc' \notin {<<"filling", r>>, <<"closing", r>>}
      /\ formalPc' \notin {Formal!Reaching("q5"), Formal!Reaching("arrow")}
  BY DEF Formal!Fill, Formal!OpenManifest, Formal!CloseManifest, Formal!Ended, Formal!Reaching
<1>3. CASE Formal!Fill(s)
  <2> DEFINE d == [dir[s] EXCEPT !.tables = @ + 1]
  <2>1. d \in StageDirectory /\ d.manifest = dir[s].manifest
    BY <1>1 DEF StageDirectory
  <2>2. dir' = [dir EXCEPT ![s] = d] /\ formalPc' = formalPc /\ formalPc = <<"filling", s>>
    BY <1>3 DEF Formal!Fill
  <2>3. d.manifest = "none" BY <2>1, <2>2 DEF StagesOK
  <2> HIDE DEF d
  <2> QED BY <1>2, <2>1, <2>2, <2>3, NewDirectoryKeeps
<1>4. CASE Formal!OpenManifest(s)
  <2> DEFINE d == [dir[s] EXCEPT !.manifest = "torn"]
  <2>1. d \in StageDirectory /\ d.manifest = "torn"
    BY <1>1 DEF StageDirectory
  <2>2. dir' = [dir EXCEPT ![s] = d] /\ formalPc' = <<"closing", s>>
    BY <1>4 DEF Formal!OpenManifest
  <2> HIDE DEF d
  <2> QED BY <1>2, <2>1, <2>2, NewDirectoryKeeps
<1>5. CASE Formal!CloseManifest(s)
  <2> DEFINE d == [dir[s] EXCEPT !.manifest = "whole"]
  <2>1. d \in StageDirectory
    BY <1>1 DEF StageDirectory
  <2>2. dir' = [dir EXCEPT ![s] = d]
        /\ formalPc' \notin {<<"filling", s>>, <<"closing", s>>}
    BY <1>5 DEF Formal!CloseManifest, Formal!Ended
  <2> HIDE DEF d
  <2> QED BY <1>2, <2>1, <2>2, NewDirectoryKeeps
<1> QED BY <1>3, <1>4, <1>5

LEMMA MakingKeeps ==
    ASSUME StagesOK, NEW s \in Formal!Stages,
           Formal!Start(s) \/ Formal!Clear(s) \/ Formal!Make(s)
    PROVE  StagesOK'
<1>1. CASE Formal!Start(s)
  <2>1. formalPc' \in {<<"filling", s>>, Formal!Ended("failed")}
    BY <1>1 DEF Formal!Start
  <2>2. CASE UNCHANGED dir /\ formalPc' = Formal!Ended("failed")
    BY <2>2, MovingKeeps DEF Formal!Ended, Formal!Reaching
  <2>3. CASE \E flawed \in BOOLEAN :
               dir' = [dir EXCEPT ![s] = Formal!Directory(0, "none", flawed)]
    <3>1. PICK d \in StageDirectory :
            d.manifest = "none" /\ dir' = [dir EXCEPT ![s] = d]
      BY <2>3, DirectoryIsStage
    <3>2. /\ \A r \in Formal!Stages \ {s} :
                formalPc' \notin {<<"filling", r>>, <<"closing", r>>}
          /\ formalPc' \notin {Formal!Reaching("q5"), Formal!Reaching("arrow")}
          /\ formalPc' # <<"closing", s>>
      BY <2>1 DEF Formal!Ended, Formal!Reaching
    <3> QED BY <3>1, <3>2, NewDirectoryKeeps
  <2>4. CASE s = "q5" /\ dir' = [dir EXCEPT ![s] = Formal!Directory(0, "none", dir["raw"].flawed)]
    <3>1. dir["raw"] \in StageDirectory
      BY <1>1, <2>4 DEF StagesOK, Formal!Start, Formal!Complete, Formal!Stages
    <3>2. dir["raw"].flawed \in BOOLEAN BY <3>1 DEF StageDirectory
    <3> QED BY <2>3, <2>4, <3>2
  <2> QED BY <1>1, <2>2, <2>3, <2>4 DEF Formal!Start
<1>2. CASE Formal!Clear(s)
  <2>1. PICK d \in StageDirectory \cup {None} : dir' = [dir EXCEPT ![s] = d]
    BY <1>2, DirectoryIsStage DEF Formal!Clear
  <2> QED
    BY <1>2, <2>1, NewDirectoryKeeps DEF Formal!Clear, Formal!Ended, Formal!Reaching
<1>3. CASE Formal!Make(s)
  <2>1. PICK d \in StageDirectory :
          d.manifest = "none" /\ dir' = [dir EXCEPT ![s] = d]
    BY <1>3, DirectoryIsStage DEF Formal!Make
  <2>2. formalPc' = formalPc /\ formalPc[2] = "raw" /\ s # "raw" BY <1>3 DEF Formal!Make
  <2>3. /\ formalPc' \notin {<<"filling", s>>, <<"closing", s>>}
        /\ formalPc' \notin {Formal!Reaching("q5"), Formal!Reaching("arrow")}
    BY <2>2 DEF Formal!Reaching
  <2> QED BY <2>1, <2>2, <2>3, NewDirectoryKeeps
<1> QED BY <1>1, <1>2, <1>3

LEMMA ArrowKeeps ==
    ASSUME StagesOK, Formal!SetArrowAside \/ Formal!ConvertArrow
    PROVE  StagesOK'
<1>1. "arrow" \in Formal!Stages BY DEF Formal!Stages
<1>2. CASE Formal!SetArrowAside
  <2>1. CASE dir' = [dir EXCEPT !["arrow"] = None] /\ formalPc' = Formal!Reaching("arrow")
    BY <1>1, <1>2, <2>1, NewDirectoryKeeps DEF Formal!SetArrowAside, Formal!Reaching
  <2>2. CASE UNCHANGED dir /\ formalPc' = Formal!Ended("failed")
    BY <2>2, MovingKeeps DEF Formal!Ended, Formal!Reaching
  <2> QED BY <1>2, <2>1, <2>2 DEF Formal!SetArrowAside
<1>3. CASE Formal!ConvertArrow
  <2>1. dir["q5"] \in StageDirectory
    BY <1>3 DEF StagesOK, Formal!ConvertArrow, Formal!Complete, Formal!Stages
  <2>2. PICK d \in StageDirectory : dir' = [dir EXCEPT !["arrow"] = d]
    <3>1. dir["q5"].flawed \in BOOLEAN /\ dir["q5"].tables = NTables /\ NTables \in Nat
      BY <1>3, <2>1 DEF StagesOK, Formal!ConvertArrow, Formal!Complete, StageDirectory
    <3> QED BY <1>3, <3>1, DirectoryIsStage DEF Formal!ConvertArrow
  <2>3. /\ \A r \in Formal!Stages : formalPc' \notin {<<"filling", r>>, <<"closing", r>>}
        /\ formalPc' \notin {Formal!Reaching("q5"), Formal!Reaching("arrow")}
    BY <1>3 DEF Formal!ConvertArrow, Formal!Reaching
  <2> QED BY <1>1, <2>2, <2>3, NewDirectoryKeeps
<1> QED BY <1>2, <1>3

(* A run of the program, or an operator between two runs.                      *)
LEMMA NextStagesOK == ASSUME StagesOK, [Formal!Next]_Formal!vars PROVE StagesOK'
<1>1. CASE UNCHANGED Formal!vars
  BY <1>1 DEF Formal!vars, StagesOK, Formal!Complete
<1>2. CASE Formal!Begin \/ Formal!Fail
  BY <1>2, MovingKeeps DEF Formal!Begin, Formal!Fail, Formal!Ended, Formal!Reaching
<1>3. ASSUME NEW s \in Formal!Stages, Formal!Skip(s) \/ Formal!Finish(s) PROVE StagesOK'
  <2>1. UNCHANGED dir /\ formalPc' \in {Formal!After[s], Formal!Ended("failed")}
    BY <1>3 DEF Formal!Skip, Formal!Finish
  <2>2. formalPc' = Formal!After[s] => Formal!Complete(dir[s])
    <3>1. Formal!Assess(dir[s]) = "complete" => Formal!Complete(dir[s])
      BY DEF Formal!Assess
    <3>2. Formal!After[s] # Formal!Ended("failed")
      BY DEF Formal!After, Formal!Ended, Formal!Reaching, Formal!Stages
    <3> QED BY <1>3, <3>1, <3>2 DEF Formal!Skip, Formal!Finish, Formal!Wanted
  <2>3. \/ s = "raw" /\ formalPc' = Formal!Reaching("q5")
        \/ s = "q5" /\ formalPc' = Formal!Reaching("arrow")
        \/ formalPc' \in {Formal!Ended("done"), Formal!Ended("failed")}
    BY <2>1 DEF Formal!After, Formal!Stages
  <2>4. \A r \in Formal!Stages : formalPc' \notin {<<"filling", r>>, <<"closing", r>>}
    BY <2>3 DEF Formal!Ended, Formal!Reaching
  <2>5. formalPc' \in {Formal!Reaching("q5"), Formal!Reaching("arrow")}
          => formalPc' = Formal!After[s]
    BY <2>1 DEF Formal!Ended, Formal!Reaching
  <2>6. /\ formalPc' = Formal!Reaching("q5") => s = "raw"
        /\ formalPc' = Formal!Reaching("arrow") => s = "q5"
    BY <2>3 DEF Formal!Ended, Formal!Reaching
  <2> QED BY <2>1, <2>2, <2>4, <2>5, <2>6, MovingKeeps
<1> QED
  BY <1>1, <1>2, <1>3, FillingKeeps, MakingKeeps, ArrowKeeps DEF Formal!Next

LEMMA NextStageStays ==
    ASSUME StagesOK, [Formal!Next]_Formal!vars, ~Formal!Idle,
           NEW s \in Formal!Stages, Formal!Complete(dir[s])
    PROVE  dir'[s] = dir[s]
<1>1. ASSUME NEW r \in Formal!Stages, NEW d, dir' = [dir EXCEPT ![r] = d], r # s
      PROVE  dir'[s] = dir[s]
  BY <1>1 DEF StagesOK
<1>2. dir[s] # None /\ dir[s].manifest = "whole" /\ dir[s].tables = NTables
  BY DEF Formal!Complete
<1>3. ASSUME NEW r \in Formal!Stages,
             Formal!Fill(r) \/ Formal!OpenManifest(r) \/ Formal!CloseManifest(r)
      PROVE  dir'[s] = dir[s]
  <2>1. r # s
    BY <1>2, <1>3 DEF StagesOK, Formal!Fill, Formal!OpenManifest, Formal!CloseManifest
  <2> QED
    BY <1>1, <1>3, <2>1 DEF Formal!Fill, Formal!OpenManifest, Formal!CloseManifest
<1>4. ASSUME NEW r \in Formal!Stages, Formal!Start(r) PROVE dir'[s] = dir[s]
  <2>1. r # s BY <1>2, <1>4 DEF Formal!Start, Formal!Wanted, Formal!Assess, Formal!Missing,
                               Formal!Complete
  <2> QED BY <1>1, <1>4, <2>1 DEF Formal!Start
<1>5. ASSUME NEW r \in Formal!Stages, Formal!Make(r) PROVE dir'[s] = dir[s]
  BY <1>1, <1>2, <1>5 DEF Formal!Make
<1>6. ASSUME Formal!SetArrowAside \/ Formal!ConvertArrow PROVE dir'[s] = dir[s]
  <2>1. s = "arrow" => FALSE
    BY <1>2, <1>6 DEF Formal!SetArrowAside, Formal!ConvertArrow, Formal!Wanted,
       Formal!Assess, Formal!Missing, Formal!Complete
  <2> QED
    BY <1>1, <1>6, <2>1 DEF Formal!SetArrowAside, Formal!ConvertArrow, Formal!Stages
<1> QED
  BY <1>3, <1>4, <1>5, <1>6 DEF Formal!Next, Formal!vars, Formal!Begin, Formal!Fail,
     Formal!Skip, Formal!Finish, Formal!Clear

(* No run of prepare_formal_sf10.py rebuilds or takes away a finished stage,   *)
(* whatever fails, whenever it is killed and whatever the operator clears.     *)
THEOREM RunsKeepStages == MCSpec => FinishedStagesStay
<1>1. MCInit => StagesOK BY StartsUnfinished DEF MCInit
<1>2. [MCNext]_MCVars => [Formal!Next]_Formal!vars
  BY DEF MCNext, MCVars, Swap, SwapAlone, Prepare, Formal!vars
<1>3. StagesOK /\ [Formal!Next]_Formal!vars => StagesOK' BY NextStagesOK
<1>4. StagesOK /\ [Formal!Next]_Formal!vars
        => [\A s \in Formal!Stages : Formal!Complete(dir[s]) /\ ~Formal!Idle
              => dir'[s] = dir[s]]_Formal!vars
  BY NextStageStays
<1> QED
  BY <1>1, <1>2, <1>3, <1>4, PTL DEF MCSpec, FinishedStagesStay, Formal!FinishedStagesStay

=============================================================================
