---------------------------- MODULE Bundles_proof ----------------------------
(***************************************************************************)
(* Proofs about the two bundles.                                           *)
(*                                                                         *)
(* That a frozen profile is genuine is about order: a collector hashes the *)
(* executable before it runs it, the audit after everything, and builds    *)
(* are numbered as they come, so that hashed <= ran <= present.  When the  *)
(* audit still finds the hashed build, all three are one (IInv).           *)
(*                                                                         *)
(* That what counts as done was collected, and that what was collected is  *)
(* accepted, is about bookkeeping: what index, state and captures of a run *)
(* must be at each place of its program (Ledger).                          *)
(*                                                                         *)
(* That a finalize of evidence stands follows its writes one by one        *)
(* (EvidenceIsKept), that leftovers do not matter from what the copies     *)
(* are at each of its places (CopiesAreSources).                           *)
(***************************************************************************)
EXTENDS Bundles, SequenceTheorems, TLAPS

\* The steps of a run between the staging and its last profile.
Collecting == {"nsys-start", "nsys-run", "nsys-check", "ncu-start", "ncu-run",
               "ncu-check", "keep-index", "keep-state"}

\* A capture of the run that staged, of a build between its hash and now.
Sound(capture) ==
  /\ capture.by = stager
  /\ capture.elf \in Int /\ capture.ran \in Int
  /\ capture.elf <= capture.ran /\ capture.ran <= elf

Shape ==
  /\ elf \in Int
  /\ pc = [r \in Runners |-> pc[r]]
  /\ at \in [Runners -> Int]
  /\ seen \in [Runners -> Int]
  /\ nsys = [p \in Profiles |-> nsys[p]]
  /\ ncu = [p \in Profiles |-> ncu[p]]
  /\ stager = None \/ stager \in Runners

HashesAreOld == \A r \in Runners : seen[r] <= elf

\* Only the run that staged collects, and what it is to check is a capture.
OneCollector ==
  \A r \in Runners : pc[r] \in Collecting => stager = r
CheckedIsSound ==
  \A r \in Runners :
    pc[r] = "nsys-check" /\ Plan[at[r]] \in Profiles => Sound(nsys[Plan[at[r]]])
CapturesAreSound ==
  \A p \in Profiles :
    /\ nsys[p] # None => stager \in Runners /\ Sound(nsys[p])
    /\ ncu[p] # None => stager \in Runners /\ Sound(ncu[p])

IInv == Shape /\ HashesAreOld /\ OneCollector /\ CheckedIsSound /\ CapturesAreSound

\* The invariant holds of an empty directory.
LEMMA InitIInv == Init => IInv
<1> SUFFICES ASSUME Init PROVE IInv
  OBVIOUS
<1>1. Shape
  <2>1. pc = [r \in Runners |-> pc[r]]
    BY Zenon DEF Init
  <2>2. at \in [Runners -> Int] /\ seen \in [Runners -> Int] /\ elf \in Int
    BY DEF Init
  <2>3. nsys = [p \in Profiles |-> nsys[p]] /\ ncu = [p \in Profiles |-> ncu[p]]
    BY Zenon DEF Init
  <2> QED
    BY <2>1, <2>2, <2>3 DEF Init, Shape
<1>2. HashesAreOld /\ OneCollector /\ CheckedIsSound
  BY DEF Init, HashesAreOld, OneCollector, CheckedIsSound, Collecting
<1>3. CapturesAreSound
  BY DEF Init, CapturesAreSound
<1> QED
  BY <1>1, <1>2, <1>3 DEF IInv

\* A step that writes neither captures nor hashes, and brings no run to the
\* collecting part, keeps the invariant.
LEMMA QuietStep ==
  ASSUME IInv, NEW r \in Runners, NEW goal,
         UNCHANGED <<elf, seen, stager, nsys, ncu>>,
         pc' = [pc EXCEPT ![r] = goal],
         at' \in [Runners -> Int],
         \A q \in Runners : q # r => at'[q] = at[q],
         goal \in Collecting => pc[r] \in Collecting,
         goal # "nsys-check"
  PROVE  IInv'
BY DEF IInv, Shape, HashesAreOld, OneCollector, CheckedIsSound,
       CapturesAreSound, Sound

\* The steps that are quiet: planning, keeping the files of a run, freezing,
\* auditing, failing and being killed.
LEMMA QuietSteps ==
  ASSUME IInv, NEW r \in Runners,
         \/ Validate(r) \/ MakePlan(r) \/ OpenIndex(r) \/ OpenState(r)
         \/ KeepIndex(r) \/ KeepState(r) \/ CloseIndex(r)
         \/ Compile(r) \/ WriteManifest(r) \/ WriteDigest(r) \/ Audit(r) \/ CloseState(r)
         \/ FailIndex(r) \/ FailState(r) \/ Kill(r)
  PROVE  IInv'
<1>0. at \in [Runners -> Int]
  BY DEF IInv, Shape
<1>1. CASE Validate(r)
  BY <1>0, <1>1, QuietStep DEF Validate, Goto, files, Collecting
<1>2. CASE MakePlan(r)
  BY <1>0, <1>2, QuietStep DEF MakePlan, Goto, files, Collecting
<1>3. CASE OpenIndex(r) \/ KeepIndex(r) \/ CloseIndex(r) \/ FailIndex(r)
  BY <1>0, <1>3, QuietStep
     DEF OpenIndex, KeepIndex, CloseIndex, FailIndex, WriteIndex, Goto, Collecting
<1>4. CASE OpenState(r) \/ CloseState(r) \/ FailState(r)
  BY <1>0, <1>4, QuietStep
     DEF OpenState, CloseState, FailState, WriteState, Goto, Collecting
<1>5. CASE KeepState(r)
  BY <1>0, <1>5, QuietStep DEF KeepState, WriteState, Goto, Collecting
<1>6. CASE Compile(r)
  BY <1>0, <1>6, QuietStep DEF Compile, Goto, files, Collecting
<1>7. CASE WriteManifest(r)
  BY <1>0, <1>7, QuietStep DEF WriteManifest, Goto, Collecting
<1>8. CASE WriteDigest(r)
  BY <1>0, <1>8, QuietStep DEF WriteDigest, Goto, Collecting
<1>9. CASE Audit(r)
  BY <1>0, <1>9, QuietStep DEF Audit, Goto, files, Collecting
<1>10. CASE Kill(r)
  BY <1>0, <1>10, QuietStep DEF Kill, Goto, files, Collecting
<1> QED
  BY <1>1, <1>2, <1>3, <1>4, <1>5, <1>6, <1>7, <1>8, <1>9, <1>10

\* captures/ is made by one run only, before there is any capture.
LEMMA StageStep == ASSUME IInv, NEW r \in Runners, Stage(r) PROVE IInv'
<1> USE DEF IInv, Shape, HashesAreOld, OneCollector, CheckedIsSound, CapturesAreSound, Sound
<1>1. CASE stager # None
  BY <1>1 DEF Stage, Goto, Collecting
<1>2. CASE stager = None
  <2>1. \A q \in Runners : pc[q] \notin Collecting
    BY <1>2, NoneAssumption
  <2>2. \A p \in Profiles : nsys[p] = None /\ ncu[p] = None
    BY <1>2, NoneAssumption
  <2>3. /\ stager' = r
        /\ UNCHANGED <<elf, at, seen, nsys, ncu>>
        /\ \/ pc' = [pc EXCEPT ![r] = "nsys-start"]
           \/ pc' = [pc EXCEPT ![r] = "fail-index"]
    BY <1>2 DEF Stage, Goto
  <2> QED
    BY <2>1, <2>2, <2>3 DEF Collecting
<1> QED
  BY <1>1, <1>2

\* The hash is of the build that is there.
LEMMA HashStep ==
  ASSUME IInv, NEW r \in Runners, HashForNsys(r) \/ HashForNcu(r) PROVE IInv'
BY DEF HashForNsys, HashForNcu, Hash, Goto, files, Collecting,
       IInv, Shape, HashesAreOld, OneCollector, CheckedIsSound, CapturesAreSound, Sound

\* A capture is of the build that is there now, hashed before.
LEMMA CollectNsysStep == ASSUME IInv, NEW r \in Runners, CollectNsys(r) PROVE IInv'
<1> DEFINE p == Plan[at[r]]
<1>0. PICK result \in NsysResults, app \in Apps(p) \cup BadApps :
        nsys' = [nsys EXCEPT ![p] =
            [by |-> r, ran |-> elf, claim |-> Identity(r, p), elf |-> seen[r],
             tool |-> tool, result |-> result, app |-> app]]
  BY DEF CollectNsys
<1> DEFINE c == [by |-> r, ran |-> elf, claim |-> Identity(r, p), elf |-> seen[r],
                 tool |-> tool, result |-> result, app |-> app]
<1>1. nsys' = [nsys EXCEPT ![p] = c] /\ c.by = r /\ c.ran = elf /\ c.elf = seen[r]
  BY <1>0
<1>2. /\ pc[r] = "nsys-run" /\ pc' = [pc EXCEPT ![r] = "nsys-check"]
      /\ UNCHANGED <<elf, at, seen, stager, ncu>>
  BY DEF CollectNsys, Goto
<1> HIDE DEF c
<1>3. stager = r /\ c.by = stager' /\ c.elf \in Int /\ c.ran \in Int
      /\ c.elf <= c.ran /\ c.ran <= elf'
  BY <1>1, <1>2 DEF IInv, Shape, HashesAreOld, OneCollector, Collecting
<1>4. Shape' /\ HashesAreOld'
  BY <1>1, <1>2 DEF IInv, Shape, HashesAreOld
<1>5. OneCollector'
  BY <1>2 DEF IInv, Shape, OneCollector, Collecting
<1>6. \A q \in Profiles : nsys'[q] = IF q = p THEN c ELSE nsys[q]
  BY <1>1 DEF IInv, Shape
<1>7. CheckedIsSound'
  BY <1>2, <1>3, <1>6 DEF IInv, Shape, OneCollector, CheckedIsSound, Collecting, Sound
<1>8. CapturesAreSound'
  BY <1>2, <1>3, <1>6 DEF IInv, CapturesAreSound, Sound
<1> QED
  BY <1>4, <1>5, <1>7, <1>8 DEF IInv

\* The metadata that are written again keep the run and the builds.
LEMMA CheckNsysStep == ASSUME IInv, NEW r \in Runners, CheckNsys(r) PROVE IInv'
<1> DEFINE p == Plan[at[r]]
<1>1. /\ pc[r] = "nsys-check"
      /\ UNCHANGED <<elf, at, seen, stager, ncu>>
      /\ \/ pc' = [pc EXCEPT ![r] = "ncu-start"]
         \/ pc' = [pc EXCEPT ![r] = "fail-index"]
  BY DEF CheckNsys, Goto
<1>2. \A q \in Runners : q # r => pc'[q] = pc[q]
  BY <1>1 DEF IInv, Shape
<1>3. stager = r
  BY <1>1 DEF IInv, OneCollector, Collecting
<1>4. \/ UNCHANGED nsys
      \/ \E identity : nsys' = [nsys EXCEPT ![p] = Rebound(nsys[p], identity)]
  BY DEF CheckNsys
<1>5. Shape' /\ HashesAreOld'
  BY <1>1, <1>4 DEF IInv, Shape, HashesAreOld
<1>6. OneCollector' /\ CheckedIsSound'
  BY <1>1, <1>2, <1>3 DEF IInv, Shape, OneCollector, CheckedIsSound, Collecting
<1>7. CapturesAreSound'
  <2>1. CASE UNCHANGED nsys
    BY <1>1, <2>1 DEF IInv, CapturesAreSound, Sound
  <2>2. CASE \E identity : nsys' = [nsys EXCEPT ![p] = Rebound(nsys[p], identity)]
    <3>1. PICK identity : nsys' = [nsys EXCEPT ![p] = Rebound(nsys[p], identity)]
      BY <2>2
    <3>2. p \in Profiles => Sound(nsys[p])
      BY <1>1 DEF IInv, CheckedIsSound
    <3>3. \A q \in Profiles : q # p => nsys'[q] = nsys[q]
      BY <3>1 DEF IInv, Shape
    <3>4. p \in Profiles => nsys'[p] = Rebound(nsys[p], identity)
      BY <3>1 DEF IInv, Shape
    <3>5. \A q \in Profiles : nsys'[q] # None => stager' \in Runners /\ Sound(nsys[q])'
      BY <1>1, <1>3, <3>2, <3>3, <3>4 DEF IInv, CapturesAreSound, Sound, Rebound
    <3> QED
      BY <1>1, <3>5 DEF IInv, CapturesAreSound, Sound
  <2> QED
    BY <1>4, <2>1, <2>2
<1> QED
  BY <1>5, <1>6, <1>7 DEF IInv

LEMMA CollectNcuStep == ASSUME IInv, NEW r \in Runners, CollectNcu(r) PROVE IInv'
<1> DEFINE p == Plan[at[r]]
<1>0. PICK result \in NcuResults, gpu \in {"same", "other"} :
        ncu' = [ncu EXCEPT ![p] =
            IF result = "selection" THEN @
            ELSE [by |-> r, ran |-> elf, claim |-> Identity(r, p), elf |-> seen[r],
                  gpu |-> gpu, result |-> result]]
  BY DEF CollectNcu
<1> DEFINE c == [by |-> r, ran |-> elf, claim |-> Identity(r, p), elf |-> seen[r],
                 gpu |-> gpu, result |-> result]
<1>1. c.by = r /\ c.ran = elf /\ c.elf = seen[r]
  OBVIOUS
<1>2. /\ pc[r] = "ncu-run" /\ pc' = [pc EXCEPT ![r] = "ncu-check"]
      /\ UNCHANGED <<elf, at, seen, stager, nsys>>
  BY DEF CollectNcu, Goto
<1>3. stager = r /\ c.by = stager' /\ c.elf \in Int /\ c.ran \in Int
      /\ c.elf <= c.ran /\ c.ran <= elf'
  BY <1>1, <1>2 DEF IInv, Shape, HashesAreOld, OneCollector, Collecting
<1>4. Shape' /\ HashesAreOld'
  BY <1>0, <1>2 DEF IInv, Shape, HashesAreOld
<1>5. OneCollector' /\ CheckedIsSound'
  BY <1>2 DEF IInv, Shape, OneCollector, CheckedIsSound, Collecting, Sound
<1>6. \A q \in Profiles : ncu'[q] = ncu[q] \/ (q = p /\ ncu'[q] = c)
  BY <1>0 DEF IInv, Shape
<1> HIDE DEF c
<1>7. CapturesAreSound'
  BY <1>2, <1>3, <1>6 DEF IInv, CapturesAreSound, Sound
<1> QED
  BY <1>4, <1>5, <1>7 DEF IInv

LEMMA CheckNcuStep == ASSUME IInv, NEW r \in Runners, CheckNcu(r) PROVE IInv'
<1>1. /\ UNCHANGED <<elf, seen, stager, nsys, ncu>>
      /\ pc[r] = "ncu-check"
      /\ \/ pc' = [pc EXCEPT ![r] = "keep-index"]
         \/ pc' = [pc EXCEPT ![r] = "fail-index"]
  BY DEF CheckNcu, Goto, files
<1>2. at' = [at EXCEPT ![r] = @ + 1] \/ at' = at
  BY DEF CheckNcu
<1>3. at' \in [Runners -> Int] /\ \A q \in Runners : q # r => at'[q] = at[q]
  BY <1>2 DEF IInv, Shape
<1> QED
  BY <1>1, <1>3, QuietStep DEF Collecting

\* A build is younger than every hash and every capture.
LEMMA RebuildStep == ASSUME IInv, Rebuild PROVE IInv'
BY DEF Rebuild, runs, files, IInv, Shape, HashesAreOld, OneCollector,
       CheckedIsSound, CapturesAreSound, Sound

LEMMA NextIInv == IInv /\ [Next]_vars => IInv'
<1> SUFFICES ASSUME IInv, [Next]_vars PROVE IInv'
  OBVIOUS
<1>1. CASE UNCHANGED vars \/ Upgrade
  BY <1>1 DEF vars, Upgrade, runs, files, IInv, Shape, HashesAreOld, OneCollector,
              CheckedIsSound, CapturesAreSound, Sound
<1>2. CASE Rebuild
  BY <1>2, RebuildStep
<1>3. CASE \E r \in Runners : Step(r)
  <2>1. PICK r \in Runners : Step(r)
    BY <1>3
  <2> QED
    BY <2>1, QuietSteps, StageStep, HashStep, CollectNsysStep, CheckNsysStep,
       CollectNcuStep, CheckNcuStep DEF Step
<1> QED
  BY <1>1, <1>2, <1>3 DEF Next

\* What the checks of the bundle add to the invariant: the build of the hash
\* is the one that is there.
LEMMA GenuineIfInvariant == IInv => FrozenIsGenuine
<1> SUFFICES ASSUME IInv, AuditOk, NEW p \in Profiles
             PROVE  /\ nsys[p].by = stager /\ ncu[p].by = stager
                    /\ nsys[p].ran = index.identity[p].elf
                    /\ ncu[p].ran = index.identity[p].elf
                    /\ nsys[p].app.ratio = index.identity[p].ratio
                    /\ index.ncu[p] = "ok" <=> ncu[p].result = "ok"
  BY DEF FrozenIsGenuine
<1> DEFINE identity == index.identity[p]
<1>1. ProfileAccepted(Files, p, elf, tool)
  BY DEF AuditOk, AuditAccepts, Accepted
<1>2. /\ identity.elf = elf
      /\ NsysAccepted(nsys[p], identity, tool)
      /\ \/ index.ncu[p] = "ok" /\ NcuOk(ncu[p], identity)
         \/ index.ncu[p] = "unavailable" /\ NcuUnavailable(ncu[p], identity)
  BY <1>1 DEF ProfileAccepted, ExecutableStands, Files
<1>3. /\ nsys[p] # None /\ nsys[p].elf = elf /\ nsys[p].app.ratio = identity.ratio
      /\ ncu[p] # None /\ ncu[p].elf = elf
      /\ index.ncu[p] = "ok" <=> ncu[p].result = "ok"
  BY <1>2 DEF NsysAccepted, CollectorMatches, AppStdoutMatches, NcuOk, NcuUnavailable,
              NcuCommon, Recognized
<1>4. Sound(nsys[p]) /\ Sound(ncu[p])
  BY <1>3 DEF IInv, CapturesAreSound
<1>5. nsys[p].ran = elf /\ ncu[p].ran = elf
  BY <1>3, <1>4 DEF IInv, Shape, Sound
<1> QED
  BY <1>2, <1>3, <1>4, <1>5 DEF Sound

\* A directory that the audit accepts holds captures of one run, of the build
\* that its index names and at the ratio that its index names, whatever the
\* number of runs that share it and of rebuilds between their steps.
THEOREM GenuineBundles == Spec => []FrozenIsGenuine
<1>1. Spec => []IInv
  BY InitIInv, NextIInv, PTL DEF Spec
<1> QED
  BY <1>1, GenuineIfInvariant, PTL

-----------------------------------------------------------------------------
(* What a run keeps of its captures is what the bundle will find.          *)

Early == {"idle", "plan", "open-index", "open-state", "stage"}
Profiling == {"nsys-start", "nsys-run", "nsys-check", "ncu-start", "ncu-run", "ncu-check"}
BeforeNcu == {"nsys-start", "nsys-run", "nsys-check", "ncu-start", "ncu-run",
              "keep-index", "keep-state"}
Freezing == {"manifest", "digest", "audit"}
Closing == Freezing \cup {"close-index", "compile"}

Types ==
  /\ elf \in Nat /\ tool \in Nat
  /\ at \in [Runners -> 1 .. Len(Plan) + 1]
  /\ planned \in [Runners -> Nat] /\ seen \in [Runners -> Nat]
  /\ ratio \in [Runners -> [Profiles -> 0 .. One]]
  /\ statuses \in [Runners -> [Profiles -> Statuses]]
  /\ compiled = [r \in Runners |-> compiled[r]]
  /\ index \in Indexes \cup {None}
  /\ nsys \in [Profiles -> NsysFiles \cup {None}]
  /\ ncu \in [Profiles -> NcuFiles \cup {None}]

\* Where a run may be in the plan; one that has got anywhere is the stager.
PlaceIsKnown ==
  \A r \in Runners :
    /\ pc[r] \in Profiling => at[r] <= Len(Plan)
    /\ pc[r] \in Closing => at[r] = Len(Plan) + 1
    /\ pc[r] \in Early => stager # r
    /\ at[r] > 1 => stager = r

RatiosAreAllowed ==
  \A r \in Runners, p \in Profiles : Engine[p] # "hybrid-auto" => ratio[r][p] = PlannedRatio(p)

\* A capture that agrees with what the stager knows of the profile.
NsysDone(p) ==
  /\ nsys[p] # None
  /\ nsys[p].app.ok
  /\ nsys[p].app.ratio = ratio[stager][p]
  /\ nsys[p].claim = Identity(stager, p)
NcuDone(p) ==
  /\ ncu[p] # None
  /\ ncu[p].claim = Identity(stager, p)
  /\ \/ statuses[stager][p] = "ok" /\ ncu[p].result = "ok"
     \/ statuses[stager][p] = "unavailable" /\ Recognized(ncu[p].result)

ProfilesAreDone ==
  \A r \in Runners : \A i \in 1 .. at[r] - 1 : NsysDone(Plan[i]) /\ NcuDone(Plan[i])

ProfileIsBegun ==
  \A r \in Runners :
    /\ pc[r] = "nsys-check" =>
         nsys[Plan[at[r]]] # None /\ nsys[Plan[at[r]]].claim = Identity(r, Plan[at[r]])
    /\ pc[r] \in {"ncu-start", "ncu-run", "ncu-check"} => NsysDone(Plan[at[r]])
    /\ pc[r] = "ncu-check" /\ ncu[Plan[at[r]]] # None =>
         ncu[Plan[at[r]]].claim = Identity(r, Plan[at[r]])

\* A selection of metrics that fails leaves what was there, which is nothing.
RestIsMissing ==
  \A r \in Runners, i \in DOMAIN Plan :
    stager = r /\ (i > at[r] \/ (i = at[r] /\ pc[r] \in BeforeNcu)) => ncu[Plan[i]] = None

StateIsTrue ==
  orchestration # None =>
    /\ orchestration.completed \in Nat
    /\ orchestration.completed > 0 => stager \in Runners /\ orchestration.completed < at[stager]

\* Only the stager ever calls the index complete.
IndexIsTrue ==
  index # None /\ index.status = "complete" =>
    stager \in Runners /\ at[stager] = Len(Plan) + 1 /\ index = IndexOf(stager, "complete")

FrozenAsRead ==
  \A r \in Runners :
    /\ pc[r] \in Freezing =>
         compiled[r] = [index |-> IndexOf(r, "complete"), nsys |-> nsys, ncu |-> ncu]
    /\ pc[r] \in {"digest", "audit"} =>
         manifest = [profiles |-> compiled[r], artifacts |-> manifest.artifacts]
    /\ pc[r] = "audit" => digest = manifest

Ledger ==
  /\ Types /\ PlaceIsKnown /\ RatiosAreAllowed /\ ProfilesAreDone /\ ProfileIsBegun
  /\ RestIsMissing /\ StateIsTrue /\ IndexIsTrue /\ FrozenAsRead

LEMMA PlanFacts ==
  /\ Len(Plan) \in Nat \ {0}
  /\ DOMAIN Plan = 1 .. Len(Plan)
  /\ \A i \in 1 .. Len(Plan) : Plan[i] \in Profiles
BY PlanAssumption, LenProperties, EmptySeq

LEMMA IndexTypes ==
  ASSUME Types, NEW r \in Runners, NEW status \in {"collecting", "complete", "failed"}
  PROVE  IndexOf(r, status) \in Indexes /\ IndexOf(r, status).status = status
<1>1. [p \in Profiles |-> Identity(r, p)] \in [Profiles -> Identities]
  BY DEF Types, Identity, Identities
<1>2. statuses[r] \in [Profiles -> Statuses]
  BY DEF Types
<1> QED
  BY <1>1, <1>2 DEF IndexOf, Indexes

\* A step that leaves the captures and what the stager knows of them alone.
LEMMA LedgerQuietStep ==
  ASSUME Ledger, NEW r \in Runners, NEW goal,
         pc = [q \in Runners |-> pc[q]], pc' = [pc EXCEPT ![r] = goal],
         UNCHANGED <<elf, tool, at, planned, ratio, statuses, compiled, stager, nsys, ncu,
                     manifest, digest>>,
         seen' \in [Runners -> Nat],
         \/ UNCHANGED index
         \/ \E status \in {"collecting", "failed"} : index' = IndexOf(r, status)
         \/ index' = IndexOf(r, "complete") /\ pc[r] = "close-index",
         UNCHANGED orchestration \/ \E status : orchestration' = StateOf(r, status),
         goal \in Early => pc[r] \in Early,
         goal \in Profiling => at[r] <= Len(Plan) /\ goal \notin {"nsys-check", "ncu-check"},
         goal \in {"ncu-start", "ncu-run"} => pc[r] \in {"ncu-start", "ncu-run"},
         goal \in BeforeNcu => pc[r] \in BeforeNcu,
         goal \in Closing => at[r] = Len(Plan) + 1,
         goal \notin Freezing
  PROVE  Ledger'
<1> USE DEF Ledger
<1>1. pc' = [q \in Runners |-> IF q = r THEN goal ELSE pc[q]]
  OBVIOUS
<1>2. Types'
  BY IndexTypes DEF Types
<1>3. PlaceIsKnown'
  BY <1>1 DEF PlaceIsKnown
<1>4. RatiosAreAllowed' /\ ProfilesAreDone'
  BY DEF RatiosAreAllowed, ProfilesAreDone, NsysDone, NcuDone, Identity
<1>5. ProfileIsBegun'
  <2>1. \A q, p : Identity(q, p)' = Identity(q, p)
    BY DEF Identity
  <2>2. ASSUME NEW p PROVE NsysDone(p)' = NsysDone(p)
    BY <2>1 DEF NsysDone
  <2>3. \A q \in Runners : pc'[q] = "nsys-check" => pc[q] = "nsys-check"
    BY <1>1 DEF Profiling
  <2>4. \A q \in Runners : pc'[q] = "ncu-check" => pc[q] = "ncu-check"
    BY <1>1 DEF Profiling
  <2>5. \A q \in Runners :
          pc'[q] \in {"ncu-start", "ncu-run"} => pc[q] \in {"ncu-start", "ncu-run"}
    BY <1>1
  <2> QED
    BY <2>1, <2>2, <2>3, <2>4, <2>5 DEF ProfileIsBegun
<1>6. RestIsMissing'
  BY <1>1 DEF RestIsMissing
<1>7. StateIsTrue'
  <2>1. at[r] \in 1 .. Len(Plan) + 1 /\ (at[r] > 1 => stager = r)
    BY DEF Types, PlaceIsKnown
  <2> QED
    BY <2>1, PlanFacts DEF StateIsTrue, StateOf
<1>8. IndexIsTrue'
  <2>1. UNCHANGED IndexOf(stager, "complete")
    BY DEF IndexOf, Identity
  <2>2. CASE UNCHANGED index
    BY <2>1, <2>2 DEF IndexIsTrue
  <2>3. CASE \E status \in {"collecting", "failed"} : index' = IndexOf(r, status)
    BY <2>3, IndexTypes DEF IndexIsTrue
  <2>4. CASE index' = IndexOf(r, "complete") /\ pc[r] = "close-index"
    <3>1. at[r] = Len(Plan) + 1 /\ stager = r
      BY <2>4, PlanFacts DEF PlaceIsKnown, Closing
    <3> QED
      BY <2>1, <2>4, <3>1 DEF IndexIsTrue
  <2> QED
    BY <2>2, <2>3, <2>4
<1>9. FrozenAsRead'
  BY <1>1 DEF FrozenAsRead, IndexOf, Identity, Freezing
<1> QED
  BY <1>2, <1>3, <1>4, <1>5, <1>6, <1>7, <1>8, <1>9

LEMMA LedgerQuietSteps ==
  ASSUME IInv, Ledger, NEW r \in Runners,
         \/ Validate(r) \/ OpenIndex(r) \/ OpenState(r)
         \/ HashForNsys(r) \/ HashForNcu(r)
         \/ KeepIndex(r) \/ KeepState(r) \/ CloseIndex(r) \/ CloseState(r)
         \/ Audit(r) \/ FailIndex(r) \/ FailState(r) \/ Kill(r)
  PROVE  Ledger'
<1>1. /\ pc = [q \in Runners |-> pc[q]] /\ seen \in [Runners -> Nat]
      /\ at[r] \in 1 .. Len(Plan) + 1
      /\ pc[r] \in Profiling => at[r] <= Len(Plan)
      /\ pc[r] \in Closing => at[r] = Len(Plan) + 1
  BY DEF IInv, Shape, Ledger, Types, PlaceIsKnown
<1> USE DEF Goto, files, Early, Profiling, BeforeNcu, Freezing, Closing
<1>2. CASE Validate(r) \/ Audit(r)
  BY <1>1, <1>2, LedgerQuietStep DEF Validate, Audit
<1>3. CASE OpenIndex(r) \/ KeepIndex(r) \/ FailIndex(r)
  BY <1>1, <1>3, LedgerQuietStep DEF OpenIndex, KeepIndex, FailIndex, WriteIndex
<1>4. CASE CloseIndex(r)
  BY <1>1, <1>4, LedgerQuietStep DEF CloseIndex, WriteIndex
<1>5. CASE OpenState(r) \/ CloseState(r) \/ FailState(r)
  BY <1>1, <1>5, LedgerQuietStep DEF OpenState, CloseState, FailState, WriteState
<1>6. CASE KeepState(r)
  BY <1>1, <1>6, PlanFacts, LedgerQuietStep DEF KeepState, WriteState
<1>7. CASE HashForNsys(r) \/ HashForNcu(r)
  <2>1. elf \in Nat
    BY DEF Ledger, Types
  <2> QED
    BY <1>1, <1>7, <2>1, LedgerQuietStep DEF HashForNsys, HashForNcu, Hash
<1>8. CASE Kill(r)
  BY <1>1, <1>8, LedgerQuietStep DEF Kill
<1> QED
  BY <1>2, <1>3, <1>4, <1>5, <1>6, <1>7, <1>8

\* A run that plans has staged nothing yet.
LEMMA LedgerPlanStep == ASSUME IInv, Ledger, NEW r \in Runners, MakePlan(r) PROVE Ledger'
<1>1. /\ pc[r] = "plan" /\ stager # r
      /\ planned' = [planned EXCEPT ![r] = elf]
      /\ UNCHANGED <<elf, tool, at, ratio, statuses, seen, compiled, files, faults>>
  BY DEF MakePlan, Ledger, PlaceIsKnown, Early
<1>2. PICK goal \in {"open-index", "printed"} : pc' = [q \in Runners |-> IF q = r THEN goal ELSE pc[q]]
  BY DEF MakePlan, Goto, IInv, Shape
<1>3. \A q \in Runners : q # r => planned'[q] = planned[q]
  BY <1>1 DEF Ledger, Types
<1>4. Types' /\ PlaceIsKnown' /\ RatiosAreAllowed'
  BY <1>1, <1>2 DEF Ledger, Types, PlaceIsKnown, RatiosAreAllowed, files, Early, Profiling,
                    Closing, Freezing
<1>5. \A q \in Runners, p \in Profiles : q # r => UNCHANGED Identity(q, p)
  BY <1>1, <1>3 DEF Identity
<1>6. \A p \in Profiles : stager \in Runners => UNCHANGED <<NsysDone(p), NcuDone(p)>>
  BY <1>1, <1>5 DEF NsysDone, NcuDone, files
<1>7. \A q \in Runners : pc'[q] \in Profiling \cup Closing =>
        q # r /\ pc[q] = pc'[q] /\ at[q] \in 1 .. Len(Plan) + 1
        /\ (q = stager \/ at[q] = 1)
  BY <1>1, <1>2 DEF Profiling, Closing, Freezing, Ledger, Types, PlaceIsKnown
<1>8. ProfilesAreDone'
  <2>1. \A q \in Runners : \A i \in 1 .. at[q] - 1 : stager = q /\ Plan[i] \in Profiles
    BY PlanFacts DEF Ledger, Types, PlaceIsKnown
  <2> QED
    BY <1>1, <1>6, <2>1 DEF Ledger, ProfilesAreDone, files
<1>9. ProfileIsBegun'
  <2>1. \A q \in Runners : pc'[q] \in Profiling => Plan[at[q]] \in Profiles /\ stager = q
    BY <1>7, PlanFacts DEF Ledger, PlaceIsKnown, IInv, OneCollector, Collecting, Profiling
  <2> QED
    BY <1>1, <1>5, <1>6, <1>7, <2>1 DEF Ledger, ProfileIsBegun, files, Profiling
<1>10. RestIsMissing' /\ StateIsTrue'
  BY <1>1, <1>2 DEF Ledger, RestIsMissing, StateIsTrue, files, BeforeNcu
<1>11. \A q \in Runners : q # r => UNCHANGED IndexOf(q, "complete")
  BY <1>1, <1>5 DEF IndexOf
<1>12. IndexIsTrue'
  BY <1>1, <1>11 DEF Ledger, IndexIsTrue, files
<1>13. FrozenAsRead'
  BY <1>1, <1>7, <1>11 DEF Ledger, FrozenAsRead, files, Freezing, Closing
<1> QED
  BY <1>4, <1>8, <1>9, <1>10, <1>12, <1>13 DEF Ledger

\* captures/ is made before there is any capture.
LEMMA LedgerStageStep == ASSUME IInv, Ledger, NEW r \in Runners, Stage(r) PROVE Ledger'
<1>1. pc[r] = "stage" /\ pc = [q \in Runners |-> pc[q]] /\ seen \in [Runners -> Nat]
  BY DEF Stage, IInv, Shape, Ledger, Types
<1>2. CASE stager # None
  BY <1>1, <1>2, LedgerQuietStep
     DEF Stage, Goto, Early, Profiling, BeforeNcu, Freezing, Closing
<1>3. CASE stager = None
  <2>1. stager' = r /\ UNCHANGED <<elf, tool, at, planned, ratio, statuses, seen, compiled,
                                   index, orchestration, nsys, ncu, manifest, digest>>
    BY <1>3 DEF Stage
  <2>2. PICK goal \in {"nsys-start", "fail-index"} :
          pc' = [q \in Runners |-> IF q = r THEN goal ELSE pc[q]]
    BY <1>1 DEF Stage, Goto
  <2>3. \A q \in Runners : at[q] = 1 /\ pc[q] \notin Closing /\ pc[q] \notin Profiling
    <3> TAKE q \in Runners
    <3>1. stager # q
      BY <1>3, NoneAssumption
    <3>2. at[q] = 1
      BY <3>1, PlanFacts DEF Ledger, Types, PlaceIsKnown
    <3>3. pc[q] \notin Closing
      BY <3>2, PlanFacts DEF Ledger, PlaceIsKnown
    <3>4. pc[q] \notin Profiling
      BY <3>1 DEF IInv, OneCollector, Collecting, Profiling
    <3> QED
      BY <3>2, <3>3, <3>4
  <2>4. \A p \in Profiles : ncu[p] = None
    BY <1>3, NoneAssumption DEF IInv, CapturesAreSound
  <2>5. Types' /\ PlaceIsKnown' /\ RatiosAreAllowed'
    BY <2>1, <2>2, <2>3, PlanFacts
       DEF Ledger, Types, PlaceIsKnown, RatiosAreAllowed, Early, Profiling, Closing, Freezing
  <2>6. ProfilesAreDone' /\ ProfileIsBegun' /\ RestIsMissing'
    BY <2>1, <2>2, <2>3, <2>4, PlanFacts
       DEF ProfilesAreDone, ProfileIsBegun, RestIsMissing, Profiling
  <2>7. StateIsTrue' /\ IndexIsTrue' /\ FrozenAsRead'
    BY <1>3, <2>1, <2>2, <2>3, NoneAssumption
       DEF Ledger, StateIsTrue, IndexIsTrue, FrozenAsRead, Freezing, Closing
  <2> QED
    BY <2>5, <2>6, <2>7 DEF Ledger
<1> QED
  BY <1>2, <1>3

\* While the stager collects, it is the only one that is at a profile, and
\* nothing is complete or frozen.
LEMMA CollectingAlone ==
  ASSUME IInv, Ledger, NEW r \in Runners, pc[r] \in Profiling
  PROVE  /\ stager = r /\ at[r] \in 1 .. Len(Plan) /\ Plan[at[r]] \in Profiles
         /\ \A q \in Runners : q # r => at[q] = 1 /\ pc[q] \notin Profiling \cup Closing
         /\ \A q \in Runners : pc[q] \notin Freezing
         /\ index = None \/ index.status # "complete"
         /\ \A q \in Runners : \A i \in 1 .. at[q] - 1 : q = r /\ Plan[i] \in Profiles
         /\ \A i \in DOMAIN Plan : i # at[r] => Plan[i] # Plan[at[r]] /\ Plan[i] \in Profiles
<1>1. stager = r /\ at[r] \in 1 .. Len(Plan) /\ Plan[at[r]] \in Profiles
  BY PlanFacts DEF IInv, OneCollector, Ledger, Types, PlaceIsKnown, Collecting, Profiling
<1>2. \A q \in Runners : q # r => at[q] = 1 /\ pc[q] \notin Profiling \cup Closing
  BY <1>1, PlanFacts
     DEF IInv, OneCollector, Ledger, Types, PlaceIsKnown, Collecting, Profiling
<1>3. index = None \/ index.status # "complete"
  BY <1>1, PlanFacts DEF Ledger, IndexIsTrue
<1>4. \A q \in Runners : pc[q] \notin Freezing
  BY <1>2 DEF Freezing, Closing, Profiling
<1>5. \A q \in Runners : \A i \in 1 .. at[q] - 1 : q = r /\ Plan[i] \in Profiles
  BY <1>1, <1>2, PlanFacts
<1>6. \A i \in DOMAIN Plan : i # at[r] => Plan[i] # Plan[at[r]] /\ Plan[i] \in Profiles
  BY <1>1, PlanFacts, PlanAssumption
<1> QED
  BY <1>1, <1>2, <1>3, <1>4, <1>5, <1>6

\* A capture claims what its run knows of the profile.
LEMMA LedgerNsysStep == ASSUME IInv, Ledger, NEW r \in Runners, CollectNsys(r) PROVE Ledger'
<1>0. PICK p : p = Plan[at[r]]
  OBVIOUS
<1>1. /\ pc[r] = "nsys-run" /\ pc' = [q \in Runners |-> IF q = r THEN "nsys-check" ELSE pc[q]]
      /\ UNCHANGED <<elf, tool, at, planned, ratio, statuses, seen, compiled,
                     index, orchestration, stager, ncu, manifest, digest>>
  BY DEF CollectNsys, Goto, IInv, Shape
<1>2. /\ stager = r /\ at[r] \in 1 .. Len(Plan) /\ p \in Profiles
      /\ \A q \in Runners : q # r => at[q] = 1 /\ pc[q] \notin Profiling \cup Closing
      /\ \A q \in Runners : pc[q] \notin Freezing
      /\ \A q \in Runners : \A i \in 1 .. at[q] - 1 : q = r /\ Plan[i] \in Profiles
      /\ \A i \in DOMAIN Plan : i # at[r] => Plan[i] # p /\ Plan[i] \in Profiles
  BY <1>0, <1>1, CollectingAlone DEF Profiling
<1>3. PICK c \in NsysFiles : nsys' = [nsys EXCEPT ![p] = c] /\ c.claim = Identity(r, p)
  <2>1. PICK result \in NsysResults, app \in Apps(p) \cup BadApps :
          nsys' = [nsys EXCEPT ![p] =
              [by |-> r, ran |-> elf, claim |-> Identity(r, p), elf |-> seen[r],
               tool |-> tool, result |-> result, app |-> app]]
    BY <1>0 DEF CollectNsys
  <2> DEFINE c == [by |-> r, ran |-> elf, claim |-> Identity(r, p), elf |-> seen[r],
                   tool |-> tool, result |-> result, app |-> app]
  <2>2. PlannedRatio(p) \in 0 .. One
    BY <1>2, RatiosAssumption DEF PlannedRatio
  <2>3. app \in [ok : BOOLEAN, ratio : 0 .. One]
    BY <2>2, RatiosAssumption DEF Apps, BadApps
  <2>4. Identity(r, p) \in Identities
    BY <1>2 DEF Identity, Identities, Ledger, Types
  <2>5. c \in NsysFiles
    BY <2>3, <2>4 DEF NsysFiles, Ledger, Types
  <2>6. c.claim = Identity(r, p)
    OBVIOUS
  <2> QED
    BY <2>1, <2>5, <2>6
<1>4. c # None
  BY NoneAssumption
<1>5. nsys'[p] = c /\ \A q \in Profiles : q # p => nsys'[q] = nsys[q]
  BY <1>2, <1>3 DEF Ledger, Types
<1>6. Types'
  BY <1>1, <1>2, <1>3 DEF Ledger, Types
<1>7. PlaceIsKnown' /\ RatiosAreAllowed'
  BY <1>1, <1>2 DEF Ledger, PlaceIsKnown, RatiosAreAllowed, Early, Profiling, Closing, Freezing
<1>8. ProfilesAreDone'
  <2>1. \A i \in 1 .. at[r] - 1 : UNCHANGED <<NsysDone(Plan[i]), NcuDone(Plan[i])>>
    BY <1>1, <1>2, <1>5, PlanFacts DEF NsysDone, NcuDone, Identity
  <2> QED
    BY <1>1, <1>2, <2>1 DEF Ledger, ProfilesAreDone
<1>9. ProfileIsBegun'
  <2>1. Plan[at'[r]] = p /\ UNCHANGED Identity(r, p)
    BY <1>0, <1>1 DEF Identity
  <2>2. nsys'[p] # None /\ nsys'[p].claim = Identity(r, p)'
    BY <1>3, <1>4, <1>5, <2>1
  <2>3. pc'[r] = "nsys-check" /\ \A q \in Runners : q # r => pc'[q] \notin Profiling
    BY <1>1, <1>2
  <2> QED
    BY <2>1, <2>2, <2>3 DEF ProfileIsBegun, Profiling
<1>10. RestIsMissing' /\ StateIsTrue'
  BY <1>1, <1>2 DEF Ledger, RestIsMissing, StateIsTrue, BeforeNcu
<1>11. IndexIsTrue' /\ FrozenAsRead'
  BY <1>1, <1>2 DEF Ledger, IndexIsTrue, IndexOf, Identity, FrozenAsRead, Freezing
<1> QED
  BY <1>6, <1>7, <1>8, <1>9, <1>10, <1>11 DEF Ledger

\* The ratio that hybrid-auto chose goes into what the run knows and into the
\* capture alike.
LEMMA LedgerCheckNsysStep == ASSUME IInv, Ledger, NEW r \in Runners, CheckNsys(r) PROVE Ledger'
<1>0. PICK p : p = Plan[at[r]]
  OBVIOUS
<1>1. /\ pc[r] = "nsys-check"
      /\ UNCHANGED <<elf, tool, at, planned, statuses, seen, compiled,
                     index, orchestration, stager, ncu, manifest, digest>>
  BY DEF CheckNsys
<1>2. /\ stager = r /\ at[r] \in 1 .. Len(Plan) /\ p \in Profiles
      /\ \A q \in Runners : q # r => at[q] = 1 /\ pc[q] \notin Profiling \cup Closing
      /\ \A q \in Runners : pc[q] \notin Freezing
      /\ index = None \/ index.status # "complete"
      /\ \A q \in Runners : \A i \in 1 .. at[q] - 1 : q = r /\ Plan[i] \in Profiles
      /\ \A i \in DOMAIN Plan : i # at[r] => Plan[i] # p /\ Plan[i] \in Profiles
  BY <1>0, <1>1, CollectingAlone DEF Profiling
<1>3. nsys[p] \in NsysFiles /\ nsys[p] # None /\ nsys[p].claim = Identity(r, p)
  BY <1>0, <1>1, <1>2 DEF Ledger, Types, ProfileIsBegun
<1>4. nsys[p].app \in [ok : BOOLEAN, ratio : 0 .. One]
  BY <1>3 DEF NsysFiles
<1>5. PICK goal \in {"ncu-start", "fail-index"} :
        pc' = [q \in Runners |-> IF q = r THEN goal ELSE pc[q]]
  BY DEF CheckNsys, Goto, IInv, Shape
<1>6. /\ ratio' \in [Runners -> [Profiles -> 0 .. One]] /\ nsys' \in [Profiles -> NsysFiles \cup {None}]
      /\ \A q \in Runners, o \in Profiles : q # r \/ o # p => ratio'[q][o] = ratio[q][o]
      /\ \A o \in Profiles : o # p => nsys'[o] = nsys[o]
      /\ Engine[p] # "hybrid-auto" => ratio'[r][p] = ratio[r][p]
      /\ goal = "ncu-start" => /\ nsys'[p] # None /\ nsys'[p].app.ok
                               /\ nsys'[p].app.ratio = ratio'[r][p]
                               /\ nsys'[p].claim = [ratio |-> ratio'[r][p], elf |-> planned[r]]
  <2>0. nsys \in [Profiles -> NsysFiles \cup {None}] /\ ratio \in [Runners -> [Profiles -> 0 .. One]]
        /\ planned[r] \in Nat
    BY DEF Ledger, Types
  <2>1. \/ UNCHANGED <<ratio, nsys>> /\ (goal = "ncu-start" => nsys[p].app.ok
                                                        /\ nsys[p].app.ratio = ratio[r][p])
        \/ /\ Engine[p] = "hybrid-auto" /\ nsys[p].app.ok
           /\ ratio' = [ratio EXCEPT ![r] = [@ EXCEPT ![p] = nsys[p].app.ratio]]
           /\ nsys' = [nsys EXCEPT ![p] = Rebound(nsys[p], [ratio |-> nsys[p].app.ratio,
                                                           elf |-> planned[r]])]
    <3>1. pc'[r] = goal
      BY <1>5
    <3> QED
      BY <1>0, <3>1 DEF CheckNsys, Collected, Goto, IInv, Shape
  <2>2. CASE UNCHANGED <<ratio, nsys>> /\ (goal = "ncu-start" => nsys[p].app.ok
                                                       /\ nsys[p].app.ratio = ratio[r][p])
    BY <1>3, <2>0, <2>2 DEF Identity
  <2>3. CASE /\ Engine[p] = "hybrid-auto" /\ nsys[p].app.ok
             /\ ratio' = [ratio EXCEPT ![r] = [@ EXCEPT ![p] = nsys[p].app.ratio]]
             /\ nsys' = [nsys EXCEPT ![p] = Rebound(nsys[p], [ratio |-> nsys[p].app.ratio,
                                                             elf |-> planned[r]])]
    <3> DEFINE c == Rebound(nsys[p], [ratio |-> nsys[p].app.ratio, elf |-> planned[r]])
    <3>1. /\ Engine[p] = "hybrid-auto" /\ nsys[p].app.ok
          /\ ratio' = [ratio EXCEPT ![r] = [@ EXCEPT ![p] = nsys[p].app.ratio]]
          /\ nsys' = [nsys EXCEPT ![p] = c]
      BY <2>3
    <3>2. c \in NsysFiles
      BY <1>3, <1>4, <2>0 DEF Rebound, NsysFiles, Identities
    <3>3. c.app = nsys[p].app /\ c.claim = [ratio |-> nsys[p].app.ratio, elf |-> planned[r]]
      BY DEF Rebound
    <3> HIDE DEF c
    <3>4. c # None
      BY <3>2, NoneAssumption
    <3>5. nsys'[p] = c /\ nsys' \in [Profiles -> NsysFiles \cup {None}]
          /\ \A o \in Profiles : o # p => nsys'[o] = nsys[o]
      BY <1>2, <2>0, <3>1, <3>2
    <3>6. ratio'[r][p] = nsys[p].app.ratio /\ ratio' \in [Runners -> [Profiles -> 0 .. One]]
          /\ \A q \in Runners, o \in Profiles : q # r \/ o # p => ratio'[q][o] = ratio[q][o]
      BY <1>2, <1>4, <2>0, <3>1
    <3> QED
      BY <3>1, <3>3, <3>4, <3>5, <3>6
  <2> QED
    BY <2>1, <2>2, <2>3
<1>7. Types' /\ PlaceIsKnown'
  BY <1>1, <1>2, <1>5, <1>6 DEF Ledger, Types, PlaceIsKnown, Early, Profiling, Closing, Freezing
<1>8. RatiosAreAllowed'
  BY <1>6 DEF Ledger, RatiosAreAllowed, PlannedRatio
<1>9. ProfilesAreDone' /\ ProfileIsBegun'
  <2>1. \A i \in 1 .. at[r] - 1 :
          /\ Plan[i] \in Profiles /\ Plan[i] # p
          /\ nsys'[Plan[i]] = nsys[Plan[i]] /\ ratio'[r][Plan[i]] = ratio[r][Plan[i]]
    <3>1. \A i \in 1 .. at[r] - 1 : Plan[i] \in Profiles /\ Plan[i] # p
      BY <1>2, PlanFacts
    <3> QED
      BY <1>6, <3>1
  <2>2. \A i \in 1 .. at[r] - 1 : UNCHANGED <<NsysDone(Plan[i]), NcuDone(Plan[i])>>
    BY <1>1, <1>2, <2>1 DEF NsysDone, NcuDone, Identity
  <2>3. ProfilesAreDone'
    BY <1>1, <1>2, <2>2 DEF Ledger, ProfilesAreDone
  <2>4. Plan[at'[r]] = p
    BY <1>0, <1>1
  <2>5. goal = "ncu-start" => NsysDone(p)'
    <3>1. stager' = r /\ planned' = planned
      BY <1>1, <1>2
    <3> QED
      BY <1>6, <3>1 DEF NsysDone, Identity
  <2>6. pc'[r] = goal /\ \A q \in Runners : q # r => pc'[q] \notin Profiling
    BY <1>2, <1>5
  <2> QED
    BY <2>3, <2>4, <2>5, <2>6 DEF ProfileIsBegun, Profiling
<1>10. RestIsMissing' /\ StateIsTrue'
  BY <1>1, <1>2, <1>5 DEF Ledger, RestIsMissing, StateIsTrue, BeforeNcu
<1>11. IndexIsTrue' /\ FrozenAsRead'
  BY <1>1, <1>2, <1>5 DEF Ledger, IndexIsTrue, FrozenAsRead, Freezing
<1> QED
  BY <1>7, <1>8, <1>9, <1>10, <1>11 DEF Ledger

\* A replay finds nothing of the profile, and leaves its own capture or nothing.
LEMMA LedgerNcuStep == ASSUME IInv, Ledger, NEW r \in Runners, CollectNcu(r) PROVE Ledger'
<1>0. PICK p : p = Plan[at[r]]
  OBVIOUS
<1>1. /\ pc[r] = "ncu-run" /\ pc' = [q \in Runners |-> IF q = r THEN "ncu-check" ELSE pc[q]]
      /\ UNCHANGED <<elf, tool, at, planned, ratio, statuses, seen, compiled,
                     index, orchestration, stager, nsys, manifest, digest>>
  BY DEF CollectNcu, Goto, IInv, Shape
<1>2. /\ stager = r /\ at[r] \in 1 .. Len(Plan) /\ p \in Profiles
      /\ \A q \in Runners : q # r => at[q] = 1 /\ pc[q] \notin Profiling \cup Closing
      /\ \A q \in Runners : pc[q] \notin Freezing
      /\ \A q \in Runners : \A i \in 1 .. at[q] - 1 : q = r /\ Plan[i] \in Profiles
      /\ \A i \in DOMAIN Plan : i # at[r] => Plan[i] # p /\ Plan[i] \in Profiles
  BY <1>0, <1>1, CollectingAlone DEF Profiling
<1>3. ncu[p] = None /\ NsysDone(p)
  BY <1>0, <1>1, <1>2, PlanFacts DEF Ledger, RestIsMissing, ProfileIsBegun, BeforeNcu
<1>4. PICK c \in NcuFiles \cup {None} :
        ncu' = [ncu EXCEPT ![p] = c] /\ (c # None => c.claim = Identity(r, p))
  <2>1. PICK result \in NcuResults, gpu \in {"same", "other"} :
          ncu' = [ncu EXCEPT ![p] =
              IF result = "selection" THEN @
              ELSE [by |-> r, ran |-> elf, claim |-> Identity(r, p), elf |-> seen[r],
                    gpu |-> gpu, result |-> result]]
    BY <1>0 DEF CollectNcu
  <2> DEFINE c == [by |-> r, ran |-> elf, claim |-> Identity(r, p), elf |-> seen[r],
                   gpu |-> gpu, result |-> result]
  <2>2. Identity(r, p) \in Identities
    BY <1>2 DEF Identity, Identities, Ledger, Types
  <2>3. c \in NcuFiles /\ c.claim = Identity(r, p)
    BY <2>2 DEF NcuFiles, Ledger, Types
  <2> HIDE DEF c
  <2>4. ncu' = [ncu EXCEPT ![p] = None] \/ ncu' = [ncu EXCEPT ![p] = c]
    BY <1>3, <2>1 DEF c
  <2> QED
    BY <2>3, <2>4
<1>5. ncu'[p] = c /\ \A q \in Profiles : q # p => ncu'[q] = ncu[q]
  BY <1>2, <1>4 DEF Ledger, Types
<1>6. Types' /\ PlaceIsKnown' /\ RatiosAreAllowed'
  BY <1>1, <1>2, <1>4
     DEF Ledger, Types, PlaceIsKnown, RatiosAreAllowed, Early, Profiling, Closing, Freezing
<1>7. ProfilesAreDone'
  <2>1. \A i \in 1 .. at[r] - 1 : UNCHANGED <<NsysDone(Plan[i]), NcuDone(Plan[i])>>
    BY <1>1, <1>2, <1>5, PlanFacts DEF NsysDone, NcuDone, Identity
  <2> QED
    BY <1>1, <1>2, <2>1 DEF Ledger, ProfilesAreDone
<1>8. ProfileIsBegun'
  <2>1. Plan[at'[r]] = p /\ UNCHANGED <<Identity(r, p), NsysDone(p)>>
    BY <1>0, <1>1 DEF Identity, NsysDone
  <2>2. ncu'[p] # None => ncu'[p].claim = Identity(r, p)'
    BY <1>4, <1>5, <2>1
  <2>3. pc'[r] = "ncu-check" /\ \A q \in Runners : q # r => pc'[q] \notin Profiling
    BY <1>1, <1>2
  <2> QED
    BY <1>3, <2>1, <2>2, <2>3 DEF ProfileIsBegun, Profiling
<1>9. RestIsMissing'
  <2> SUFFICES ASSUME NEW i \in DOMAIN Plan, i > at[r] PROVE ncu'[Plan[i]] = None
    BY <1>1, <1>2 DEF RestIsMissing, BeforeNcu
  <2> QED
    BY <1>2, <1>5 DEF Ledger, RestIsMissing
<1>10. StateIsTrue' /\ IndexIsTrue' /\ FrozenAsRead'
  BY <1>1, <1>2
     DEF Ledger, StateIsTrue, IndexIsTrue, IndexOf, Identity, FrozenAsRead, Freezing
<1> QED
  BY <1>6, <1>7, <1>8, <1>9, <1>10 DEF Ledger

\* A profile counts as done once both captures are there and good.
LEMMA LedgerCheckNcuStep == ASSUME IInv, Ledger, NEW r \in Runners, CheckNcu(r) PROVE Ledger'
<1>0. PICK p : p = Plan[at[r]]
  OBVIOUS
<1>1. /\ pc[r] = "ncu-check"
      /\ UNCHANGED <<elf, tool, planned, ratio, seen, compiled,
                     index, orchestration, stager, nsys, ncu, manifest, digest>>
  BY DEF CheckNcu, files
<1>2. /\ stager = r /\ at[r] \in 1 .. Len(Plan) /\ p \in Profiles
      /\ \A q \in Runners : q # r => at[q] = 1 /\ pc[q] \notin Profiling \cup Closing
      /\ \A q \in Runners : pc[q] \notin Freezing
      /\ index = None \/ index.status # "complete"
      /\ \A q \in Runners : \A i \in 1 .. at[q] - 1 : q = r /\ Plan[i] \in Profiles
      /\ \A i \in DOMAIN Plan : i # at[r] => Plan[i] # p /\ Plan[i] \in Profiles
  BY <1>0, <1>1, CollectingAlone DEF Profiling
<1>3. NsysDone(p) /\ (ncu[p] # None => ncu[p].claim = Identity(r, p))
  BY <1>0, <1>1 DEF Ledger, ProfileIsBegun
<1>4. at \in [Runners -> 1 .. Len(Plan) + 1] /\ statuses \in [Runners -> [Profiles -> Statuses]]
      /\ pc = [q \in Runners |-> pc[q]]
  BY DEF Ledger, Types, IInv, Shape
<1>5. PICK s \in Statuses, goal \in {"keep-index", "fail-index"} :
        /\ statuses' = [statuses EXCEPT ![r] = [@ EXCEPT ![p] = s]]
        /\ pc' = [q \in Runners |-> IF q = r THEN goal ELSE pc[q]]
        /\ at' = IF goal = "keep-index" THEN [at EXCEPT ![r] = @ + 1] ELSE at
        /\ goal = "keep-index" =>
             ncu[p] # None /\ \/ s = "ok" /\ ncu[p].result = "ok"
                              \/ s = "unavailable" /\ Recognized(ncu[p].result)
  BY <1>0, <1>4, Zenon DEF CheckNcu, Goto, Unavailable, Statuses
<1>6. /\ statuses' \in [Runners -> [Profiles -> Statuses]]
      /\ statuses'[r][p] = s
      /\ \A q \in Runners, o \in Profiles : q # r \/ o # p => statuses'[q][o] = statuses[q][o]
      /\ at' \in [Runners -> 1 .. Len(Plan) + 1]
      /\ at'[r] = IF goal = "keep-index" THEN at[r] + 1 ELSE at[r]
      /\ \A q \in Runners : q # r => at'[q] = at[q]
      /\ pc'[r] = goal /\ \A q \in Runners : q # r => pc'[q] = pc[q]
  BY <1>2, <1>4, <1>5
<1>7. Types'
  BY <1>1, <1>6 DEF Ledger, Types
<1>8. PlaceIsKnown' /\ RatiosAreAllowed'
  BY <1>1, <1>2, <1>6
     DEF Ledger, PlaceIsKnown, RatiosAreAllowed, Early, Profiling, Closing, Freezing
<1>9. ProfilesAreDone'
  <2>1. ASSUME NEW i \in 1 .. at[r] - 1
        PROVE  NsysDone(Plan[i])' /\ NcuDone(Plan[i])'
    <3>1. NsysDone(Plan[i]) /\ NcuDone(Plan[i]) /\ Plan[i] \in Profiles /\ Plan[i] # p
      BY <1>2, PlanFacts DEF Ledger, ProfilesAreDone
    <3>2. statuses'[r][Plan[i]] = statuses[r][Plan[i]]
      BY <1>6, <3>1
    <3> QED
      BY <1>1, <1>2, <3>1, <3>2 DEF NsysDone, NcuDone, Identity
  <2>2. goal = "keep-index" => NsysDone(p)' /\ NcuDone(p)'
    BY <1>1, <1>2, <1>3, <1>5, <1>6 DEF NsysDone, NcuDone, Identity
  <2>3. ASSUME NEW q \in Runners, NEW i \in 1 .. at'[q] - 1
        PROVE  NsysDone(Plan[i])' /\ NcuDone(Plan[i])'
    <3>1. q = r
      BY <1>2, <1>6
    <3>2. i \in 1 .. at[r] - 1 \/ (goal = "keep-index" /\ i = at[r])
      BY <1>2, <1>6, <3>1
    <3> QED
      BY <1>0, <2>1, <2>2, <3>2
  <2> QED
    BY <2>3 DEF ProfilesAreDone
<1>10. ProfileIsBegun'
  BY <1>2, <1>6 DEF ProfileIsBegun, Profiling
<1>11. RestIsMissing'
  <2> SUFFICES ASSUME NEW i \in DOMAIN Plan, i > at[r] PROVE ncu'[Plan[i]] = None
    BY <1>1, <1>2, <1>6, PlanFacts DEF RestIsMissing, BeforeNcu
  <2> QED
    BY <1>1, <1>2 DEF Ledger, RestIsMissing
<1>12. StateIsTrue'
  BY <1>1, <1>2, <1>6 DEF Ledger, StateIsTrue
<1>13. IndexIsTrue' /\ FrozenAsRead'
  BY <1>1, <1>2, <1>6 DEF Ledger, IndexIsTrue, FrozenAsRead, Freezing
<1> QED
  BY <1>7, <1>8, <1>9, <1>10, <1>11, <1>12, <1>13 DEF Ledger

\* What finalize compiles is the index that the stager completed: any other
\* index is not final, and finalize refuses it.
LEMMA LedgerCompileStep ==
  ASSUME IInv, Ledger, NEW r \in Runners, Compile(r) PROVE Ledger'
<1>1. /\ pc[r] = "compile" /\ pc = [q \in Runners |-> pc[q]] /\ seen \in [Runners -> Nat]
      /\ compiled = [q \in Runners |-> compiled[q]]
  BY DEF Compile, IInv, Shape, Ledger, Types
<1>2. at[r] = Len(Plan) + 1 /\ stager = r
  BY <1>1, PlanFacts DEF Ledger, PlaceIsKnown, Closing
<1>3. CASE Goto(r, "fail-index") /\ UNCHANGED compiled
  BY <1>1, <1>3, LedgerQuietStep
     DEF Compile, Goto, files, Early, Profiling, BeforeNcu, Freezing, Closing
<1>4. CASE Accepted(Files, elf, tool) /\ compiled' = [compiled EXCEPT ![r] = Compiled(Files)]
           /\ Goto(r, "manifest")
  <2>1. UNCHANGED <<elf, tool, at, planned, ratio, statuses, seen, index, orchestration,
                    stager, nsys, ncu, manifest, digest>>
    BY DEF Compile, files
  <2>2. pc' = [q \in Runners |-> IF q = r THEN "manifest" ELSE pc[q]]
    BY <1>1, <1>4 DEF Goto
  <2>3. index = IndexOf(r, "complete")
    BY <1>2, <1>4 DEF Accepted, CanonicalCoverage, Files, Ledger, IndexIsTrue
  <2>4. compiled'[r] = [index |-> IndexOf(r, "complete"), nsys |-> nsys, ncu |-> ncu]
    BY <1>1, <1>4, <2>3 DEF Compiled, Files
  <2>5. Types'
    BY <1>1, <1>4, <2>1 DEF Ledger, Types
  <2>6. PlaceIsKnown' /\ RatiosAreAllowed'
    BY <1>2, <2>1, <2>2
       DEF Ledger, PlaceIsKnown, RatiosAreAllowed, Early, Profiling, Closing, Freezing
  <2>7. ProfilesAreDone'
    BY <2>1 DEF Ledger, ProfilesAreDone, NsysDone, NcuDone, Identity
  <2>8. ProfileIsBegun' /\ RestIsMissing'
    BY <2>1, <2>2 DEF Ledger, ProfileIsBegun, RestIsMissing, NsysDone, Identity, BeforeNcu
  <2>9. StateIsTrue' /\ IndexIsTrue'
    BY <2>1 DEF Ledger, StateIsTrue, IndexIsTrue, IndexOf, Identity
  <2>10. FrozenAsRead'
    <3>1. \A q \in Runners : q # r => pc'[q] \notin Freezing
      BY <1>2, <2>2, PlanFacts DEF Ledger, PlaceIsKnown, Closing
    <3>2. pc'[r] = "manifest" /\ UNCHANGED IndexOf(r, "complete")
      BY <2>1, <2>2 DEF IndexOf, Identity
    <3> QED
      BY <2>1, <2>4, <3>1, <3>2 DEF FrozenAsRead, Freezing
  <2> QED
    BY <2>5, <2>6, <2>7, <2>8, <2>9, <2>10 DEF Ledger
<1> QED
  BY <1>3, <1>4 DEF Compile

\* The manifest is what was compiled, and the digest is the manifest.
LEMMA LedgerFreezeStep ==
  ASSUME IInv, Ledger, NEW r \in Runners, WriteManifest(r) \/ WriteDigest(r) PROVE Ledger'
<1>1. /\ pc[r] \in {"manifest", "digest"}
      /\ UNCHANGED <<elf, tool, at, planned, ratio, statuses, seen, compiled, index,
                     orchestration, stager, nsys, ncu>>
      /\ \/ pc[r] = "manifest" /\ Goto(r, "digest") /\ manifest' = Manifest(compiled[r], Files)
         \/ pc[r] = "digest" /\ Goto(r, "audit") /\ manifest' = manifest /\ digest' = manifest
  BY DEF WriteManifest, WriteDigest
<1>2. at[r] = Len(Plan) + 1 /\ stager = r
  BY <1>1, PlanFacts DEF Ledger, PlaceIsKnown, Closing, Freezing
<1>3. pc' = [q \in Runners |-> IF q = r THEN IF pc[r] = "manifest" THEN "digest" ELSE "audit"
                               ELSE pc[q]]
  BY <1>1 DEF Goto, IInv, Shape
<1>4. Types' /\ RatiosAreAllowed'
  BY <1>1 DEF Ledger, Types, RatiosAreAllowed
<1>5. PlaceIsKnown'
  BY <1>1, <1>2, <1>3 DEF Ledger, PlaceIsKnown, Early, Profiling, Closing, Freezing
<1>6. ProfilesAreDone'
  BY <1>1 DEF Ledger, ProfilesAreDone, NsysDone, NcuDone, Identity
<1>7. ProfileIsBegun' /\ RestIsMissing'
  BY <1>1, <1>3 DEF Ledger, ProfileIsBegun, RestIsMissing, NsysDone, Identity, BeforeNcu
<1>8. StateIsTrue' /\ IndexIsTrue'
  BY <1>1 DEF Ledger, StateIsTrue, IndexIsTrue, IndexOf, Identity
<1>9. FrozenAsRead'
  <2>1. \A q \in Runners : q # r => pc'[q] \notin Freezing
    BY <1>2, <1>3, PlanFacts DEF Ledger, PlaceIsKnown, Closing
  <2>2. compiled'[r] = [index |-> IndexOf(r, "complete"), nsys |-> nsys, ncu |-> ncu]'
    BY <1>1 DEF Ledger, FrozenAsRead, Freezing, IndexOf, Identity
  <2>3. /\ manifest' = [profiles |-> compiled'[r], artifacts |-> manifest'.artifacts]
        /\ pc'[r] = "audit" => digest' = manifest'
    <3>1. CASE pc[r] = "manifest"
      BY <1>1, <1>3, <3>1 DEF Manifest
    <3>2. CASE pc[r] = "digest"
      BY <1>1, <1>3, <3>2 DEF Ledger, FrozenAsRead
    <3> QED
      BY <1>1, <3>1, <3>2
  <2> QED
    BY <2>1, <2>2, <2>3 DEF FrozenAsRead, Freezing
<1> QED
  BY <1>4, <1>5, <1>6, <1>7, <1>8, <1>9 DEF Ledger

LEMMA InitLedger == Init => Ledger
<1> SUFFICES ASSUME Init PROVE Ledger
  OBVIOUS
<1>1. \A p \in Profiles : PlannedRatio(p) \in 0 .. One
  <2> TAKE p \in Profiles
  <2> QED
    BY RatiosAssumption DEF PlannedRatio
<1>2. at = [r \in Runners |-> 1] /\ at \in [Runners -> 1 .. Len(Plan) + 1]
  BY PlanFacts DEF Init
<1>3. Types
  <2>1. ratio \in [Runners -> [Profiles -> 0 .. One]]
    BY <1>1 DEF Init
  <2>2. statuses \in [Runners -> [Profiles -> Statuses]]
    BY DEF Init, Statuses
  <2> QED
    BY <1>2, <2>1, <2>2 DEF Init, Types
<1>4. PlaceIsKnown
  BY <1>2, NoneAssumption, PlanFacts DEF Init, PlaceIsKnown, Profiling, Closing, Freezing, Early
<1>5. RatiosAreAllowed
  BY DEF Init, RatiosAreAllowed
<1>6. ProfilesAreDone /\ ProfileIsBegun /\ RestIsMissing
  BY <1>2, NoneAssumption DEF Init, ProfilesAreDone, ProfileIsBegun, RestIsMissing
<1>7. StateIsTrue /\ IndexIsTrue /\ FrozenAsRead
  BY DEF Init, StateIsTrue, IndexIsTrue, FrozenAsRead, Freezing
<1> QED
  BY <1>3, <1>4, <1>5, <1>6, <1>7 DEF Ledger

LEMMA NextLedger == IInv /\ Ledger /\ [Next]_vars => Ledger'
<1> SUFFICES ASSUME IInv, Ledger, [Next]_vars PROVE Ledger'
  OBVIOUS
<1>1. CASE UNCHANGED vars \/ Rebuild \/ Upgrade
  <2>1. UNCHANGED <<runs, files>> /\ elf' \in Nat /\ tool' \in Nat
    BY <1>1 DEF vars, Rebuild, Upgrade, Ledger, Types
  <2> USE <2>1 DEF runs, files, Ledger
  <2>2. Types' /\ PlaceIsKnown' /\ RatiosAreAllowed'
    BY DEF Types, PlaceIsKnown, RatiosAreAllowed
  <2>3. ProfilesAreDone' /\ ProfileIsBegun' /\ RestIsMissing'
    BY DEF ProfilesAreDone, ProfileIsBegun, RestIsMissing, NsysDone, NcuDone, Identity
  <2>4. StateIsTrue' /\ IndexIsTrue' /\ FrozenAsRead'
    BY DEF StateIsTrue, IndexIsTrue, FrozenAsRead, IndexOf, Identity
  <2> QED
    BY <2>2, <2>3, <2>4
<1>2. CASE \E r \in Runners : Step(r)
  <2>1. PICK r \in Runners : Step(r)
    BY <1>2
  <2> QED
    BY <2>1, LedgerQuietSteps, LedgerPlanStep, LedgerStageStep, LedgerNsysStep,
       LedgerCheckNsysStep, LedgerNcuStep, LedgerCheckNcuStep, LedgerCompileStep,
       LedgerFreezeStep DEF Step
<1> QED
  BY <1>1, <1>2 DEF Next

LEMMA Invariance == Spec => [](IInv /\ Ledger)
BY InitIInv, NextIInv, InitLedger, NextLedger, PTL DEF Spec

\* A profile that orchestration.json counts as done has both captures, of the
\* run that staged, and they are as good as finalize wants them, whatever
\* stopped the run and whichever other runs found the directory (_execute).
THEOREM CompletedProfilesAreCollected == Spec => []CompletedIsCollected
<1>1. IInv /\ Ledger => CompletedIsCollected
  <2> SUFFICES ASSUME IInv, Ledger, orchestration # None,
                      NEW i \in 1 .. orchestration.completed
               PROVE  /\ nsys[Plan[i]] # None /\ ncu[Plan[i]] # None
                      /\ nsys[Plan[i]].by = stager /\ ncu[Plan[i]].by = stager
                      /\ nsys[Plan[i]].app.ok
                      /\ nsys[Plan[i]].claim.ratio = nsys[Plan[i]].app.ratio
                      /\ ncu[Plan[i]].result = "ok" \/ Recognized(ncu[Plan[i]].result)
    BY DEF CompletedIsCollected
  <2>1. stager \in Runners /\ i \in 1 .. at[stager] - 1 /\ i \in 1 .. Len(Plan)
    BY PlanFacts DEF Ledger, StateIsTrue, Types
  <2>2. NsysDone(Plan[i]) /\ NcuDone(Plan[i]) /\ Plan[i] \in Profiles
    BY <2>1, PlanFacts DEF Ledger, ProfilesAreDone
  <2> QED
    BY <2>2 DEF NsysDone, NcuDone, Identity, IInv, CapturesAreSound, Sound
<1> QED
  BY <1>1, Invariance, PTL

\* What every check before finalize has let through, finalize accepts.
LEMMA CollectedIsAccepted ==
  ASSUME IInv, Ledger, NEW r \in Runners, pc[r] \in {"compile", "audit"},
         ~SeenLate(r), index = IndexOf(r, "complete")
  PROVE  Accepted(Files, elf, tool)
<1>1. at[r] = Len(Plan) + 1 /\ stager = r /\ elf = planned[r]
  BY PlanFacts DEF Ledger, PlaceIsKnown, Closing, Freezing, SeenLate
<1>2. index \in Indexes /\ index # None /\ index.status = "complete"
  BY IndexTypes, NoneAssumption DEF Ledger
<1>3. stager # None
  BY <1>1, NoneAssumption
<1> SUFFICES ASSUME NEW p \in Profiles
             PROVE  AllowedRatio(p, index.identity[p].ratio) /\ ProfileAccepted(Files, p, elf, tool)
  BY <1>2, <1>3 DEF Accepted, CanonicalCoverage, Files
<1>4. index.identity[p] = Identity(r, p) /\ index.ncu[p] = statuses[r][p]
  BY DEF IndexOf
<1>5. NsysDone(p) /\ NcuDone(p)
  <2>1. PICK i \in 1 .. at[r] - 1 : Plan[i] = p
    BY <1>1, PlanAssumption, PlanFacts
  <2> QED
    BY <2>1 DEF Ledger, ProfilesAreDone
<1>6. AllowedRatio(p, ratio[r][p])
  <2>1. ratio[r][p] \in 0 .. One /\ (Engine[p] # "hybrid-auto" => ratio[r][p] = PlannedRatio(p))
    BY DEF Ledger, Types, RatiosAreAllowed
  <2>2. Engine[p] = "hybrid-auto" => ratio[r][p] \notin {0, One}
    BY DEF SeenLate
  <2> QED
    BY <2>1, <2>2, RatiosAssumption DEF AllowedRatio, PlannedRatio, Device
<1>7. nsys[p].elf = elf /\ ncu[p].elf = elf /\ nsys[p].tool = tool /\ nsys[p].result = "ok"
      /\ ncu[p].gpu = "same"
  BY <1>1 DEF SeenLate
<1>8. NsysAccepted(nsys[p], Identity(r, p), tool)
  BY <1>1, <1>5, <1>7
     DEF NsysAccepted, NsysDone, CollectorMatches, AppStdoutMatches, ExportsReplay, Identity
<1>9. NcuCommon(ncu[p], Identity(r, p))
  BY <1>1, <1>5, <1>7
     DEF NcuDone, NcuCommon, CollectorMatches, GpuMatches, MetricsSelected, Recognized, Identity
<1>10. \/ statuses[r][p] = "ok" /\ NcuOk(ncu[p], Identity(r, p))
       \/ statuses[r][p] = "unavailable" /\ NcuUnavailable(ncu[p], Identity(r, p))
  BY <1>1, <1>5, <1>9 DEF NcuDone, NcuOk, NcuUnavailable
<1> QED
  BY <1>1, <1>4, <1>6, <1>8, <1>10 DEF ProfileAccepted, ExecutableStands, Identity, Files

\* Once every profile is collected, a run is refused only for what no check
\* before finalize looks at, or when another run wrote in between (_execute,
\* finalize, audit).
THEOREM CollectedRunsAreFrozen == Spec => CollectedIsFrozen
<1> DEFINE Refused == \A r \in Runners :
       pc[r] \in {"compile", "audit"} /\ pc'[r] = "fail-index" => SeenLate(r) \/ Disturbed(r)
<1>1. IInv /\ Ledger /\ [Next]_vars => [Refused]_vars
  <2> SUFFICES ASSUME IInv, Ledger, Next, NEW r \in Runners, pc[r] \in {"compile", "audit"},
                      pc'[r] = "fail-index", ~SeenLate(r), ~Disturbed(r)
               PROVE  FALSE
    OBVIOUS
  <2>1. index = IndexOf(r, "complete")
    BY DEF Disturbed
  <2>2. Accepted(Files, elf, tool)
    BY <2>1, CollectedIsAccepted
  <2>3. PICK q \in Runners : Step(q)
    <3>1. ~Rebuild /\ ~Upgrade
      BY DEF Rebuild, Upgrade, runs
    <3> QED
      BY <3>1 DEF Next
  <2>4. \E goal : Goto(q, goal)
    BY <2>3
       DEF Step, Validate, MakePlan, OpenIndex, OpenState, Stage, HashForNsys, HashForNcu, Hash,
           CollectNsys, CheckNsys, CollectNcu, CheckNcu, KeepIndex, KeepState, CloseIndex,
           Compile, WriteManifest, WriteDigest, Audit, CloseState, FailIndex, FailState, Kill,
           WriteIndex, WriteState
  <2>5. q = r
    BY <2>4 DEF Goto, IInv, Shape
  <2>6. Compile(r) \/ Audit(r) \/ Kill(r)
    BY <2>3, <2>5
       DEF Step, Validate, MakePlan, OpenIndex, OpenState, Stage, HashForNsys, HashForNcu, Hash,
           CollectNsys, CheckNsys, CollectNcu, CheckNcu, KeepIndex, KeepState, CloseIndex,
           WriteManifest, WriteDigest, CloseState, FailIndex, FailState, WriteIndex, WriteState
  <2>7. CASE Compile(r) \/ Kill(r)
    BY <2>2, <2>7 DEF Compile, Kill, Goto, IInv, Shape
  <2>8. CASE Audit(r)
    <3>1. pc[r] = "audit" /\ ~AuditOk
      BY <2>8 DEF Audit, Goto, IInv, Shape
    <3>2. manifest = Manifest(Compiled(Files), Files) /\ digest = manifest
      BY <2>1, <3>1 DEF Disturbed, Ledger, FrozenAsRead, Freezing, Manifest, Compiled, Files
    <3> QED
      BY <2>2, <3>1, <3>2 DEF AuditOk, AuditAccepts
  <2> QED
    BY <2>6, <2>7, <2>8
<1> QED
  BY <1>1, Invariance, PTL DEF Spec, CollectedIsFrozen

-----------------------------------------------------------------------------
(* The evidence bundle: what finalize knows at each of its steps.  The     *)
(* checks are not looked into, only that audit runs the same ones on the   *)
(* same files.                                                             *)

Done == {"csv", "md", "manifest", "digest", "ok"}
Fits == Evidence!BundleFits(copy, results) /\ context = Evidence!Context(copy, results)

\* The copies were accepted, what was read of them is still what they are, and
\* what is written after it says so.
EvidenceIsKept ==
  /\ step \in Done => Fits
  /\ step \in Evidence!Finalizing \cup {"ok"} => Evidence!RequiredInputs \subseteq results.files
  /\ step \in Done \ {"csv"} => csv = Evidence!Summary(results)
  /\ step \in {"manifest", "digest", "ok"} => md = Evidence!Summary(results)
  /\ step \in {"digest", "ok"} =>
       evidence = Evidence!Manifest(Evidence!Context(copy, results), Evidence!Artifacts)
  /\ step = "ok" => seal = evidence

LEMMA InitEvidence == Evidence!Init => EvidenceIsKept
BY DEF Evidence!Init, EvidenceIsKept, Evidence!Finalizing, Done

\* A step of finalize writes one file and knows what is in it.
LEMMA FinalizeStep == EvidenceIsKept /\ Evidence!Finalize => EvidenceIsKept'
<1> SUFFICES ASSUME EvidenceIsKept, Evidence!Finalize PROVE EvidenceIsKept'
  OBVIOUS
<1> USE DEF EvidenceIsKept, Evidence!Finalizing, Done, Fits
<1>1. CASE Evidence!Begin
  BY <1>1 DEF Evidence!Begin, Evidence!written
<1>2. CASE Evidence!Copy
  BY <1>2 DEF Evidence!Copy
<1>3. CASE Evidence!Validate
  BY <1>3 DEF Evidence!Validate, Evidence!written
<1>4. CASE Evidence!WriteCsv
  BY <1>4 DEF Evidence!WriteCsv, Evidence!Context
<1>5. CASE Evidence!WriteMd
  BY <1>5 DEF Evidence!WriteMd, Evidence!Context
<1>6. CASE Evidence!WriteManifest
  BY <1>6 DEF Evidence!WriteManifest, Evidence!Artifacts
<1>7. CASE Evidence!WriteDigest
  BY <1>7 DEF Evidence!WriteDigest, Evidence!Artifacts
<1> QED
  BY <1>1, <1>2, <1>3, <1>4, <1>5, <1>6, <1>7 DEF Evidence!Finalize

\* A crash ends what finalize knew, an edit does not touch the bundle.
LEMMA NextEvidence == EvidenceIsKept /\ [Evidence!Next]_(Evidence!vars) => EvidenceIsKept'
<1> SUFFICES ASSUME EvidenceIsKept, [Evidence!Next]_(Evidence!vars) PROVE EvidenceIsKept'
  OBVIOUS
<1>1. CASE UNCHANGED <<results, Evidence!written, step, context>>
  BY <1>1 DEF EvidenceIsKept, Evidence!Finalizing, Done, Fits, Evidence!written, Evidence!Artifacts
<1>2. CASE Evidence!Crash
  BY <1>2 DEF Evidence!Crash, EvidenceIsKept, Evidence!Finalizing, Done
<1>3. CASE Evidence!Finalize
  BY <1>3, FinalizeStep
<1> QED
  BY <1>1, <1>2, <1>3
     DEF Evidence!Next, Evidence!Edit, Evidence!MaterializeCorrectness, Evidence!vars

LEMMA EvidenceInvariance == Evidence!Spec => []EvidenceIsKept
BY InitEvidence, NextEvidence, PTL DEF Evidence!Spec

\* Success of finalize means acceptance by the audit, for any contents of the
\* sources and of the records, however the sources were edited meanwhile and
\* whatever earlier attempts left behind (finalize_bundle).
THEOREM SuccessIsAudited == Evidence!Spec => []FinalizedStands
<1>1. EvidenceIsKept => FinalizedStands
  BY DEF EvidenceIsKept, Evidence!Finalizing, Done, Fits, FinalizedStands,
         Evidence!FinalizedStands, Evidence!AuditOk
<1> QED
  BY <1>1, EvidenceInvariance, PTL

\* As long as no source changes, what is copied is what was checked.
CopiesAreSources ==
  /\ results \in Results
  /\ source = [k \in Evidence!KindSet |-> source[k]]
  /\ copy = [k \in Evidence!KindSet |-> copy[k]]
  /\ source["matrix"] \in Matrices /\ source["oracle"] \in Oracles
  /\ \A k \in Evidence!KindSet : source[k] \notin {None, Torn}
  /\ step = "copy" => next \in 1 .. 4
  /\ step \in {"copy", "validate"} /\ ~edited => Evidence!SourcesAgree(source)
  /\ step = "copy" /\ ~edited =>
       \A i \in 1 .. next - 1 : copy[Evidence!Kinds[i]] = source[Evidence!Kinds[i]]
  /\ step = "validate" /\ ~edited => copy = source

LEMMA InitCopies == Evidence!Init => CopiesAreSources
BY TornAssumption DEF Evidence!Init, CopiesAreSources, Evidence!KindSet

\* The sources change by an edit only, and stay whole.
LEMMA EditStep ==
  ASSUME CopiesAreSources, Evidence!Edit \/ Evidence!MaterializeCorrectness
  PROVE  CopiesAreSources'
<1>1. edited' = TRUE /\ UNCHANGED <<results, copy, step, next>>
  BY DEF Evidence!Edit, Evidence!MaterializeCorrectness, Evidence!written
<1>2. PICK k \in Evidence!KindSet : \E content :
        /\ source' = [source EXCEPT ![k] = content] /\ content \notin {None, Torn}
        /\ k = "matrix" => content \in Matrices
        /\ k = "oracle" => content \in Oracles
  <2>1. CASE Evidence!Edit
    <3>1. PICK k \in Evidence!KindSet : \E content \in Evidence!Contents[k] :
            source' = [source EXCEPT ![k] = content]
      BY <2>1 DEF Evidence!Edit
    <3>2. PICK content \in Evidence!Contents[k] : source' = [source EXCEPT ![k] = content]
      BY <3>1
    <3>3. /\ k = "matrix" => content \in Matrices
          /\ k = "dataset" => content \in Manifests
          /\ k = "oracle" => content \in Oracles
          /\ k = "correctness" => content \in Reports
      BY <3>2 DEF Evidence!Contents
    <3>4. content \notin {None, Torn}
      BY <3>3, TornAssumption DEF Evidence!KindSet
    <3> QED
      BY <3>2, <3>3, <3>4
  <2>2. CASE Evidence!MaterializeCorrectness
    <3> DEFINE report == Evidence!CorrectnessReport(source["matrix"], results, source["oracle"])
    <3>1. source' = [source EXCEPT !["correctness"] = report]
          /\ Evidence!MatrixIsValid(source["matrix"])
          /\ Evidence!MaterializesReport(source["matrix"], results, source["oracle"])
      BY <2>2 DEF Evidence!MaterializeCorrectness
    <3>2. report \notin {None, Torn}
      BY <3>1, TornAssumption DEF CopiesAreSources
    <3> QED
      BY <3>1, <3>2 DEF Evidence!KindSet
  <2> QED
    BY <2>1, <2>2
<1> QED
  BY <1>1, <1>2 DEF CopiesAreSources, Evidence!KindSet

LEMMA CopyStep == ASSUME CopiesAreSources, Evidence!Copy PROVE CopiesAreSources'
<1>1. step = "copy" /\ next \in 1 .. 4 /\ next' = next + 1
      /\ step' = (IF next = 4 THEN "validate" ELSE "copy")
      /\ copy' = [copy EXCEPT ![Evidence!Kinds[next]] = source[Evidence!Kinds[next]]]
      /\ UNCHANGED <<results, source, edited>>
  BY DEF Evidence!Copy, CopiesAreSources, Evidence!Kinds
<1>2. /\ Evidence!Kinds[1] = "matrix" /\ Evidence!Kinds[2] = "dataset"
      /\ Evidence!Kinds[3] = "oracle" /\ Evidence!Kinds[4] = "correctness"
  BY DEF Evidence!Kinds
<1>3. \A i \in 1 .. 4 : Evidence!Kinds[i] \in Evidence!KindSet
  BY <1>2 DEF Evidence!KindSet
<1>4. ~edited => \A i \in 1 .. next : copy'[Evidence!Kinds[i]] = source[Evidence!Kinds[i]]
  BY <1>1, <1>3 DEF CopiesAreSources
<1>5. copy' = [k \in Evidence!KindSet |-> copy'[k]]
  BY <1>1 DEF CopiesAreSources
<1>6. next = 4 /\ ~edited => copy' = source
  <2> SUFFICES ASSUME next = 4, ~edited PROVE copy' = source
    OBVIOUS
  <2>1. \A k \in Evidence!KindSet : copy'[k] = source[k]
    BY <1>2, <1>4 DEF Evidence!KindSet
  <2>2. source = [k \in Evidence!KindSet |-> source[k]]
    BY DEF CopiesAreSources
  <2> QED
    BY <1>5, <2>1, <2>2
<1>7. step' = "copy" /\ ~edited =>
        \A i \in 1 .. next' - 1 : copy'[Evidence!Kinds[i]] = source'[Evidence!Kinds[i]]
  BY <1>1, <1>4
<1>8. step' = "copy" => next' \in 1 .. 4
  BY <1>1
<1>9. ~edited => Evidence!SourcesAgree(source)
  BY <1>1 DEF CopiesAreSources
<1> QED
  BY <1>1, <1>5, <1>6, <1>7, <1>8, <1>9 DEF CopiesAreSources

LEMMA NextCopies == CopiesAreSources /\ [Evidence!Next]_(Evidence!vars) => CopiesAreSources'
<1> SUFFICES ASSUME CopiesAreSources, [Evidence!Next]_(Evidence!vars) PROVE CopiesAreSources'
  OBVIOUS
<1>1. CASE Evidence!Edit \/ Evidence!MaterializeCorrectness
  BY <1>1, EditStep
<1>2. CASE Evidence!Copy
  BY <1>2, CopyStep
<1>3. CASE Evidence!Begin
  BY <1>3 DEF Evidence!Begin, Evidence!written, CopiesAreSources
<1>4. CASE \/ Evidence!Validate \/ Evidence!WriteCsv \/ Evidence!WriteMd
           \/ Evidence!WriteManifest \/ Evidence!WriteDigest \/ UNCHANGED Evidence!vars
  BY <1>4 DEF Evidence!Validate, Evidence!WriteCsv, Evidence!WriteMd, Evidence!WriteManifest,
              Evidence!WriteDigest, Evidence!vars, Evidence!written, CopiesAreSources
<1>5. CASE Evidence!Crash
  <2>1. step' = "crashed" /\ UNCHANGED <<results, source>>
        /\ copy' = [k \in Evidence!KindSet |-> copy'[k]]
    BY <1>5 DEF Evidence!Crash, Evidence!written, CopiesAreSources
  <2> QED
    BY <2>1 DEF CopiesAreSources
<1> QED
  BY <1>1, <1>2, <1>3, <1>4, <1>5 DEF Evidence!Next, Evidence!Finalize

\* Nothing that an attempt leaves behind makes a later finalize refuse what it
\* copied: it refuses sources that changed under it, or records that do not
\* fit them (finalize_bundle).
THEOREM AttemptsLeaveNothing == Evidence!Spec => LeftoversDoNotMatter
<1> DEFINE Harmless == step = "validate" /\ step' = "refused" =>
       edited \/ ~Evidence!RecordsFit(source["matrix"], results)
<1>1. CopiesAreSources /\ [Evidence!Next]_(Evidence!vars) => [Harmless]_(Evidence!vars)
  <2> SUFFICES ASSUME CopiesAreSources, Evidence!Next, step = "validate", step' = "refused",
                      ~edited, Evidence!RecordsFit(source["matrix"], results)
               PROVE  FALSE
    OBVIOUS
  <2>1. Evidence!Validate
    BY DEF Evidence!Next, Evidence!Finalize, Evidence!Begin, Evidence!Copy, Evidence!WriteCsv,
           Evidence!WriteMd, Evidence!WriteManifest, Evidence!WriteDigest, Evidence!Crash,
           Evidence!Edit, Evidence!MaterializeCorrectness, Evidence!Finalizing
  <2>2. copy = source /\ Evidence!SourcesAgree(source)
    BY DEF CopiesAreSources
  <2>3. Evidence!Readable(copy)
    BY <2>2 DEF CopiesAreSources, Evidence!Readable
  <2>4. Evidence!BundleFits(copy, results)
    BY <2>2, <2>3 DEF Evidence!BundleFits
  <2> QED
    BY <2>1, <2>4 DEF Evidence!Validate
<1> QED
  BY <1>1, InitCopies, NextCopies, PTL
     DEF Evidence!Spec, LeftoversDoNotMatter, Evidence!LeftoversDoNotMatter

-----------------------------------------------------------------------------
(***************************************************************************)
(* The matrix: whatever its options, two of its sessions differ in what    *)
(* they are started with.  The keys that must differ have a ratio, which   *)
(* only the command of a hybrid session says; but then no other engine has *)
(* a choice.                                                               *)
(***************************************************************************)
Word(config, matrix, i) == Evidence!CanonicalCommand(config, matrix, Setting)[i]
Length(config, matrix) == Len(Evidence!CanonicalCommand(config, matrix, Setting))

\* The command says the engine, the threads and the ratio of a C++ session.
LEMMA CommandSays ==
  ASSUME NEW config, NEW matrix
  PROVE  /\ config.runner = "cudf" => Length(config, matrix) = 7
         /\ config.runner # "cudf" =>
              /\ Length(config, matrix) \in {8, 10}
              /\ Word(config, matrix, 3) = config.engine
              /\ Word(config, matrix, 4) = config.threads
         /\ config.runner # "cudf" /\ config.engine = "hybrid-arrow" =>
              /\ config.ratio_mode = "fixed" => Word(config, matrix, 9) = "--cpu-ratio"
                                                /\ Word(config, matrix, 10) = config.cpu_ratio
              /\ config.ratio_mode # "fixed" => Word(config, matrix, 9) = "--hybrid-selection"
<1> DEFINE d == Setting.dataset  q == matrix["query"]
           w == matrix["protocol"].warmup  r == matrix["protocol"].repeat
           g == Setting.gpu_index  cli == Setting.session_cli
<1>1. Evidence!Common(matrix, Setting) = <<d, q, w, r>>
  BY DEF Evidence!Common
<1> HIDE DEF d, q, w, r
<1>2. CASE config.runner = "cudf"
  <2> DEFINE env == Setting.cudf_env
  <2>1. Evidence!CanonicalCommand(config, matrix, Setting) =
          <<g>> \o (<<"conda", env>> \o <<d, q, w, r>>)
    BY <1>1, <1>2 DEF Evidence!CanonicalCommand, Evidence!BuildCommand
  <2> HIDE DEF g, env
  <2> QED
    BY <1>2, <2>1 DEF Length
<1>3. ASSUME config.runner # "cudf", config.engine # "hybrid-arrow"
      PROVE  /\ Length(config, matrix) = 8
             /\ Word(config, matrix, 3) = config.engine
             /\ Word(config, matrix, 4) = config.threads
  <2>1. Evidence!CanonicalCommand(config, matrix, Setting) =
          <<g>> \o (<<cli, config.engine, config.threads>> \o <<d, q, w, r>> \o <<>>)
    BY <1>1, <1>3 DEF Evidence!CanonicalCommand, Evidence!BuildCommand
  <2> HIDE DEF g, cli
  <2> QED
    BY <2>1 DEF Length, Word
<1>4. ASSUME config.runner # "cudf", config.engine = "hybrid-arrow",
             config.ratio_mode = "fixed"
      PROVE  /\ Length(config, matrix) = 10
             /\ Word(config, matrix, 3) = config.engine
             /\ Word(config, matrix, 4) = config.threads
             /\ Word(config, matrix, 9) = "--cpu-ratio"
             /\ Word(config, matrix, 10) = config.cpu_ratio
  <2>1. Evidence!CanonicalCommand(config, matrix, Setting) =
          <<g>> \o (<<cli, config.engine, config.threads>> \o <<d, q, w, r>>
                      \o <<"--cpu-ratio", config.cpu_ratio>>)
    BY <1>1, <1>4 DEF Evidence!CanonicalCommand, Evidence!BuildCommand
  <2> HIDE DEF g, cli
  <2> QED
    BY <2>1 DEF Length, Word
<1>5. ASSUME config.runner # "cudf", config.engine = "hybrid-arrow",
             config.ratio_mode # "fixed"
      PROVE  /\ Length(config, matrix) = 10
             /\ Word(config, matrix, 3) = config.engine
             /\ Word(config, matrix, 4) = config.threads
             /\ Word(config, matrix, 9) = "--hybrid-selection"
  <2>1. Evidence!CanonicalCommand(config, matrix, Setting) =
          <<g>> \o (<<cli, config.engine, config.threads>> \o <<d, q, w, r>>
                      \o <<"--hybrid-selection", "auto">>)
    BY <1>1, <1>5 DEF Evidence!CanonicalCommand, Evidence!BuildCommand
  <2> HIDE DEF g, cli
  <2> QED
    BY <2>1 DEF Length, Word
<1> QED
  BY <1>2, <1>3, <1>4, <1>5

\* What is checked of the options of a session.
Key(engine, options) ==
  <<engine, options["threads"], Evidence!RatioMode(options), Evidence!Get(options, "cpu_ratio", 0)>>

\* In either form of the matrix.
AreValid(engine, options) ==
  Evidence!EngineOptionsAreValid(engine, options, TRUE)
    \/ Evidence!EngineOptionsAreValid(engine, options, FALSE)

LEMMA OptionsDecideCommand ==
  ASSUME NEW matrix,
         NEW e, NEW i, NEW o, AreValid(e, o),
         NEW f, NEW j, NEW p, AreValid(f, p),
         Evidence!CanonicalCommand(Evidence!Configuration(e, i, o), matrix, Setting) =
           Evidence!CanonicalCommand(Evidence!Configuration(f, j, p), matrix, Setting)
  PROVE  Key(e, o) = Key(f, p)
<1> DEFINE a == Evidence!Configuration(e, i, o)
           b == Evidence!Configuration(f, j, p)
<1>1. ASSUME NEW x, NEW k, NEW options, AreValid(x, options)
      PROVE  LET c == Evidence!Configuration(x, k, options) IN
             /\ c.engine = x /\ c.threads = options["threads"]
             /\ c.ratio_mode = Evidence!RatioMode(options)
             /\ c.cpu_ratio = Evidence!Get(options, "cpu_ratio", 0)
             /\ c.runner = IF x = "cudf" THEN "cudf" ELSE "cpp"
             /\ x = "cudf" => c.threads = 1
             /\ x # "hybrid-arrow" =>
                  /\ c.ratio_mode = "fixed"
                  /\ c.cpu_ratio = IF x \in Evidence!CpuEngines THEN One ELSE 0
             /\ c.ratio_mode = "fixed" \/ (c.ratio_mode = "auto" /\ c.cpu_ratio = 0)
  <2> DEFINE c == Evidence!Configuration(x, k, options)
  <2>1. /\ c.engine = x /\ c.threads = options["threads"]
        /\ c.ratio_mode = Evidence!RatioMode(options)
        /\ c.cpu_ratio = Evidence!Get(options, "cpu_ratio", 0)
        /\ c.runner = options["runner"]
    BY DEF Evidence!Configuration
  <2>2. /\ options["runner"] = IF x = "cudf" THEN "cudf" ELSE "cpp"
        /\ x = "cudf" => options["threads"] = 1
        /\ Evidence!RatioMode(options) \in {"fixed", "auto"}
        /\ Evidence!RatioIsValid(x, options)
    BY <1>1 DEF AreValid, Evidence!EngineOptionsAreValid
  <2>3. CASE Evidence!RatioMode(options) = "auto"
    <3>1. x = "hybrid-arrow" /\ "cpu_ratio" \notin DOMAIN options
      BY <2>2, <2>3 DEF Evidence!RatioIsValid
    <3>2. Evidence!Get(options, "cpu_ratio", 0) = 0
      BY <3>1 DEF Evidence!Get
    <3> QED
      BY <2>1, <2>2, <2>3, <3>1, <3>2
  <2>4. CASE Evidence!RatioMode(options) = "fixed"
    <3>1. "cpu_ratio" \in DOMAIN options
          /\ options["cpu_ratio"] \in
               CASE x \in Evidence!CpuEngines -> {One}
                 [] x = "hybrid-arrow" -> 0 .. One
                 [] OTHER -> {0}
      BY <2>2, <2>4 DEF Evidence!RatioIsValid
    <3>2. Evidence!Get(options, "cpu_ratio", 0) = options["cpu_ratio"]
      BY <3>1 DEF Evidence!Get
    <3>3. x \in Evidence!CpuEngines => x # "hybrid-arrow"
      BY DEF Evidence!CpuEngines
    <3>4. x # "hybrid-arrow" =>
            options["cpu_ratio"] = IF x \in Evidence!CpuEngines THEN One ELSE 0
      BY <3>1, <3>3
    <3> QED
      BY <2>1, <2>2, <2>4, <3>2, <3>4
  <2> QED
    BY <2>2, <2>3, <2>4
<1>2. Length(a, matrix) = Length(b, matrix)
      /\ \A n : Word(a, matrix, n) = Word(b, matrix, n)
  BY DEF Length, Word
<1>3. /\ a.engine = e /\ a.threads = o["threads"] /\ a.ratio_mode = Evidence!RatioMode(o)
      /\ a.cpu_ratio = Evidence!Get(o, "cpu_ratio", 0)
      /\ a.runner = IF e = "cudf" THEN "cudf" ELSE "cpp"
      /\ e = "cudf" => a.threads = 1
      /\ e # "hybrid-arrow" =>
           a.ratio_mode = "fixed" /\ a.cpu_ratio = IF e \in Evidence!CpuEngines THEN One ELSE 0
      /\ a.ratio_mode = "fixed" \/ (a.ratio_mode = "auto" /\ a.cpu_ratio = 0)
  BY <1>1
<1>4. /\ b.engine = f /\ b.threads = p["threads"] /\ b.ratio_mode = Evidence!RatioMode(p)
      /\ b.cpu_ratio = Evidence!Get(p, "cpu_ratio", 0)
      /\ b.runner = IF f = "cudf" THEN "cudf" ELSE "cpp"
      /\ f = "cudf" => b.threads = 1
      /\ f # "hybrid-arrow" =>
           b.ratio_mode = "fixed" /\ b.cpu_ratio = IF f \in Evidence!CpuEngines THEN One ELSE 0
      /\ b.ratio_mode = "fixed" \/ (b.ratio_mode = "auto" /\ b.cpu_ratio = 0)
  BY <1>1
<1> HIDE DEF a, b
<1>5. e = "cudf" <=> f = "cudf"
  BY <1>2, <1>3, <1>4, CommandSays
<1>6. e = f /\ a.threads = b.threads
  BY <1>2, <1>3, <1>4, <1>5, CommandSays
<1>7. a.ratio_mode = b.ratio_mode /\ a.cpu_ratio = b.cpu_ratio
  <2>1. CASE e # "hybrid-arrow"
    BY <1>3, <1>4, <1>6, <2>1
  <2>2. CASE e = "hybrid-arrow"
    <3>1. a.runner # "cudf" /\ b.runner # "cudf"
          /\ a.engine = "hybrid-arrow" /\ b.engine = "hybrid-arrow"
      BY <1>3, <1>4, <1>6, <2>2
    <3>2. a.ratio_mode = "fixed" <=> b.ratio_mode = "fixed"
      BY <1>2, <3>1, CommandSays
    <3>3. a.ratio_mode = "fixed" => a.cpu_ratio = b.cpu_ratio
      BY <1>2, <3>1, <3>2, CommandSays
    <3> QED
      BY <1>3, <1>4, <3>2, <3>3
  <2> QED
    BY <2>1, <2>2
<1> QED
  BY <1>3, <1>4, <1>6, <1>7 DEF Key

-----------------------------------------------------------------------------
\* The configurations that are run are a fold over those that are listed.
ListFold == INSTANCE Folding WITH Op <- LAMBDA c, d, v, x : Evidence!AddConfiguration(v, x)

LEMMA ListedIsFold ==
  \A s : Evidence!FoldLeft(Evidence!AddConfiguration, <<>>, s) = ListFold!Fold(0, 0, <<>>, s)
BY DEF ListFold!Fold, ListFold!FoldLeft, ListFold!MapThenFoldSet, ListFold!Max,
       Evidence!FoldLeft, Evidence!MapThenFoldSet, Evidence!Max

Session(options) == Evidence!Configuration(options["engine"], options["config_id"], options)

\* What may come of the first k configurations listed: sessions of theirs, no two
\* of the same id.
RunOf(listed, k, output) ==
  /\ output \in Seq({Session(listed[i]) : i \in 1 .. Len(listed)})
  /\ \A a \in DOMAIN output : \E i \in 1 .. k : output[a] = Session(listed[i])
  /\ \A a, b \in DOMAIN output : output[a].config_id = output[b].config_id => a = b

IdsDiffer(listed) ==
  \A i, j \in 1 .. Len(listed) : listed[i]["config_id"] = listed[j]["config_id"] => i = j

LEMMA IdOfSession == \A options : Session(options).config_id = options["config_id"]
BY DEF Session, Evidence!Configuration

LEMMA RunOfOneMore ==
  ASSUME NEW S, NEW listed \in Seq(S), IdsDiffer(listed), NEW k \in 1 .. Len(listed),
         NEW output, RunOf(listed, k - 1, output)
  PROVE  RunOf(listed, k, Evidence!AddConfiguration(output, listed[k]))
<1> DEFINE X == {Session(listed[i]) : i \in 1 .. Len(listed)}
           one == Session(listed[k])
           more == Append(output, one)
<1>1. Len(listed) \in Nat /\ k \in Nat /\ output \in Seq(X) /\ one \in X
  BY DEF RunOf
<1>2. Evidence!AddConfiguration(output, listed[k]) =
        IF Evidence!Enabled(listed[k]) THEN more ELSE output
  BY DEF Evidence!AddConfiguration, Session
<1>3. \A a \in DOMAIN output : \E i \in 1 .. k - 1 : output[a] = Session(listed[i])
  BY DEF RunOf
<1>4. \A a, b \in DOMAIN output : output[a].config_id = output[b].config_id => a = b
  BY DEF RunOf
<1>5. \A a \in DOMAIN output : output[a].config_id # one.config_id
  <2> SUFFICES ASSUME NEW a \in DOMAIN output, output[a].config_id = one.config_id
               PROVE  FALSE
    OBVIOUS
  <2> HIDE DEF X, more
  <2>1. PICK i \in 1 .. k - 1 : output[a] = Session(listed[i])
    BY <1>3
  <2>2. listed[i]["config_id"] = listed[k]["config_id"]
    BY <2>1, IdOfSession
  <2> HIDE DEF one
  <2>3. PICK n \in Nat : n = Len(listed)
    BY <1>1
  <2>4. k \in 1 .. n /\ i \in 1 .. n /\ i # k
    BY <2>3
  <2> QED
    BY <2>2, <2>3, <2>4 DEF IdsDiffer
<1>6. CASE Evidence!Enabled(listed[k])
  <2> HIDE DEF X, one
  <2>1. /\ more \in Seq(X) /\ Len(output) \in Nat /\ DOMAIN output = 1 .. Len(output)
        /\ DOMAIN more = 1 .. Len(output) + 1 /\ more[Len(output) + 1] = one
        /\ \A a \in DOMAIN output : more[a] = output[a]
    BY <1>1
  <2> HIDE DEF more
  <2>2. \A a \in DOMAIN more : a \in DOMAIN output \/ a = Len(output) + 1
    BY <2>1
  <2>3. \A a \in DOMAIN more : \E i \in 1 .. k : more[a] = Session(listed[i])
    <3> SUFFICES ASSUME NEW a \in DOMAIN more
                 PROVE  \E i \in 1 .. k : more[a] = Session(listed[i])
      OBVIOUS
    <3>1. CASE a \in DOMAIN output
      <4>1. PICK i \in 1 .. k - 1 : output[a] = Session(listed[i])
        BY <1>3, <3>1
      <4>2. i \in 1 .. k
        BY <1>1
      <4> QED
        BY <2>1, <3>1, <4>1, <4>2
    <3>2. CASE a = Len(output) + 1
      <4>1. k \in 1 .. k
        BY <1>1
      <4> QED
        BY <2>1, <3>2, <4>1 DEF one
    <3> QED
      BY <2>2, <3>1, <3>2
  <2>4. \A a, b \in DOMAIN more : more[a].config_id = more[b].config_id => a = b
    BY <1>4, <1>5, <2>1, <2>2
  <2>5. RunOf(listed, k, more)
    BY <2>1, <2>3, <2>4 DEF RunOf, X
  <2> QED
    BY <1>2, <1>6, <2>5
<1>7. CASE ~Evidence!Enabled(listed[k])
  <2>1. \A a \in DOMAIN output : \E i \in 1 .. k : output[a] = Session(listed[i])
    BY <1>1, <1>3
  <2>2. RunOf(listed, k, output)
    BY <1>1, <1>4, <2>1 DEF RunOf
  <2> QED
    BY <1>2, <1>7, <2>2
<1> QED
  BY <1>6, <1>7

LEMMA RunOfListed ==
  ASSUME NEW S, NEW listed \in Seq(S), IdsDiffer(listed)
  PROVE  RunOf(listed, Len(listed), Evidence!FoldLeft(Evidence!AddConfiguration, <<>>, listed))
<1> DEFINE V == Seq({Session(listed[i]) : i \in 1 .. Len(listed)})
           I == {kv \in Nat \X V : RunOf(listed, kv[1], kv[2])}
<1>1. <<0, <<>> >> \in I
  <2>1. <<>> \in V /\ DOMAIN <<>> = {}
    OBVIOUS
  <2>2. RunOf(listed, 0, <<>>)
    BY <2>1, Zenon DEF RunOf
  <2> QED
    BY <2>1, <2>2
<1>2. \A k \in 1 .. Len(listed) : \A v : <<k - 1, v>> \in I =>
        <<k, Evidence!AddConfiguration(v, listed[k])>> \in I
  <2> SUFFICES ASSUME NEW k \in 1 .. Len(listed), NEW v, <<k - 1, v>> \in I
               PROVE  <<k, Evidence!AddConfiguration(v, listed[k])>> \in I
    OBVIOUS
  <2>1. RunOf(listed, k - 1, v)
    OBVIOUS
  <2>2. RunOf(listed, k, Evidence!AddConfiguration(v, listed[k]))
    BY <2>1, RunOfOneMore
  <2>3. k \in Nat /\ Evidence!AddConfiguration(v, listed[k]) \in V
    BY <2>2 DEF RunOf
  <2> QED
    BY <2>2, <2>3
<1> HIDE DEF I
<1>3. <<Len(listed), ListFold!Fold(0, 0, <<>>, listed)>> \in I
  BY <1>1, <1>2, ListFold!FoldInduction
<1> QED
  BY <1>3, ListedIsFold DEF I

-----------------------------------------------------------------------------
\* Two sessions that are of other options, and have other ids.
LEMMA OtherOptions ==
  ASSUME NEW matrix,
         NEW e, NEW i, NEW o, AreValid(e, o),
         NEW f, NEW j, NEW p, AreValid(f, p),
         Key(e, o) # Key(f, p), i # j
  PROVE  LET a == Evidence!Configuration(e, i, o)
             b == Evidence!Configuration(f, j, p)
         IN  /\ Evidence!CanonicalCommand(a, matrix, Setting)
                  # Evidence!CanonicalCommand(b, matrix, Setting)
             /\ Evidence!LogPaths(a) \cap Evidence!LogPaths(b) = {}
<1> DEFINE a == Evidence!Configuration(e, i, o)
           b == Evidence!Configuration(f, j, p)
<1>1. Evidence!CanonicalCommand(a, matrix, Setting) # Evidence!CanonicalCommand(b, matrix, Setting)
  BY OptionsDecideCommand
<1>2. a.config_id = i /\ b.config_id = j
  BY DEF Evidence!Configuration
<1> HIDE DEF a, b
<1>3. Evidence!LogPaths(a) \cap Evidence!LogPaths(b) = {}
  BY <1>2 DEF Evidence!LogPaths
<1> QED
  BY <1>1, <1>3 DEF a, b

\* What an accepted matrix says, in either of its forms.
LEMMA ListsOptions ==
  ASSUME NEW matrix, Evidence!MatrixIsValid(matrix)
  PROVE  /\ "engines" \in DOMAIN matrix =>
              \A k \in DOMAIN matrix["engines"] :
                AreValid(matrix["engines"][k].engine, matrix["engines"][k].options)
         /\ "engines" \notin DOMAIN matrix =>
              LET listed == matrix["configurations"] IN
              /\ "configurations" \in DOMAIN matrix
              /\ \A k \in DOMAIN listed :
                   AreValid(listed[k]["engine"], listed[k])
              /\ \A k, l \in DOMAIN listed : k # l =>
                   /\ listed[k]["config_id"] # listed[l]["config_id"]
                   /\ Key(listed[k]["engine"], listed[k]) # Key(listed[l]["engine"], listed[l])
<1>1. CASE "engines" \in DOMAIN matrix
  <2>1. Evidence!Get(matrix, "engines", <<>>) = matrix["engines"]
    BY <1>1 DEF Evidence!Get
  <2> QED
    BY <1>1, <2>1 DEF Evidence!MatrixIsValid, AreValid
<1>2. CASE "engines" \notin DOMAIN matrix
  <2> DEFINE listed == matrix["configurations"]
  <2>1. "configurations" \in DOMAIN matrix
    BY <1>2 DEF Evidence!MatrixIsValid
  <2>2. Evidence!Get(matrix, "configurations", <<>>) = listed
    BY <2>1 DEF Evidence!Get
  <2>3. \A k \in DOMAIN listed :
          /\ AreValid(listed[k]["engine"], listed[k])
          /\ \A l \in DOMAIN listed : k # l =>
               /\ listed[k]["config_id"] # listed[l]["config_id"]
               /\ Evidence!LogicalKey(listed[k]) # Evidence!LogicalKey(listed[l])
    BY <2>2 DEF Evidence!MatrixIsValid, AreValid
  <2>4. \A options : Evidence!LogicalKey(options) = Key(options["engine"], options)
    BY DEF Evidence!LogicalKey, Key
  <2> HIDE DEF listed
  <2>5. /\ \A k \in DOMAIN listed :
             AreValid(listed[k]["engine"], listed[k])
        /\ \A k, l \in DOMAIN listed : k # l =>
             /\ listed[k]["config_id"] # listed[l]["config_id"]
             /\ Key(listed[k]["engine"], listed[k]) # Key(listed[l]["engine"], listed[l])
    BY <2>3, <2>4
  <2> QED
    BY <1>2, <2>1, <2>5 DEF listed
<1> QED
  BY <1>1, <1>2

LEMMA AcceptedSessionsDiffer ==
  ASSUME NEW matrix \in Plans
  PROVE  Evidence!SessionsDiffer(matrix, Setting)
<1> DEFINE configs == Evidence!Configurations(matrix)
           Differ(a, b) ==
             /\ Evidence!CanonicalCommand(a, matrix, Setting)
                  # Evidence!CanonicalCommand(b, matrix, Setting)
             /\ Evidence!LogPaths(a) \cap Evidence!LogPaths(b) = {}
<1> SUFFICES ASSUME Evidence!MatrixIsValid(matrix),
                    NEW i \in DOMAIN configs, NEW j \in DOMAIN configs, i # j
             PROVE  Differ(configs[i], configs[j])
  BY DEF Evidence!SessionsDiffer
<1>1. CASE "engines" \in DOMAIN matrix
  <2> DEFINE entries == matrix["engines"]
             e == entries[i].engine
             f == entries[j].engine
  <2>1. /\ i \in DOMAIN entries /\ j \in DOMAIN entries
        /\ configs[i] = Evidence!Configuration(e, e, entries[i].options)
        /\ configs[j] = Evidence!Configuration(f, f, entries[j].options)
    BY <1>1 DEF Evidence!Configurations
  <2>2. e # f
    BY <1>1, <2>1, PlansAreJson
  <2>3. /\ AreValid(e, entries[i].options)
        /\ AreValid(f, entries[j].options)
    BY <1>1, <2>1, ListsOptions
  <2>4. Key(e, entries[i].options) # Key(f, entries[j].options)
    BY <2>2 DEF Key
  <2> HIDE DEF configs, e, f, entries
  <2>5. Differ(Evidence!Configuration(e, e, entries[i].options),
               Evidence!Configuration(f, f, entries[j].options))
    BY <2>2, <2>3, <2>4, OtherOptions
  <2> HIDE DEF Differ
  <2> QED
    BY <2>1, <2>5
<1>2. CASE "engines" \notin DOMAIN matrix
  <2> DEFINE listed == matrix["configurations"]
             S == {listed[k] : k \in DOMAIN listed}
  <2>1. configs = Evidence!FoldLeft(Evidence!AddConfiguration, <<>>, listed)
    BY <1>2 DEF Evidence!Configurations
  <2>2. listed \in Seq(S)
    BY <1>2, ListsOptions, PlansAreJson
  <2>3. /\ \A k \in DOMAIN listed :
             AreValid(listed[k]["engine"], listed[k])
        /\ \A k, l \in DOMAIN listed : k # l =>
             /\ listed[k]["config_id"] # listed[l]["config_id"]
             /\ Key(listed[k]["engine"], listed[k]) # Key(listed[l]["engine"], listed[l])
    BY <1>2, ListsOptions
  <2> HIDE DEF configs, listed, S
  <2>4. DOMAIN listed = 1 .. Len(listed)
    BY <2>2
  <2>5. IdsDiffer(listed)
    BY <2>3, <2>4 DEF IdsDiffer
  <2>6. RunOf(listed, Len(listed), configs)
    BY <2>1, <2>2, <2>5, RunOfListed
  <2>7. PICK k \in DOMAIN listed : configs[i] = Session(listed[k])
    BY <2>4, <2>6 DEF RunOf
  <2>8. PICK l \in DOMAIN listed : configs[j] = Session(listed[l])
    BY <2>4, <2>6 DEF RunOf
  <2>9. k # l
    BY <2>6, <2>7, <2>8 DEF RunOf
  <2>10. Differ(Session(listed[k]), Session(listed[l]))
    BY <2>3, <2>9, OtherOptions DEF Session
  <2> HIDE DEF Differ
  <2> QED
    BY <2>7, <2>8, <2>10
<1> QED
  BY <1>1, <1>2

\* No two sessions of an accepted matrix run the same command or write to the
\* same log, whatever its options are (_validate_matrix, build_command).
THEOREM SessionsAreDifferent == BundlesSpec => []SessionsDiffer
<1> DEFINE PlanIsKnown == system = "matrix" => plan \in Plans
<1>1. BundlesInit => PlanIsKnown
  BY DEF BundlesInit
<1>2. PlanIsKnown /\ [BundlesNext]_bundlesVars => PlanIsKnown'
  BY DEF BundlesNext, Profile, Bundle, bundlesVars
<1>3. PlanIsKnown => SessionsDiffer
  BY AcceptedSessionsDiffer DEF SessionsDiffer
<1> QED
  BY <1>1, <1>2, <1>3, PTL DEF BundlesSpec
=============================================================================
