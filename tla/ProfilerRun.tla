----------------------------- MODULE ProfilerRun -----------------------------
(***************************************************************************)
(* run_formal_profilers.py: a run plans the profiles, stages the inputs in *)
(* the output directory, has nsys and ncu collect one profile after the    *)
(* other, keeps the index and its own state up to date, and freezes the    *)
(* directory with formal_profiler_bundle.py.  Several runs may be pointed  *)
(* at the same directory, any run may be killed, a collector may fail in   *)
(* any of its ways, and the operator may rebuild the session program or    *)
(* install another nsys at any time.                                       *)
(*                                                                         *)
(* The index, the state and the manifest are written to a temporary name   *)
(* and moved into place, so that a write is one step; a collection is one  *)
(* step as well, and a run that is killed during one leaves nothing of it. *)
(* The fields by and ran of a capture are not in any file: they remember   *)
(* which run took it, and of which build.                                  *)
(***************************************************************************)
EXTENDS ProfilerBundle, Sequences

CONSTANTS Runners,
          Plan,         \* the profiles in their order
          AutoSetup,    \* the ratio the evidence has for each hybrid-auto profile
          Observable,   \* the ratios an application may report
          MaxFaults,    \* bound: collections that go wrong, over all runs
          MaxRebuilds, MaxUpgrades   \* bounds: builds and installations

ASSUME PlanAssumption ==
  /\ Plan \in Seq(Profiles) /\ Plan # <<>>
  /\ \A p \in Profiles : \E i \in DOMAIN Plan : Plan[i] = p
  /\ \A i, j \in DOMAIN Plan : Plan[i] = Plan[j] => i = j
ASSUME BoundsAssumption == MaxFaults \in Nat /\ MaxRebuilds \in Nat /\ MaxUpgrades \in Nat
ASSUME RatiosAssumption ==
  /\ One \in Nat /\ FixedRatio \in 0 .. One /\ Observable \subseteq 0 .. One
  /\ \A p \in Profiles : AutoSetup[p] \in 0 .. One

VARIABLES
  elf, tool,            \* the build at --session-cli, the nsys on the path
  pc, at,               \* per run: its step, and the profile it is at
  planned, ratio,       \* per run: the build it hashed, the ratio of each identity
  statuses,             \* per run: the statuses of ncu it knows
  seen,                 \* per run: the build its collector hashed
  compiled,             \* per run: the profiles finalize has compiled
  index, orchestration, \* profiles.json, orchestration.json
  stager,               \* the run that made captures/, datasets/ and evidence/
  nsys, ncu,            \* captures/<profile>/nsys and ncu
  manifest, digest,     \* manifest.json, manifest.sha256
  faults

runs == <<pc, at, planned, ratio, statuses, seen, compiled>>
files == <<index, orchestration, stager, nsys, ncu, manifest, digest>>
vars == <<elf, tool, runs, files, faults>>

Files == [index |-> index, orchestration |-> orchestration, stager |-> stager,
          nsys |-> nsys, ncu |-> ncu]

PlannedRatio(p) ==
  IF Engine[p] = "hybrid-auto" THEN AutoSetup[p]
  ELSE IF Engine[p] = "hybrid-fixed" THEN FixedRatio ELSE 0

\* How a collection by nsys ends: the application or its stats fail; there is
\* no report; the report lacks a range or a kernel; or all is well.
NsysResults == {"ok", "application", "stats", "no-report", "idle"}

\* How a collection by ncu ends.  A selection that finds no metric writes no
\* metadata at all; a report that does not parse follows a good replay.
NcuResults == {"ok", "permission", "crash", "query", "selection", "unparsed"}

\* What the files may hold: an identity, the captures of nsys and of ncu, and
\* the index.
Identities == [ratio : 0 .. One, elf : Nat]
NsysFiles ==
  [by : Runners, ran : Nat, claim : Identities, elf : Nat, tool : Nat,
   result : NsysResults, app : [ok : BOOLEAN, ratio : 0 .. One]]
NcuFiles ==
  [by : Runners, ran : Nat, claim : Identities, elf : Nat, gpu : {"same", "other"},
   result : NcuResults]
Statuses == {"not-run", "ok", "unavailable", "failed"}
Indexes ==
  [status : {"collecting", "complete", "failed"}, identity : [Profiles -> Identities],
   ncu : [Profiles -> Statuses]]

\* None is neither a run nor the content of a file.
ASSUME NoneAssumption ==
  None \notin Runners /\ None \notin NsysFiles /\ None \notin NcuFiles /\ None \notin Indexes

Identity(r, p) == [ratio |-> ratio[r][p], elf |-> planned[r]]

IndexOf(r, status) ==
  [status |-> status, identity |-> [p \in Profiles |-> Identity(r, p)],
   ncu |-> statuses[r]]

StateOf(r, status) == [status |-> status, completed |-> at[r] - 1]

Init ==
  /\ elf = 0 /\ tool = 0
  /\ pc = [r \in Runners |-> "idle"]
  /\ at = [r \in Runners |-> 1]
  /\ planned = [r \in Runners |-> 0]
  /\ ratio = [r \in Runners |-> [p \in Profiles |-> PlannedRatio(p)]]
  /\ statuses = [r \in Runners |-> [p \in Profiles |-> "not-run"]]
  /\ seen = [r \in Runners |-> 0]
  /\ compiled = [r \in Runners |-> None]
  /\ index = None /\ orchestration = None /\ stager = None
  /\ nsys = [p \in Profiles |-> None]
  /\ ncu = [p \in Profiles |-> None]
  /\ manifest = None /\ digest = None
  /\ faults = 0

Goto(r, label) == pc' = [pc EXCEPT ![r] = label]

\* The arguments and the evidence are good, and the directory is still empty:
\* a run that finds something in it gives up and changes nothing.
Validate(r) ==
  /\ pc[r] = "idle"
  /\ Goto(r, IF index = None THEN "plan" ELSE "refused")
  /\ UNCHANGED <<elf, tool, at, planned, ratio, statuses, seen, compiled, files, faults>>

\* _profile_plan hashes the executable; a dry run prints the plan and ends.
MakePlan(r) ==
  /\ pc[r] = "plan"
  /\ planned' = [planned EXCEPT ![r] = elf]
  /\ \E next \in {"open-index", "printed"} : Goto(r, next)
  /\ UNCHANGED <<elf, tool, at, ratio, statuses, seen, compiled, files, faults>>

WriteIndex(r, label, status, next) ==
  /\ pc[r] = label
  /\ index' = IndexOf(r, status)
  /\ Goto(r, next)
  /\ UNCHANGED <<elf, tool, at, planned, ratio, statuses, seen, compiled,
                 orchestration, stager, nsys, ncu, manifest, digest, faults>>

WriteState(r, label, status, next) ==
  /\ pc[r] = label
  /\ orchestration' = StateOf(r, status)
  /\ Goto(r, next)
  /\ UNCHANGED <<elf, tool, at, planned, ratio, statuses, seen, compiled,
                 index, stager, nsys, ncu, manifest, digest, faults>>

OpenIndex(r) == WriteIndex(r, "open-index", "collecting", "open-state")
OpenState(r) == WriteState(r, "open-state", "collecting", "stage")

\* captures/ is made, never reused.  A table that does not match its checksum
\* or cannot be linked fails the run after that.
Stage(r) ==
  /\ pc[r] = "stage"
  /\ \/ /\ stager # None
        /\ Goto(r, "fail-index")
        /\ UNCHANGED <<stager, faults>>
     \/ /\ stager = None
        /\ stager' = r
        /\ Goto(r, "nsys-start")
        /\ UNCHANGED faults
     \/ /\ stager = None /\ faults < MaxFaults
        /\ stager' = r
        /\ Goto(r, "fail-index")
        /\ faults' = faults + 1
  /\ UNCHANGED <<elf, tool, at, planned, ratio, statuses, seen, compiled,
                 index, orchestration, nsys, ncu, manifest, digest>>

\* A collector hashes the executable before it has it profiled.
Hash(r, label, next) ==
  /\ pc[r] = label
  /\ seen' = [seen EXCEPT ![r] = elf]
  /\ Goto(r, next)
  /\ UNCHANGED <<elf, tool, at, planned, ratio, statuses, compiled, files, faults>>

HashForNsys(r) == Hash(r, "nsys-start", "nsys-run")
HashForNcu(r) == Hash(r, "ncu-start", "ncu-run")

\* A good application runs at the ratio of its command; hybrid-auto picks one.
Apps(p) ==
  [ok : {TRUE}, ratio : IF Engine[p] = "hybrid-auto" THEN Observable ELSE {PlannedRatio(p)}]
BadApps == [ok : BOOLEAN, ratio : Observable]

CollectNsys(r) ==
  LET p == Plan[at[r]] IN
  /\ pc[r] = "nsys-run"
  /\ \E result \in NsysResults, app \in Apps(p) \cup BadApps :
       /\ \/ result = "ok" /\ app \in Apps(p) /\ UNCHANGED faults
          \/ /\ result # "ok" \/ app \notin Apps(p)
             /\ faults < MaxFaults /\ faults' = faults + 1
       /\ nsys' = [nsys EXCEPT ![p] =
            [by |-> r, ran |-> elf, claim |-> Identity(r, p), elf |-> seen[r],
             tool |-> tool, result |-> result, app |-> app]]
  /\ Goto(r, "nsys-check")
  /\ UNCHANGED <<elf, tool, at, planned, ratio, statuses, seen, compiled,
                 index, orchestration, stager, ncu, manifest, digest>>

\* The metadata of a capture with the identity it turned out to have.
Rebound(capture, identity) ==
  [by |-> capture.by, ran |-> capture.ran, claim |-> identity, elf |-> capture.elf,
   tool |-> capture.tool, result |-> capture.result, app |-> capture.app]

\* _nsys_observation, after a collector that returned zero: the application
\* printed one setup and one request, both good, and a ratio.
Collected(capture) == capture.result \notin {"application", "stats"} /\ capture.app.ok

\* Mutant: the metadata keep the identity of the command.
CheckNsysLeaving(r) ==
  LET p == Plan[at[r]]
      app == nsys[p].app
      collected == Collected(nsys[p])
  IN
  /\ pc[r] = "nsys-check"
  /\ \/ /\ collected /\ Engine[p] = "hybrid-auto"
        /\ ratio' = [ratio EXCEPT ![r] = [@ EXCEPT ![p] = app.ratio]]
        /\ Goto(r, "ncu-start") /\ UNCHANGED nsys
     \/ /\ collected /\ Engine[p] # "hybrid-auto" /\ app.ratio = ratio[r][p]
        /\ Goto(r, "ncu-start")
        /\ UNCHANGED <<ratio, nsys>>
     \/ /\ \/ ~collected
           \/ Engine[p] # "hybrid-auto" /\ app.ratio # ratio[r][p]
        /\ Goto(r, "fail-index")
        /\ UNCHANGED <<ratio, nsys>>
  /\ UNCHANGED <<elf, tool, at, planned, statuses, seen, compiled,
                 index, orchestration, stager, ncu, manifest, digest, faults>>

\* The run reads what the application printed: hybrid-auto gets the ratio it
\* chose, any other profile must have run at the ratio of its command.
CheckNsys(r) ==
  LET p == Plan[at[r]]
      app == nsys[p].app
      collected == Collected(nsys[p])
  IN
  /\ pc[r] = "nsys-check"
  /\ \/ /\ collected /\ Engine[p] = "hybrid-auto"
        /\ ratio' = [ratio EXCEPT ![r] = [@ EXCEPT ![p] = app.ratio]]
        /\ nsys' = [nsys EXCEPT ![p] = Rebound(@, [ratio |-> app.ratio, elf |-> planned[r]])]
        /\ Goto(r, "ncu-start")
     \/ /\ collected /\ Engine[p] # "hybrid-auto" /\ app.ratio = ratio[r][p]
        /\ Goto(r, "ncu-start")
        /\ UNCHANGED <<ratio, nsys>>
     \/ /\ \/ ~collected
           \/ Engine[p] # "hybrid-auto" /\ app.ratio # ratio[r][p]
        /\ Goto(r, "fail-index")
        /\ UNCHANGED <<ratio, nsys>>
  /\ UNCHANGED <<elf, tool, at, planned, statuses, seen, compiled,
                 index, orchestration, stager, ncu, manifest, digest, faults>>

CollectNcu(r) ==
  LET p == Plan[at[r]] IN
  /\ pc[r] = "ncu-run"
  /\ \E result \in NcuResults, gpu \in {"same", "other"} :
       /\ \/ result = "ok" /\ gpu = "same" /\ UNCHANGED faults
          \/ /\ result # "ok" \/ gpu # "same"
             /\ faults < MaxFaults /\ faults' = faults + 1
       /\ ncu' = [ncu EXCEPT ![p] =
            IF result = "selection" THEN @
            ELSE [by |-> r, ran |-> elf, claim |-> Identity(r, p), elf |-> seen[r],
                  gpu |-> gpu, result |-> result]]
  /\ Goto(r, "ncu-check")
  /\ UNCHANGED <<elf, tool, at, planned, ratio, statuses, seen, compiled,
                 index, orchestration, stager, nsys, manifest, digest>>

\* The failure of ncu that a bundle may have: metadata of a failed replay, and
\* a message that blames the counters.
Unavailable(capture) == capture # None /\ Recognized(capture.result)

\* Mutant: a profile is counted before its failure is noticed.
CheckNcuCounting(r) ==
  LET p == Plan[at[r]]
      known(s) == statuses' = [statuses EXCEPT ![r] = [@ EXCEPT ![p] = s]]
      done == ncu[p] # None /\ ncu[p].result = "ok"
  IN
  /\ pc[r] = "ncu-check"
  /\ \/ done /\ known("ok") /\ Goto(r, "keep-index")
     \/ Unavailable(ncu[p]) /\ known("unavailable") /\ Goto(r, "keep-index")
     \/ ~done /\ ~Unavailable(ncu[p]) /\ known("failed") /\ Goto(r, "fail-index")
  /\ at' = [at EXCEPT ![r] = @ + 1]
  /\ UNCHANGED <<elf, tool, planned, ratio, seen, compiled, files, faults>>

CheckNcu(r) ==
  LET p == Plan[at[r]]
      known(s) == statuses' = [statuses EXCEPT ![r] = [@ EXCEPT ![p] = s]]
      done == ncu[p] # None /\ ncu[p].result = "ok"
  IN
  /\ pc[r] = "ncu-check"
  /\ \/ done /\ known("ok") /\ Goto(r, "keep-index")
     \/ Unavailable(ncu[p]) /\ known("unavailable") /\ Goto(r, "keep-index")
     \/ ~done /\ ~Unavailable(ncu[p]) /\ known("failed") /\ Goto(r, "fail-index")
  /\ at' = IF done \/ Unavailable(ncu[p]) THEN [at EXCEPT ![r] = @ + 1] ELSE at
  /\ UNCHANGED <<elf, tool, planned, ratio, seen, compiled, files, faults>>

KeepIndex(r) == WriteIndex(r, "keep-index", "collecting", "keep-state")
KeepState(r) ==
  WriteState(r, "keep-state", "collecting",
             IF at[r] > Len(Plan) THEN "close-index" ELSE "nsys-start")

CloseIndex(r) == WriteIndex(r, "close-index", "complete", "compile")

\* finalize: read the index and everything it names, or refuse it.
Compile(r) ==
  /\ pc[r] = "compile"
  /\ IF Accepted(Files, elf, tool)
     THEN compiled' = [compiled EXCEPT ![r] = Compiled(Files)] /\ Goto(r, "manifest")
     ELSE UNCHANGED compiled /\ Goto(r, "fail-index")
  /\ UNCHANGED <<elf, tool, at, planned, ratio, statuses, seen, files, faults>>

WriteManifest(r) ==
  /\ pc[r] = "manifest"
  /\ manifest' = Manifest(compiled[r], Files)
  /\ Goto(r, "digest")
  /\ UNCHANGED <<elf, tool, at, planned, ratio, statuses, seen, compiled,
                 index, orchestration, stager, nsys, ncu, digest, faults>>

WriteDigest(r) ==
  /\ pc[r] = "digest"
  /\ digest' = manifest
  /\ Goto(r, "audit")
  /\ UNCHANGED <<elf, tool, at, planned, ratio, statuses, seen, compiled,
                 index, orchestration, stager, nsys, ncu, manifest, faults>>

\* What the audit command says of the directory at this moment.
AuditOk == AuditAccepts(Files, manifest, digest, elf, tool)

Audit(r) ==
  /\ pc[r] = "audit"
  /\ Goto(r, IF AuditOk THEN "close-state" ELSE "fail-index")
  /\ UNCHANGED <<elf, tool, at, planned, ratio, statuses, seen, compiled, files, faults>>

\* The last write of a run, after the directory was frozen and audited.
CloseState(r) == WriteState(r, "close-state", "complete", "ok")

\* The handler of every exception.
FailIndex(r) == WriteIndex(r, "fail-index", "failed", "fail-state")
FailState(r) == WriteState(r, "fail-state", "failed", "failed")

Ended == {"refused", "printed", "ok", "failed", "killed"}

\* A signal, or KeyboardInterrupt, which the handler does not catch.
Kill(r) ==
  /\ pc[r] \notin Ended \cup {"idle"}
  /\ Goto(r, "killed")
  /\ UNCHANGED <<elf, tool, at, planned, ratio, statuses, seen, compiled, files, faults>>

Rebuild ==
  /\ elf < MaxRebuilds
  /\ elf' = elf + 1
  /\ UNCHANGED <<tool, runs, files, faults>>

Upgrade ==
  /\ tool < MaxUpgrades
  /\ tool' = tool + 1
  /\ UNCHANGED <<elf, runs, files, faults>>

Step(r) ==
  \/ Validate(r) \/ MakePlan(r) \/ OpenIndex(r) \/ OpenState(r) \/ Stage(r)
  \/ HashForNsys(r) \/ CollectNsys(r) \/ CheckNsys(r)
  \/ HashForNcu(r) \/ CollectNcu(r) \/ CheckNcu(r)
  \/ KeepIndex(r) \/ KeepState(r) \/ CloseIndex(r)
  \/ Compile(r) \/ WriteManifest(r) \/ WriteDigest(r) \/ Audit(r) \/ CloseState(r)
  \/ FailIndex(r) \/ FailState(r) \/ Kill(r)

Next == (\E r \in Runners : Step(r)) \/ Rebuild \/ Upgrade

Spec == Init /\ [][Next]_vars

-----------------------------------------------------------------------------
\* A directory that the audit accepts is the work of one run and one build:
\* the run that staged the inputs took every capture, the program that ran is
\* the build the index names although a collector hashes it beforehand, and
\* it ran at the ratio the index names although hybrid-auto chose it itself.
FrozenIsGenuine ==
  AuditOk =>
    \A p \in Profiles :
      /\ nsys[p].by = stager /\ ncu[p].by = stager
      /\ nsys[p].ran = index.identity[p].elf /\ ncu[p].ran = index.identity[p].elf
      /\ nsys[p].app.ratio = index.identity[p].ratio
      /\ index.ncu[p] = "ok" <=> ncu[p].result = "ok"

\* Whatever stops a run, its profiles that orchestration.json counts as done
\* have both captures, taken by the run that staged the inputs, and the one of
\* nsys claims the ratio at which the application says it ran.
CompletedIsCollected ==
  orchestration # None =>
    \A i \in 1 .. orchestration.completed :
      LET p == Plan[i] IN
      /\ nsys[p] # None /\ ncu[p] # None
      /\ nsys[p].by = stager /\ ncu[p].by = stager
      /\ nsys[p].app.ok /\ nsys[p].claim.ratio = nsys[p].app.ratio
      /\ ncu[p].result = "ok" \/ Recognized(ncu[p].result)

\* Causes that only finalize can see, after every collector has succeeded.
SeenLate(r) ==
  \/ elf # planned[r] \/ \E p \in Profiles : nsys[p].elf # planned[r] \/ ncu[p].elf # planned[r]
  \/ \E p \in Profiles : nsys[p].tool # tool
  \/ \E p \in Profiles : nsys[p].result # "ok" \/ ncu[p].gpu # "same"
  \/ \E p \in Profiles : Engine[p] = "hybrid-auto" /\ ratio[r][p] \in {0, One}

\* Another run wrote over the index, or over the state after the manifest.
Disturbed(r) ==
  \/ index # IndexOf(r, "complete")
  \/ pc[r] = "audit" /\ manifest.artifacts # Files

\* A run that has collected every profile is refused only for a cause that no
\* check before finalize looks at, or because another run wrote in between:
\* what the orchestrator accepts, the bundle accepts.
CollectedIsFrozen ==
  [][\A r \in Runners :
       pc[r] \in {"compile", "audit"} /\ pc'[r] = "fail-index" => SeenLate(r) \/ Disturbed(r)]_vars

\* "Run and freeze the canonical Formal SF1/SF10 profiler matrix."
\* (scripts/run_formal_profilers.py:2): a run that reports success leaves a
\* directory that the audit accepts.
SuccessAudits == \A r \in Runners : pc[r] = "ok" => AuditOk
=============================================================================
