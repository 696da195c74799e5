--------------------------- MODULE ProfilerBundle ---------------------------
(***************************************************************************)
(* What formal_profiler_bundle.py accepts of a directory of profiles: the  *)
(* checks that finalize and audit run over the index, the captures of the  *)
(* two collectors, the profiled executable and the installed tool.  A file *)
(* is its content, and a checksum is the content it stands for.            *)
(*                                                                         *)
(* A directory is a record: index (profiles.json), orchestration           *)
(* (orchestration.json), stager (the run that staged the inputs), and for  *)
(* each profile what its nsys and its ncu directory hold.  Ratios are      *)
(* counted in parts of One; an executable is the number of its build.      *)
(***************************************************************************)
EXTENDS Integers

CONSTANTS Profiles,    \* the ids of the canonical matrix
          Engine,      \* the engine of a profile
          One,         \* the ratio 1.0
          FixedRatio,  \* HYBRID_FIXED_CPU_RATIO
          None

Device == {"copy", "managed", "mapped"}

\* The ratios _logical_profile lets a profile have.
AllowedRatio(p, x) ==
  /\ x \in 0 .. One
  /\ Engine[p] \in Device => x = 0
  /\ Engine[p] = "hybrid-fixed" => x = FixedRatio
  /\ Engine[p] = "hybrid-auto" => 0 < x /\ x < One

\* The index is final, lists every profile once, at an allowed ratio, and its
\* own list of what to expect says the same.
CanonicalCoverage(index) ==
  /\ index # None
  /\ index.status = "complete"
  /\ \A p \in Profiles : AllowedRatio(p, index.identity[p].ratio)

\* Mutant: what the collectors hashed is trusted.
ExecutableStood(identity, elf) == TRUE

\* The executable of an identity is the build that is there now.
ExecutableStands(identity, elf) == identity.elf = elf

\* A collector was told this identity and found the executable it names.
CollectorMatches(capture, identity) ==
  /\ capture # None
  /\ capture.claim = identity
  /\ capture.elf = identity.elf

\* The application reported one good request, at the ratio of the identity.
AppStdoutMatches(app, identity) == app.ok /\ app.ratio = identity.ratio

\* The report exports again to what it was exported to, by the same nsys.
ExportsReplay(capture, tool) == capture.tool = tool

\* "ok" is an application and a stats command that returned zero, a report of
\* the right form, every required range and some q5_kernel activity.
NsysAccepted(capture, identity, tool) ==
  /\ CollectorMatches(capture, identity)
  /\ capture.result = "ok"
  /\ AppStdoutMatches(capture.app, identity)
  /\ ExportsReplay(capture, tool)

\* The GPU that ncu asked about is the one of the identity.
GpuMatches(capture) == capture.gpu = "same"

\* Metric discovery succeeded and selects the canonical metrics.
MetricsSelected(capture) == capture.result \notin {"query", "selection"}

NcuCommon(capture, identity) ==
  /\ CollectorMatches(capture, identity)
  /\ GpuMatches(capture)
  /\ MetricsSelected(capture)

\* A replay that succeeded, and a report of one kernel with every metric.
NcuOk(capture, identity) ==
  NcuCommon(capture, identity) /\ capture.result = "ok"

\* Messages of ncu that blame the counters, and nothing of the application.
Recognized(result) == result = "permission"

\* A replay that failed, with a message that blames the counters.
NcuUnavailable(capture, identity) ==
  NcuCommon(capture, identity) /\ Recognized(capture.result)

ProfileAccepted(f, p, elf, tool) ==
  LET identity == f.index.identity[p] IN
  /\ ExecutableStands(identity, elf)
  /\ NsysAccepted(f.nsys[p], identity, tool)
  /\ \/ f.index.ncu[p] = "ok" /\ NcuOk(f.ncu[p], identity)
     \/ f.index.ncu[p] = "unavailable" /\ NcuUnavailable(f.ncu[p], identity)

Accepted(f, elf, tool) ==
  /\ f.stager # None
  /\ CanonicalCoverage(f.index)
  /\ \A p \in Profiles : ProfileAccepted(f, p, elf, tool)

\* The profiles of the manifest: what was read to accept them.
Compiled(f) == [index |-> f.index, nsys |-> f.nsys, ncu |-> f.ncu]

\* finalize hashes every file but its own two.
Manifest(compiled, f) == [profiles |-> compiled, artifacts |-> f]

\* audit reads the directory anew and compares.
AuditAccepts(f, manifest, digest, elf, tool) ==
  /\ manifest = Manifest(Compiled(f), f)
  /\ digest = manifest
  /\ Accepted(f, elf, tool)
=============================================================================
