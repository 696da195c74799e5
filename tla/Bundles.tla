------------------------------- MODULE Bundles -------------------------------
(***************************************************************************)
(* The two bundles of the project, side by side: the profiler bundle and   *)
(* the evidence bundle.  They share no file; one run takes one of them, or *)
(* a matrix alone, whose sessions are what the evidence will be about.     *)
(***************************************************************************)
EXTENDS ProfilerRun

CONSTANTS Results, Matrices, Manifests, Oracles, Reports, Formal, Torn, MaxEdits, MaxCrashes,
          Plans, Setting  \* matrix files, and what the sessions of a run share

VARIABLES system, results, source, copy, csv, md, evidence, seal, step, next,
          context, edited, edits, crashes, plan

evidenceVars == <<results, source, copy, csv, md, evidence, seal, step, next,
                  context, edited, edits, crashes>>

Evidence == INSTANCE EvidenceBundle
  WITH manifest <- evidence, digest <- seal, pc <- step, at <- next

\* Nothing that a source can hold, or the report made for it, is a torn file.
ASSUME TornAssumption ==
  /\ \A content \in Matrices \cup Manifests \cup Oracles \cup Reports : content \notin {None, Torn}
  /\ \A matrix \in Matrices, r \in Results, oracle \in Oracles :
       Evidence!MatrixIsValid(matrix) /\ Evidence!MaterializesReport(matrix, r, oracle)
         => Evidence!CorrectnessReport(matrix, r, oracle) \notin {None, Torn}

\* A JSON array is a sequence, and a JSON object has each of its keys once.
ASSUME PlansAreJson ==
  \A matrix \in Plans :
    /\ "configurations" \in DOMAIN matrix =>
         LET listed == matrix["configurations"] IN
         listed \in Seq({listed[i] : i \in DOMAIN listed})
    /\ "engines" \in DOMAIN matrix => \A i, j \in DOMAIN matrix["engines"] :
         matrix["engines"][i].engine = matrix["engines"][j].engine => i = j

Absent == results = None /\ source = None /\ copy = None /\ csv = None /\ md = None
          /\ evidence = None /\ seal = None /\ step = None /\ next = None
          /\ context = None /\ edited = None /\ edits = None /\ crashes = None

BundlesInit ==
  /\ Init
  /\ \/ system = "profiler" /\ Absent /\ plan = None
     \/ system = "evidence" /\ Evidence!Init /\ plan = None
     \/ system = "matrix" /\ Absent /\ plan \in Plans

bundlesVars == <<vars, evidenceVars, system, plan>>
Profile == system = "profiler" /\ Next /\ UNCHANGED <<system, plan, evidenceVars>>
Bundle == system = "evidence" /\ Evidence!Next /\ UNCHANGED <<system, plan, vars>>

BundlesNext == Profile \/ Bundle
BundlesSpec == BundlesInit /\ [][BundlesNext]_bundlesVars

\* A finalize of the evidence that reports success stands before the audit.
FinalizedStands == Evidence!FinalizedStands

\* No two sessions of an accepted matrix run the same command or write to the
\* same log (_validate_matrix).
SessionsDiffer == system = "matrix" => Evidence!SessionsDiffer(plan, Setting)

\* An attempt cut short leaves nothing that makes the next one fail.
LeftoversDoNotMatter == Evidence!LeftoversDoNotMatter
=============================================================================
