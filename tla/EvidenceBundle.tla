--------------------------- MODULE EvidenceBundle ---------------------------
(***************************************************************************)
(* formal_evidence_bundle.py makes the directory of a formal run into an   *)
(* evidence bundle: it checks the matrix, the dataset manifest, the oracle *)
(* and the correctness report where they are, copies them beside the       *)
(* records, checks the copies together with the records, and writes the    *)
(* summaries, the manifest and its digest.  No file is moved into place: a *)
(* crash leaves the file it was writing torn, and the next finalize starts *)
(* from what it finds.  The four sources may be edited or made anew at any *)
(* time, also between the check and the copy.  One finalize runs at a time.*)
(***************************************************************************)
EXTENDS EvidenceChecks

CONSTANTS Results,      \* what a runner may have left in the directory
          Matrices, Manifests, Oracles, Reports,  \* contents of the four sources
          Formal,       \* the protocol of the evidence
          Torn,         \* the content of a file whose writing was cut short
          MaxEdits, MaxCrashes  \* bounds: edits of a source, crashes

VARIABLES
  results,        \* the files of the runner, which finalize only reads
  source, copy,   \* matrix, dataset, oracle, correctness: there and in the bundle
  csv, md,        \* summary.csv, summary.md
  manifest, digest,
  pc, at,         \* where finalize stands, and the source it copies next
  context,        \* what it has read from the copies
  edited,         \* a source changed since it began
  edits, crashes

written == <<copy, csv, md, manifest, digest>>
vars == <<results, source, written, pc, at, context, edited, edits, crashes>>

Kinds == <<"matrix", "dataset", "oracle", "correctness">>
Contents == [matrix |-> Matrices, dataset |-> Manifests, oracle |-> Oracles,
             correctness |-> Reports]
KindSet == {"matrix", "dataset", "oracle", "correctness"}

Init ==
  /\ results \in Results
  /\ source \in [matrix : Matrices, dataset : Manifests, oracle : Oracles,
                 correctness : Reports]
  /\ copy = [k \in KindSet |-> None]
  /\ csv = None /\ md = None /\ manifest = None /\ digest = None
  /\ pc = "idle" /\ at = 1 /\ context = None
  /\ edited = FALSE /\ edits = 0 /\ crashes = 0

-----------------------------------------------------------------------------
\* The sources by themselves, wherever they are.
SourcesAgree(s) ==
  /\ MatrixIsValid(s["matrix"])
  /\ SourcesFit(s["matrix"], s["dataset"], s["oracle"], Formal)
  /\ CorrectnessFits(s["correctness"], s["matrix"])

\* _require_bundle_files, before and after: a run that was interrupted has
\* left some of its files out.
RequiredInputs == {"setups.csv", "warmups.csv", "raw.csv", "environment.json",
                   "commands.txt", "logs"}

\* The files of the runner against a matrix.
RecordsFit(matrix, r) ==
  /\ Coverage(matrix, r)
  /\ EnvironmentFits(r.environment, matrix)
  /\ CommandsFit(r.commands, matrix, r.environment.setting)

Readable(c) == \A k \in KindSet : c[k] \notin {None, Torn}

\* _validate_bundle_data.
BundleFits(c, r) == Readable(c) /\ SourcesAgree(c) /\ RecordsFit(c["matrix"], r)

\* What _validate_bundle_data returns, from which the manifest is built.
Context(c, r) == [sources |-> c, records |-> r, summary |-> Summary(r)]

\* artifact_checksums: every file but the manifest and its digest.
Artifacts == [results |-> results, copy |-> copy, csv |-> csv, md |-> md]

Manifest(ctx, artifacts) == [declared |-> ctx, artifacts |-> artifacts]

\* audit_bundle: every file is there, and says what the records say; the
\* manifest, which is built anew to be compared, lists the checksums of all.
AuditOk ==
  /\ RequiredInputs \subseteq results.files
  /\ BundleFits(copy, results)
  /\ csv = Summary(results) /\ md = Summary(results)
  /\ manifest = Manifest(Context(copy, results), Artifacts)
  /\ digest = manifest

-----------------------------------------------------------------------------
(* finalize_bundle.                                                        *)

Finalizing == {"copy", "validate", "csv", "md", "manifest", "digest"}

\* Sources that do not agree are refused before anything is written.
Begin ==
  /\ pc \notin Finalizing
  /\ pc' = IF RequiredInputs \subseteq results.files /\ SourcesAgree(source)
           THEN "copy" ELSE "refused"
  /\ at' = 1
  /\ edited' = FALSE
  /\ context' = None
  /\ UNCHANGED <<results, source, written, edits, crashes>>

\* Mutant: a file that is already there is not copied again.
CopyIfMissing ==
  /\ pc = "copy"
  /\ copy' = [copy EXCEPT ![Kinds[at]] = IF @ = None THEN source[Kinds[at]] ELSE @]
  /\ at' = at + 1
  /\ pc' = IF at = Len(Kinds) THEN "validate" ELSE "copy"
  /\ UNCHANGED <<results, source, csv, md, manifest, digest, context, edited, edits, crashes>>

Copy ==
  /\ pc = "copy"
  /\ copy' = [copy EXCEPT ![Kinds[at]] = source[Kinds[at]]]
  /\ at' = at + 1
  /\ pc' = IF at = Len(Kinds) THEN "validate" ELSE "copy"
  /\ UNCHANGED <<results, source, csv, md, manifest, digest, context, edited, edits, crashes>>

\* Mutant: the sources were checked, and the copies are not.
ValidateSources ==
  /\ pc = "validate"
  /\ IF SourcesAgree(source) /\ RecordsFit(source["matrix"], results)
     THEN context' = Context(source, results) /\ pc' = "csv"
     ELSE UNCHANGED context /\ pc' = "refused"
  /\ UNCHANGED <<results, source, written, at, edited, edits, crashes>>

Validate ==
  /\ pc = "validate"
  /\ IF BundleFits(copy, results)
     THEN context' = Context(copy, results) /\ pc' = "csv"
     ELSE UNCHANGED context /\ pc' = "refused"
  /\ UNCHANGED <<results, source, written, at, edited, edits, crashes>>

WriteCsv ==
  /\ pc = "csv" /\ pc' = "md"
  /\ csv' = context.summary
  /\ UNCHANGED <<results, source, copy, md, manifest, digest, at, context, edited,
                 edits, crashes>>

WriteMd ==
  /\ pc = "md" /\ pc' = "manifest"
  /\ md' = context.summary
  /\ UNCHANGED <<results, source, copy, csv, manifest, digest, at, context, edited,
                 edits, crashes>>

WriteManifest ==
  /\ pc = "manifest" /\ pc' = "digest"
  /\ manifest' = Manifest(context, Artifacts)
  /\ UNCHANGED <<results, source, copy, csv, md, digest, at, context, edited,
                 edits, crashes>>

WriteDigest ==
  /\ pc = "digest" /\ pc' = "ok"
  /\ digest' = manifest
  /\ UNCHANGED <<results, source, copy, csv, md, manifest, at, context, edited,
                 edits, crashes>>

\* The process ends between two writes, or in the middle of one.
Crash ==
  /\ pc \in Finalizing /\ crashes < MaxCrashes
  /\ pc' = "crashed"
  /\ crashes' = crashes + 1
  /\ \/ UNCHANGED written
     \/ /\ pc = "copy" /\ copy' = [copy EXCEPT ![Kinds[at]] = Torn]
        /\ UNCHANGED <<csv, md, manifest, digest>>
     \/ pc = "csv" /\ csv' = Torn /\ UNCHANGED <<copy, md, manifest, digest>>
     \/ pc = "md" /\ md' = Torn /\ UNCHANGED <<copy, csv, manifest, digest>>
     \/ pc = "manifest" /\ manifest' = Torn /\ UNCHANGED <<copy, csv, md, digest>>
     \/ pc = "digest" /\ digest' = Torn /\ UNCHANGED <<copy, csv, md, manifest>>
  /\ UNCHANGED <<results, source, at, context, edited, edits>>

-----------------------------------------------------------------------------
\* Someone replaces one of the sources.
Edit ==
  /\ edits < MaxEdits
  /\ edits' = edits + 1
  /\ edited' = TRUE
  /\ \E k \in KindSet : \E content \in Contents[k] :
       source' = [source EXCEPT ![k] = content]
  /\ UNCHANGED <<results, written, pc, at, context, crashes>>

\* materialize_formal_correctness.py reports on the records against the oracle.
MaterializeCorrectness ==
  /\ edits < MaxEdits
  /\ MatrixIsValid(source["matrix"])
  /\ MaterializesReport(source["matrix"], results, source["oracle"])
  /\ edits' = edits + 1
  /\ edited' = TRUE
  /\ source' = [source EXCEPT !["correctness"] =
                  CorrectnessReport(source["matrix"], results, source["oracle"])]
  /\ UNCHANGED <<results, written, pc, at, context, crashes>>

Finalize == Begin \/ Copy \/ Validate \/ WriteCsv \/ WriteMd \/ WriteManifest \/ WriteDigest
Next == Finalize \/ Crash \/ Edit \/ MaterializeCorrectness

Spec == Init /\ [][Next]_vars

-----------------------------------------------------------------------------
\* A finalize that reports success leaves a bundle that the audit accepts,
\* although the sources may have changed between their check and their copy,
\* and whatever earlier attempts have left torn (finalize_bundle).
FinalizedStands == pc = "ok" => AuditOk

\* What is left of an attempt that was cut short never stands in the way of
\* the next: finalize refuses the copies only when a source changed under it
\* or the records are of another matrix, not for a torn copy, a summary or a
\* manifest it finds (finalize_bundle).
LeftoversDoNotMatter ==
  [][pc = "validate" /\ pc' = "refused" =>
       edited \/ ~RecordsFit(source["matrix"], results)]_vars
=============================================================================
