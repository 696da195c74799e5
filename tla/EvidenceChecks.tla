--------------------------- MODULE EvidenceChecks ---------------------------
(***************************************************************************)
(* The three judges of the records of a formal run: the evidence bundle    *)
(* (formal_evidence_bundle.py, with the report of                          *)
(* materialize_formal_correctness.py), the materialization of one record   *)
(* per backend (run_formal_benchmarks.py) and the gate over those records  *)
(* (formal_correctness_gate.py).                                           *)
(*                                                                         *)
(* The rows of a result stand for their hash.  about is what a record says *)
(* of the experiment, the dataset and the query.  A record of a request    *)
(* has its own run_uuid, so that the requests of a file are a set.         *)
(***************************************************************************)
EXTENDS FormalMatrix, FiniteSets, Functions

About(matrix) == <<matrix["experiment_id"], matrix["dataset"].path,
                   matrix["dataset"].scale_factor, matrix["query"]>>

Of(records, id) == {r \in records : r.config_id = id}
HashOf(matrix) == matrix["dataset"].expected_hash

-----------------------------------------------------------------------------
(* formal_evidence_bundle._validate_coverage.                              *)

\* Each index from 0 to n - 1 once.
Numbered(index, n) == Cardinality(DOMAIN index) = n /\ Range(index) = 0 .. n - 1

Samples(records) == [r \in records |-> r.sample_index]
Requests(records) == [r \in records |-> r.request_index]

ConfigMatchesSetup(config, setup) ==
  /\ setup.engine = config.engine /\ setup.threads = config.threads
  /\ setup.ratio_mode = config.ratio_mode
  /\ config.ratio_mode = "fixed" => setup.cpu_ratio = config.cpu_ratio

\* A request agrees with its setup, succeeded, and conserves the rows.
RequestFits(r, setup, matrix) ==
  /\ r.session_id = setup.session_id /\ r.about = setup.about
  /\ r.engine = setup.engine /\ r.threads = setup.threads
  /\ r.ratio_mode = setup.ratio_mode /\ r.cpu_ratio = setup.cpu_ratio
  /\ r.status = "ok" /\ r.return_code = 0 /\ r.result_hash = HashOf(matrix)
  /\ setup.ratio_mode = "auto" =>
       r.cpu_rows = setup.boundary /\ r.gpu_rows = setup.rows - setup.boundary

CoversConfiguration(config, setup, warmups, measured, matrix) ==
  LET protocol == matrix["protocol"] IN
  /\ ConfigMatchesSetup(config, setup)
  /\ setup.status = "ok" /\ setup.return_code = 0 /\ setup.about = About(matrix)
  /\ Numbered(Samples(warmups), protocol.warmup)
  /\ Numbered(Samples(measured), protocol.repeat)
  /\ Numbered(Requests(warmups \cup measured), protocol.warmup + protocol.repeat)
  /\ \A r \in warmups \cup measured :
       (r.is_warmup <=> r \in warmups) /\ RequestFits(r, setup, matrix)

Coverage(matrix, results) ==
  LET configs == Configurations(matrix)
      ids == {configs[i].config_id : i \in DOMAIN configs}
      setups == results.setups
      SetupOf(id) == setups[CHOOSE i \in DOMAIN setups : setups[i].config_id = id]
  IN
  /\ \A i, j \in DOMAIN setups : i # j =>
       /\ setups[i].config_id # setups[j].config_id
       /\ setups[i].session_id # setups[j].session_id
  /\ {setups[i].config_id : i \in DOMAIN setups} = ids
  /\ \A r \in results.warmups \cup results.measured : r.config_id \in ids
  /\ \A i \in DOMAIN configs :
       LET id == configs[i].config_id IN
       CoversConfiguration(configs[i], SetupOf(id), Of(results.warmups, id),
                           Of(results.measured, id), matrix)
  /\ \A i \in DOMAIN configs : LogPaths(configs[i]) \subseteq results.logs

-----------------------------------------------------------------------------
(* materialize_formal_correctness: the report that the bundle demands.     *)

Backends(matrix) ==
  LET configs == Configurations(matrix)
  IN  {configs[i].correctness_backend : i \in DOMAIN configs}

\* The rows of every request of a backend against those of the oracle.
CorrectnessReport(matrix, results, oracle) ==
  LET configs == Configurations(matrix)
      all == results.warmups \cup results.measured
      wrong(b) == {r \in all : r.result_hash # oracle.rows_hash /\
                     \E i \in DOMAIN configs : configs[i].config_id = r.config_id
                                              /\ configs[i].correctness_backend = b}
  IN [expected_hash |-> HashOf(matrix),
      observed_hashes |-> {r.result_hash : r \in all},
      backends |-> [b \in Backends(matrix) |-> IF wrong(b) = {} THEN "passed" ELSE "failed"]]

MaterializesReport(matrix, results, oracle) ==
  Coverage(matrix, results) /\ OracleIsExact(oracle, HashOf(matrix))

\* formal_evidence_bundle._validate_correctness.
CorrectnessFits(report, matrix) ==
  /\ report.expected_hash = HashOf(matrix)
  /\ report.observed_hashes = {HashOf(matrix)}
  /\ DOMAIN report.backends = Backends(matrix)
  /\ \A b \in Backends(matrix) : report.backends[b] = "passed"

-----------------------------------------------------------------------------
(* The other checks of formal_evidence_bundle.  formal is the protocol of  *)
(* the evidence, 3 warmups and 10 measured requests.                       *)

SourcesFit(matrix, manifest, oracle, formal) ==
  /\ matrix["protocol"].warmup = formal.warmup /\ matrix["protocol"].repeat = formal.repeat
  /\ "oracle" \in DOMAIN matrix
  /\ manifest = matrix["dataset"].manifest_sha256
  /\ oracle = matrix["oracle"].sha256
  /\ manifest.scale_factor = matrix["dataset"].scale_factor
  /\ OracleIsExact(oracle, HashOf(matrix))
  /\ oracle.matched

\* What was captured about the machine agrees with what the runner says.
EnvironmentFits(environment, matrix) ==
  /\ environment.git_commit = environment.runner_commit
  /\ environment.cli = environment.runner_cli
  /\ environment.matrix_file = matrix /\ environment.matrix_payload = matrix
  /\ environment.cudf_env = environment.setting.cudf_env
  /\ environment.gpu_index = environment.setting.gpu_index
  /\ environment.gpu_index \in environment.devices

CommandsFit(commands, matrix, setting) ==
  LET configs == Configurations(matrix)
  IN  commands = [i \in DOMAIN configs |-> CanonicalCommand(configs[i], matrix, setting)]

\* A summary is the records it is computed from.
Summary(results) == [setups |-> results.setups, measured |-> results.measured]

-----------------------------------------------------------------------------
(* materialize-correctness of run_formal_benchmarks.  gate is the matrix   *)
(* of the gate: its identity, the backends it requires, and whether it     *)
(* enables hybrid-auto.                                                    *)

\* One record for a backend: the file <backend>.json.
SessionIsStable(setup, warmups, measured, protocol) ==
  LET all == warmups \cup measured IN
  /\ setup.status = "ok" /\ setup.return_code = 0
  /\ Numbered(Samples(warmups), protocol.warmup)
  /\ Numbered(Samples(measured), protocol.repeat)
  /\ Numbered(Requests(all), protocol.warmup + protocol.repeat)
  /\ \A r \in all : r.is_warmup <=> r \in warmups
  /\ \A r, q \in all : r.status = "ok" /\ r.return_code = 0 /\ r.engine = setup.engine
                       /\ r.result_hash = q.result_hash

InSession(records, setup) == {r \in records : r.session_id = setup.session_id}

AuditsInputs(results, protocol) ==
  LET setups == results.setups IN
  /\ \A i, j \in DOMAIN setups : i # j => setups[i].session_id # setups[j].session_id
  /\ \A r \in results.warmups \cup results.measured :
       \E i \in DOMAIN setups : setups[i].session_id = r.session_id
  /\ \A i \in DOMAIN setups :
       SessionIsStable(setups[i], InSession(results.warmups, setups[i]),
                       InSession(results.measured, setups[i]), protocol)

\* The engine of a session names its backend: two configurations of one
\* engine cannot be told apart and are refused.
BindsSource(source, results, gate) ==
  LET configs == Configurations(source)
      setups == results.setups
      IsOf(setup, i) == configs[i].config_id = setup.config_id
  IN
  /\ Tail(About(source)) = gate.identity /\ source["dataset"].manifest_sha256 = gate.manifest
  /\ {setups[i].config_id : i \in DOMAIN setups} = {configs[i].config_id : i \in DOMAIN configs}
  /\ \A r \in results.warmups \cup results.measured : \E i \in DOMAIN setups :
       setups[i].session_id = r.session_id /\ setups[i].config_id = r.config_id
  /\ \A i \in DOMAIN setups : \A j \in DOMAIN configs : IsOf(setups[i], j) =>
       setups[i].about = About(source) /\ ConfigMatchesSetup(configs[j], setups[i])
  /\ \A i, j \in DOMAIN setups : i # j => setups[i].engine # setups[j].engine
  /\ \A r \in results.warmups \cup results.measured : r.result_hash = HashOf(source)

RequiredBackends(gate) ==
  gate.required_backends \cup IF gate.hybrid_auto THEN {"hybrid-auto"} ELSE {}

Materializes(source, results, gate) ==
  /\ AuditsInputs(results, source["protocol"])
  /\ BindsSource(source, results, gate)
  /\ Backends(source) \subseteq RequiredBackends(gate)

\* The records it writes, of the first measured request of each session.
RunRecords(source, results, gate) ==
  LET configs == Configurations(source) IN
  UNION {{[backend |-> configs[i].correctness_backend, identity |-> gate.identity,
           status |-> "ok", return_code |-> 0, result_hash |-> r.result_hash] :
            r \in {q \in Of(results.measured, configs[i].config_id) : q.sample_index = 0}} :
         i \in DOMAIN configs}

-----------------------------------------------------------------------------
(* formal_correctness_gate.                                                *)

GpuBackends == {"gpu-copy", "gpu-managed", "gpu-mapped", "hybrid-fixed", "hybrid-auto", "cudf"}

\* records are the files of the directory, a file the record of its backend.
CheckBackend(records, backend, gate, oracle) ==
  LET mine == {r \in records : r.backend = backend}
      Sound(r) == r.identity = gate.identity
      Skipped(r) == r.status = "skipped_gpu" /\ r.return_code = 77 /\ backend \in GpuBackends
      Good(r) == r.status = "ok" /\ r.return_code = 0 /\ r.result_hash = oracle.result_hash
  IN  IF \E r \in mine : Sound(r) /\ Skipped(r) THEN "unavailable"
      ELSE IF \E r \in mine : Sound(r) /\ Good(r) THEN "passed"
      ELSE "failed"

GatePasses(records, gate, oracle) ==
  /\ OracleIsExact(oracle, oracle.result_hash)
  /\ \A r \in records : r.backend \in RequiredBackends(gate)
  /\ \A b \in RequiredBackends(gate) : CheckBackend(records, b, gate, oracle) = "passed"
=============================================================================
