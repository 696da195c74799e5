---------------------------- MODULE FormalMatrix ----------------------------
(***************************************************************************)
(* The matrix of a formal benchmark (run_formal_benchmarks.py): which      *)
(* files it pins, which configurations it lists, and the command and the   *)
(* logs of each session.  A JSON object is a function from its keys, so    *)
(* that a missing key is one that is not in the domain; a file is its      *)
(* content, and the hash of a file is the content it stands for.  Ratios   *)
(* are counted in parts of One.                                            *)
(***************************************************************************)
EXTENDS Integers, Sequences, SequencesExt

CONSTANTS One,     \* the ratio 1.0
          None

CppEngines == {"cpu-specialized", "arrow-acero", "gpu-copy", "gpu-managed",
               "gpu-mapped", "hybrid-arrow"}
AllEngines == CppEngines \cup {"cudf"}
CpuEngines == {"cpu-specialized", "arrow-acero"}

Get(raw, field, default) == IF field \in DOMAIN raw THEN raw[field] ELSE default

StrictFields(raw, required, optional) ==
  required \subseteq DOMAIN raw /\ DOMAIN raw \subseteq required \cup optional

-----------------------------------------------------------------------------
(* The options of one session.                                             *)

RatioMode(options) == Get(options, "ratio_mode", "fixed")
ModeOptions(options) == Get(options, "mode_options", <<>>)
Enabled(options) == Get(options, "enabled", TRUE)

\* Mutant: a ratio is allowed for any engine.
AnyRatio(engine, options) ==
  IF RatioMode(options) = "auto"
  THEN engine = "hybrid-arrow" /\ "cpu_ratio" \notin DOMAIN options
  ELSE "cpu_ratio" \in DOMAIN options /\ options["cpu_ratio"] \in 0 .. One

\* Only a hybrid session has a ratio to choose or to find by itself.
RatioIsValid(engine, options) ==
  IF RatioMode(options) = "auto"
  THEN engine = "hybrid-arrow" /\ "cpu_ratio" \notin DOMAIN options
  ELSE /\ "cpu_ratio" \in DOMAIN options
       /\ options["cpu_ratio"] \in
            CASE engine \in CpuEngines -> {One}
              [] engine = "hybrid-arrow" -> 0 .. One
              [] OTHER -> {0}

CorrectnessBackend(engine, mode) ==
  CASE engine = "hybrid-arrow" /\ mode = "auto" -> "hybrid-auto"
    [] engine = "hybrid-arrow" /\ mode = "fixed" -> "hybrid-fixed"
    [] OTHER -> engine

EngineOptionsAreValid(engine, options, explicit) ==
  /\ engine \in AllEngines
  /\ StrictFields(options,
       {"runner", "threads", "correctness_backend"} \cup
         (IF explicit THEN {"config_id", "engine", "ratio_mode"} ELSE {}),
       {"cpu_ratio", "mode_options"} \cup
         (IF explicit THEN {"enabled", "disabled_reason"} ELSE {}))
  /\ options["runner"] = IF engine = "cudf" THEN "cudf" ELSE "cpp"
  /\ options["threads"] >= 1
  /\ RatioMode(options) \in {"fixed", "auto"}
  /\ RatioIsValid(engine, options)
  /\ engine = "cudf" =>
       options["threads"] = 1 /\ ModeOptions(options) = [framework |-> "cudf"]
  /\ RatioMode(options) = "auto" => Get(ModeOptions(options), "selection", None) = "auto"
  /\ options["correctness_backend"] = CorrectnessBackend(engine, RatioMode(options))
  /\ Enabled(options) <=> "disabled_reason" \notin DOMAIN options

\* What may not occur twice, apart from the id.
LogicalKey(options) ==
  <<options["engine"], options["threads"], RatioMode(options), Get(options, "cpu_ratio", 0)>>

-----------------------------------------------------------------------------
(* The matrix.  "engines" is an object from engines to options, here the   *)
(* sequence of its pairs; "configurations" is an array of options.         *)

MatrixIsValid(matrix) ==
  /\ StrictFields(matrix, {"experiment_id", "dataset", "query", "protocol"},
                  {"engines", "configurations", "oracle"})
  /\ matrix["protocol"].warmup >= 0
  /\ matrix["protocol"].repeat >= 1
  /\ "engines" \in DOMAIN matrix <=> "configurations" \notin DOMAIN matrix
  /\ LET engines == Get(matrix, "engines", <<>>)
         explicit == Get(matrix, "configurations", <<>>)
     IN
     /\ engines # <<>> \/ explicit # <<>>
     /\ \A i \in DOMAIN engines :
          EngineOptionsAreValid(engines[i].engine, engines[i].options, FALSE)
     /\ \A i \in DOMAIN explicit :
          /\ EngineOptionsAreValid(explicit[i]["engine"], explicit[i], TRUE)
          /\ \A j \in DOMAIN explicit : i # j =>
               /\ explicit[i]["config_id"] # explicit[j]["config_id"]
               /\ LogicalKey(explicit[i]) # LogicalKey(explicit[j])

Configuration(engine, id, options) ==
  [config_id |-> id, engine |-> engine, runner |-> options["runner"],
   threads |-> options["threads"], cpu_ratio |-> Get(options, "cpu_ratio", 0),
   correctness_backend |-> options["correctness_backend"],
   mode_options |-> ModeOptions(options), ratio_mode |-> RatioMode(options)]

\* A configuration that is disabled is listed and not run.
AddConfiguration(output, options) ==
  IF Enabled(options)
  THEN Append(output, Configuration(options["engine"], options["config_id"], options))
  ELSE output

\* The sessions that are run, in their order.
Configurations(matrix) ==
  IF "engines" \in DOMAIN matrix
  THEN [i \in DOMAIN matrix["engines"] |->
          LET entry == matrix["engines"][i]
          IN  Configuration(entry.engine, entry.engine, entry.options)]
  ELSE FoldLeft(AddConfiguration, <<>>, matrix["configurations"])

-----------------------------------------------------------------------------
(* What a session is given.  setting is what all sessions of a run share:  *)
(* the session program, the dataset, the conda environment and the GPU.    *)

Common(matrix, setting) ==
  <<setting.dataset, matrix["query"], matrix["protocol"].warmup, matrix["protocol"].repeat>>

BuildCommand(config, matrix, setting) ==
  IF config.runner = "cudf"
  THEN <<"conda", setting.cudf_env>> \o Common(matrix, setting)
  ELSE <<setting.session_cli, config.engine, config.threads>> \o Common(matrix, setting) \o
       (IF config.engine # "hybrid-arrow" THEN <<>>
        ELSE IF config.ratio_mode = "fixed" THEN <<"--cpu-ratio", config.cpu_ratio>>
        ELSE <<"--hybrid-selection", "auto">>)

CanonicalCommand(config, matrix, setting) ==
  <<setting.gpu_index>> \o BuildCommand(config, matrix, setting)

LogPaths(config) == {<<"stdout", config.config_id>>, <<"stderr", config.config_id>>}

\* An oracle lists its rows exactly, and its hash is theirs.
OracleIsExact(oracle, hash) == oracle.result_hash = oracle.rows_hash /\ oracle.rows_hash = hash

-----------------------------------------------------------------------------
\* No two sessions of an accepted matrix run the same command, or write to the
\* same log: every record of a run is of another experiment, although neither
\* the keys that must differ nor the ids are what the command is built from
\* (_validate_matrix, build_command, _log_paths).
SessionsDiffer(matrix, setting) ==
  LET configs == Configurations(matrix) IN
  MatrixIsValid(matrix) =>
    \A i, j \in DOMAIN configs : i # j =>
      /\ CanonicalCommand(configs[i], matrix, setting)
           # CanonicalCommand(configs[j], matrix, setting)
      /\ LogPaths(configs[i]) \cap LogPaths(configs[j]) = {}
=============================================================================
