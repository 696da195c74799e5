--------------------------- MODULE MCFormalRunner ---------------------------
(***************************************************************************)
(* The runner: matrices of one and two configurations, sessions of two and *)
(* three requests, two result hashes of which the matrix expects one.  The *)
(* evaluation: runs of two fixed ratios, perhaps the same, an automatic    *)
(* session and one of another engine.  A hybrid session never starts, ends *)
(* after its warmup, in its last request or at its exit, or its log is     *)
(* torn or otherwise refused; of the measured requests of the others there *)
(* are two, in every order of latencies.                                   *)
(***************************************************************************)
EXTENDS FormalResults

MCTwoRunners == <<"cpp", "cudf">>
MCCppRunner == <<"cpp">>
MCOne == 2

MCEngine(c) == IF Matrix[c] = "cudf" THEN "cudf" ELSE "gpu-copy"
MCMatrixFile ==
  [experiment_id |-> "e",
   dataset |-> [path |-> "d", scale_factor |-> "1", expected_hash |-> ExpectedHash,
                manifest_sha256 |-> [scale_factor |-> "1", lineitem_rows |-> 6]],
   query |-> "q", protocol |-> [warmup |-> Warmup, repeat |-> Repeat],
   configurations |->
     [c \in DOMAIN Matrix |->
        [config_id |-> c, engine |-> MCEngine(c), runner |-> Matrix[c], threads |-> 1,
         ratio_mode |-> "fixed", cpu_ratio |-> 0, correctness_backend |-> MCEngine(c)]]]

-----------------------------------------------------------------------------
Latency == 1 .. 3
Ends ==
  LET end(ms, failed, started, torn, kept, status) ==
        [ms |-> ms, failed |-> failed, started |-> started, torn |-> torn, kept |-> kept,
         status |-> status]
  IN {end(<<>>, FALSE, FALSE, FALSE, FALSE, "error"),
      end(<<3>>, TRUE, TRUE, FALSE, TRUE, "error"),
      end(<<3, 1, 2>>, FALSE, TRUE, FALSE, TRUE, "error"),
      end(<<3, 1, 2>>, FALSE, TRUE, TRUE, FALSE, "error"),
      end(<<3, 2>>, TRUE, TRUE, FALSE, FALSE, "error")}
     \cup {end(<<3, x>>, TRUE, TRUE, FALSE, TRUE, "error") : x \in Latency}
     \cup {end(<<3, x, y>>, FALSE, TRUE, FALSE, TRUE, "ok") : x \in Latency, y \in Latency}
EndOf(id, engine, mode, ratio, e) ==
  [f \in DOMAIN e \cup {"id", "engine", "threads", "mode", "ratio", "realized", "predicted", "hash"} |->
     CASE f \in DOMAIN e -> e[f]
       [] f = "id" -> id [] f = "engine" -> engine [] f = "mode" -> mode
       [] f \in {"ratio", "realized"} -> ratio
       [] f \in {"threads", "predicted"} -> 1 [] f = "hash" -> ExpectedHash]
MCHybridRuns ==
  {<<EndOf("f", "hybrid-arrow", "fixed", 0, o), EndOf("x", "hybrid-arrow", "fixed", second, p),
     EndOf("a", "hybrid-arrow", "auto", 1, q), EndOf("g", "gpu-copy", "fixed", 0, r)>> :
     second \in {0, 2}, o \in Ends, p \in Ends, q \in Ends,
     r \in {e \in Ends : e.ms \in {<<3>>, <<3, 1, 2>>} /\ e.kept}}
=============================================================================
