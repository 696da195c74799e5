-------------------------- MODULE HybridEvaluation --------------------------
(***************************************************************************)
(* The offline evaluation of the automatic ratio (evaluate_hybrid_model.py *)
(* over the summary of summarize_formal_records.py): every hybrid session  *)
(* of a run becomes an observation, read from summary.csv, from raw.csv or *)
(* from the log of the session, and the observations of one scale factor   *)
(* are compared with the curve of the fixed ratios.                        *)
(*                                                                         *)
(* Ratios are counted in parts of One, and a median in half milliseconds,  *)
(* so that both are integers.  A reader that raises returns no observation. *)
(***************************************************************************)
EXTENDS Integers, Sequences, FiniteSets, SequencesExt

CONSTANTS One, None

\* Twice the median of the latencies of a set of requests.
Median(requests) ==
  LET sorted == SetToSortSeq(requests, LAMBDA r, q : r.ms < q.ms)
      n == Len(sorted)
  IN sorted[(n + 1) \div 2].ms + sorted[n \div 2 + 1].ms

HashesOf(requests) == {r.result_hash : r \in requests}
Ratios(requests) == {r.cpu_ratio : r \in requests}
Only(S) == CHOOSE x \in S : TRUE

-----------------------------------------------------------------------------
(* summarize_records.  A run has setups, measured and logs, sets of records *)
(* of its sessions, and the identity of its environment.                    *)

Group(r) == <<r.config_id, r.engine, r.threads, r.ratio_mode, r.cpu_ratio>>
Succeeded(requests) == {r \in requests : r.status = "ok"}
SetupsOf(run, id) == {s \in run.setups : s.config_id = id}

GroupIsSound(run, group) ==
  LET id == Only({r.config_id : r \in group})
      setup == Only(SetupsOf(run, id))
  IN
  /\ Cardinality(SetupsOf(run, id)) = 1
  /\ \A r \in group :
       r.session_id = setup.session_id /\ r.engine = setup.engine
       /\ r.threads = setup.threads /\ r.ratio_mode = setup.ratio_mode
  /\ Cardinality(HashesOf(Succeeded(group))) = 1
  /\ setup.measured

SummaryRow(group) ==
  LET good == Succeeded(group)  r == Only(good) IN
  [config_id |-> r.config_id, engine |-> r.engine, ratio_mode |-> r.ratio_mode,
   cpu_ratio |-> r.cpu_ratio, result_hash |-> r.result_hash,
   success_count |-> Cardinality(good), median |-> Median(good)]

\* A group without a success has no row.
Counted(run) ==
  {g \in {{q \in run.measured : Group(q) = Group(r)} : r \in run.measured} : Succeeded(g) # {}}
Summarizes(run) == \A g \in Counted(run) : GroupIsSound(run, g)
Summarize(run) == {SummaryRow(g) : g \in Counted(run)}

-----------------------------------------------------------------------------
(* The three readers.                                                      *)

\* _observation; an automatic session also says what it predicted.
IsObservable(setup, mode, ratio, p50, hash, identity) ==
  /\ setup.ratio_mode = mode
  /\ ratio \in 0 .. One /\ p50 >= 0
  /\ hash = identity.expected_hash
  /\ ratio = setup.selected
  /\ mode = "auto" => setup.predicted \in 0 .. One /\ setup.realized = setup.selected

\* session tells the observations apart, and no report names it.
Observation(setup, identity, ratio, p50, count) ==
  [identity |-> identity, session |-> setup.config_id, ratio_mode |-> setup.ratio_mode,
   cpu_ratio |-> ratio, p50 |-> p50, sample_count |-> count,
   predicted |-> IF setup.ratio_mode = "auto" THEN setup.predicted ELSE None]

\* _validate_setup, for the two readers of files.
SetupIsUsable(setup) == setup.status = "ok" /\ setup.engine = "hybrid-arrow"

\* A reader returns an observation for each session that it finds, or raises
\* when one is unsound or there is none.
LoadSummaryCsv(run) ==
  LET rows == {row \in Summarize(run) : row.engine = "hybrid-arrow"}
      SetupOf(row) == Only(SetupsOf(run, row.config_id))
      Sound(row) ==
        /\ SetupsOf(run, row.config_id) # {} /\ SetupIsUsable(SetupOf(row))
        /\ IsObservable(SetupOf(row), row.ratio_mode, row.cpu_ratio, row.median,
                        row.result_hash, run.identity)
      Observed(row) == Observation(SetupOf(row), run.identity, row.cpu_ratio,
                                   row.median, row.success_count)
  IN IF Summarizes(run) /\ rows # {} /\ \A row \in rows : Sound(row)
     THEN {Observed(row) : row \in rows} ELSE {}

LoadRawCsv(run) ==
  LET rows == {r \in Succeeded(run.measured) : r.engine = "hybrid-arrow"}
      ids == {r.config_id : r \in rows}
      Of(id) == {r \in rows : r.config_id = id}
      SetupOf(id) == Only(SetupsOf(run, id))
      Sound(id) ==
        /\ SetupsOf(run, id) # {} /\ SetupIsUsable(SetupOf(id))
        /\ Cardinality(HashesOf(Of(id))) = 1 /\ Cardinality(Ratios(Of(id))) = 1
        /\ IsObservable(SetupOf(id), Only(Of(id)).ratio_mode, Only(Ratios(Of(id))),
                        Median(Of(id)), Only(HashesOf(Of(id))), run.identity)
      Observed(id) == Observation(SetupOf(id), run.identity, Only(Ratios(Of(id))),
                                  Median(Of(id)), Cardinality(Of(id)))
  IN IF ids # {} /\ \A id \in ids : Sound(id) THEN {Observed(id) : id \in ids} ELSE {}

\* Mutant: the warmups are measured as well.
WarmupsToo(log) == Succeeded(log.requests)

Measured(log) == {r \in Succeeded(log.requests) : ~r.is_warmup}

\* A log is one session; it knows nothing of the verdict of the runner.
LoadJsonl(log, identity) ==
  LET setup == Only(log.setups)  rows == Measured(log)
  IN IF /\ ~log.torn /\ Cardinality(log.setups) = 1 /\ SetupIsUsable(setup)
        /\ rows # {} /\ Ratios(rows) = {setup.selected}
        /\ Cardinality(HashesOf(rows)) = 1
        /\ IsObservable(setup, setup.ratio_mode, setup.selected, Median(rows),
                        Only(HashesOf(rows)), identity)
     THEN {Observation(setup, identity, setup.selected, Median(rows), Cardinality(rows))}
     ELSE {}

\* _load_input: a directory is read from its summary if it has one.
LoadDirectory(run) == IF run.summarized THEN LoadSummaryCsv(run) ELSE LoadRawCsv(run)

-----------------------------------------------------------------------------
(* evaluate_inputs.                                                        *)

\* The neighbouring points of the curve between which the latency of the
\* automatic session lies, and the points that have it.
BreakEven(curve, p50) ==
  LET delta(i) == curve[i].p50 - p50
      crossed == {i \in 1 .. Len(curve) - 1 : delta(i) * delta(i + 1) < 0}
      met == {i \in DOMAIN curve : delta(i) = 0}
  IN IF Len(curve) < 2 THEN None
     ELSE {<<curve[i].cpu_ratio, curve[i + 1].cpu_ratio>> : i \in crossed}
          \cup {<<curve[i].cpu_ratio, curve[i].cpu_ratio>> : i \in met}

\* The report on the observations of one scale factor.
EvaluateScale(group) ==
  LET auto == {o \in group : o.ratio_mode = "auto"}
      fixed == {o \in group : o.ratio_mode = "fixed"}
      curve == SetToSortSeq(fixed, LAMBDA o, p : o.cpu_ratio < p.cpu_ratio)
      Better(o, p) == \/ o.p50 < p.p50
                      \/ o.p50 = p.p50 /\ o.cpu_ratio <= p.cpu_ratio
      best == CHOOSE o \in fixed : \A p \in fixed : Better(o, p)
  IN IF /\ Cardinality({o.identity : o \in group}) = 1
        /\ Cardinality(auto) = 1 /\ fixed # {}
        /\ Cardinality({o.cpu_ratio : o \in fixed}) = Cardinality(fixed)
     THEN [auto |-> Only(auto), best_fixed |-> best, fixed_curve |-> curve,
           regret |-> Only(auto).p50 - best.p50,
           break_even |-> BreakEven(curve, Only(auto).p50)]
     ELSE None

\* inputs is what the readers returned, for inputs of different sessions.
Evaluate(inputs) ==
  LET observations == UNION {inputs[i] : i \in DOMAIN inputs}
      scales == {o.identity.scale_factor : o \in observations}
      report == [s \in scales |->
                   EvaluateScale({o \in observations : o.identity.scale_factor = s})]
  IN IF inputs # <<>> /\ (\A i \in DOMAIN inputs : inputs[i] # {})
        /\ \A s \in scales : report[s] # None
     THEN report ELSE None

-----------------------------------------------------------------------------
Logs(run) == [i \in DOMAIN run.logs |-> LoadJsonl(run.logs[i], run.identity)]

\* The summary and the raw records of a run give the same report, or neither
\* gives one; so do the logs of its hybrid sessions if no session failed, and
\* if the runner could read all of them, a report from the logs and one from the
\* directory are never two reports.
ReadingsAgree(run) ==
  LET directory == Evaluate(<<LoadSummaryCsv(run)>>)
      logs == Evaluate(Logs(run))
  IN
  /\ directory = Evaluate(<<LoadRawCsv(run)>>)
  /\ (\A s \in run.setups : s.status = "ok") => logs = directory
  /\ run.accepted /\ logs # None /\ directory # None => logs = directory
=============================================================================
