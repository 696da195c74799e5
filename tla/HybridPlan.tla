----------------------------- MODULE HybridPlan -----------------------------
(***************************************************************************)
(* The planning of one hybrid session: a fixed ratio may cut a batch, an   *)
(* automatic one is predicted from a calibration and only falls between    *)
(* batches.                                                                *)
(***************************************************************************)
EXTENDS HybridPartition

CONSTANTS
  BatchLengths,  \* the sequences of batch lengths considered
  Ratios,        \* the ratios a caller may ask for
  Calibrations   \* the measured [cpu, kernel, fixed] times considered

VARIABLES
  lengths,      \* batch lengths of the lineitem table
  selection,    \* HybridSelection
  calibration,  \* what an automatic session has measured
  ratio,        \* options.cpu_ratio, or the predicted ratio
  partition,
  status        \* "choose", "partition", then "ok" or "invalid"

vars == <<lengths, selection, calibration, ratio, partition, status>>

NoPartition == [cpu |-> <<>>, gpu |-> <<>>, cpuRows |-> 0, gpuRows |-> 0]

Init ==
  /\ lengths \in BatchLengths
  /\ selection \in {"fixed", "auto"}
  /\ calibration \in (IF selection = "auto" THEN Calibrations
                      ELSE {[cpu |-> 0, kernel |-> 0, fixed |-> 0]})
  /\ ratio \in (IF selection = "fixed" THEN Ratios ELSE {<<1, 1>>})
  /\ partition = NoPartition
  /\ status = IF selection = "fixed" THEN "partition" ELSE "choose"

\* calibrate_auto_partition, from the measurements on.
PredictRatio ==
  /\ status = "choose"
  /\ IF Total(lengths) > 0 /\ ValidCalibration(calibration)
     THEN ratio' = Predict(calibration) /\ status' = "partition"
     ELSE status' = "invalid" /\ UNCHANGED ratio
  /\ UNCHANGED <<lengths, selection, calibration, partition>>

Partition ==
  /\ status = "partition"
  /\ LET p == IF selection = "fixed" THEN PartitionByRatio(lengths, ratio)
              ELSE PartitionAtBoundary(lengths, ratio)
         boundary == IF selection = "fixed" THEN CpuTarget(lengths, ratio)
                     ELSE NearestBoundary(lengths, ratio)
         covered == p.cpuRows = boundary /\ p.cpuRows + p.gpuRows = Total(lengths)
     IN /\ status' = IF covered THEN "ok" ELSE "uncovered"
        /\ partition' = IF covered THEN p ELSE NoPartition
  /\ UNCHANGED <<lengths, selection, calibration, ratio>>

Next == PredictRatio \/ Partition

Spec == Init /\ [][Next]_vars

-----------------------------------------------------------------------------
\* The rows a list of slices stands for, in the order of the table.
RowsOf(slices) ==
  FoldLeft(LAMBDA rows, s :
             rows \o [k \in 1 .. s[3] |-> Total(SubSeq(lengths, 1, s[1] - 1)) + s[2] + k],
           <<>>, slices)

\* The slices tile the table: the CPU's are its first cpu_rows rows and the
\* GPU's are the rest, in order and without a gap or an overlap.  Only so may
\* HybridQ5Session::Make replace them by Slice(0, cpu_rows) and Slice(cpu_rows, gpu_rows).
SlicesTileTheTable ==
  status = "ok" =>
    /\ RowsOf(partition.cpu) = [k \in 1 .. partition.cpuRows |-> k]
    /\ RowsOf(partition.cpu) \o RowsOf(partition.gpu) = [k \in 1 .. Total(lengths) |-> k]

\* No split of the work, endpoints included, has a smaller predicted makespan
\* than the predicted one, although only three ratios are ever compared.
PredictionIsOptimal ==
  selection = "auto" /\ status = "partition" =>
    \A q \in 1 .. 8 : \A p \in 0 .. q :
      ~Less(Makespan(calibration, <<p, q>>), Makespan(calibration, ratio))
=============================================================================
