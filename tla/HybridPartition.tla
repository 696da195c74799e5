-------------------------- MODULE HybridPartition --------------------------
(***************************************************************************)
(* The arithmetic by which a hybrid session decides which lineitem rows    *)
(* the CPU scans and which the GPU scans: hybrid_cost_model.cpp predicts a *)
(* ratio from one calibration, batch_partition.cpp turns a ratio into      *)
(* slices of the Arrow batches.                                            *)
(*                                                                         *)
(* A ratio is a pair <<p, q>> of integers with 0 <= p <= q and q > 0; the  *)
(* rounding of doubles is not modelled.                                    *)
(***************************************************************************)
EXTENDS Integers, Sequences, SequencesExt

Distance(a, b) == IF a < b THEN b - a ELSE a - b

Total(lengths) == FoldLeft(LAMBDA sum, n : sum + n, 0, lengths)

\* <<a, b>> < <<c, d>> as fractions.
Less(x, y) == x[1] * y[2] < y[1] * x[2]

-----------------------------------------------------------------------------
(***************************************************************************)
(* hybrid_cost_model.cpp                                                   *)
(***************************************************************************)
ValidCalibration(cal) == cal.cpu > 0 /\ cal.kernel > 0 /\ cal.fixed >= 0

\* evaluate_ratio: a session without GPU rows pays no fixed GPU cost.
Makespan(cal, ratio) ==
  LET p == ratio[1]  q == ratio[2] IN
  <<Max({p * cal.cpu,
           IF p = q THEN 0 ELSE q * cal.fixed + (q - p) * cal.kernel}), q>>

\* Mutant: the candidate ignores the fixed cost.
BalancedWithoutFixed(cal) == <<cal.kernel, cal.cpu + cal.kernel>>

\* Where the two devices would finish together, clamped to 1.
Balanced(cal) ==
  <<Min({cal.fixed + cal.kernel, cal.cpu + cal.kernel}), cal.cpu + cal.kernel>>

\* Only a strictly smaller makespan replaces the CPU-only start.
Better(cal, best, r) == IF Less(Makespan(cal, r), Makespan(cal, best)) THEN r ELSE best
Predict(cal) == Better(cal, Better(cal, <<1, 1>>, <<0, 1>>), Balanced(cal))

-----------------------------------------------------------------------------
(***************************************************************************)
(* batch_partition.cpp.  A slice is <<batch, offset, length>>.             *)
(***************************************************************************)
SliceRows(slices) == Total([i \in DOMAIN slices |-> slices[i][3]])

AppendSlice(slices, batch, offset, length) ==
  IF length > 0 THEN Append(slices, <<batch, offset, length>>) ELSE slices

\* std::llround of total * p / q.
CpuTarget(lengths, ratio) ==
  (2 * Total(lengths) * ratio[1] + ratio[2]) \div (2 * ratio[2])

Indices(lengths) == [i \in 1 .. Len(lengths) |-> i]

\* Mutant: the GPU slice starts at the head of the batch.
CutAtHead(lengths, p, i) ==
  LET cpu == Min({p.remaining, lengths[i]}) IN
  [p EXCEPT !.remaining = @ - cpu,
            !.cpu = AppendSlice(@, i, 0, cpu),
            !.gpu = AppendSlice(@, i, 0, lengths[i] - cpu)]

\* What one batch adds to the two sides.
Cut(lengths, p, i) ==
  LET cpu == Min({p.remaining, lengths[i]}) IN
  [p EXCEPT !.remaining = @ - cpu,
            !.cpu = AppendSlice(@, i, 0, cpu),
            !.gpu = AppendSlice(@, i, cpu, lengths[i] - cpu)]

\* partition_batch_lengths
PartitionByRatio(lengths, ratio) ==
  LET cut == FoldLeft(LAMBDA p, i : Cut(lengths, p, i),
                      [cpu |-> <<>>, gpu |-> <<>>, remaining |-> CpuTarget(lengths, ratio)],
                      Indices(lengths))
  IN [cpu |-> cut.cpu, gpu |-> cut.gpu, cpuRows |-> SliceRows(cut.cpu),
      gpuRows |-> SliceRows(cut.gpu)]

\* The cumulative row count closest to the target; a tie keeps the earlier.
NearestBoundary(lengths, ratio) ==
  LET target == Total(lengths) * ratio[1]
      step(b, n) ==
        LET rows == b.rows + n IN
        IF Distance(rows * ratio[2], target) < Distance(b.best * ratio[2], target)
        THEN [rows |-> rows, best |-> rows] ELSE [b EXCEPT !.rows = rows]
  IN FoldLeft(step, [rows |-> 0, best |-> 0], lengths).best

\* A batch goes to the CPU as a whole until the boundary is reached.
Assign(lengths, boundary, p, i) ==
  IF p.cpuRows < boundary
  THEN [p EXCEPT !.cpu = AppendSlice(@, i, 0, lengths[i]), !.cpuRows = @ + lengths[i]]
  ELSE [p EXCEPT !.gpu = AppendSlice(@, i, 0, lengths[i]), !.gpuRows = @ + lengths[i]]

\* partition_batch_lengths_at_boundary
PartitionAtBoundary(lengths, ratio) ==
  LET boundary == NearestBoundary(lengths, ratio)
  IN FoldLeft(LAMBDA p, i : Assign(lengths, boundary, p, i),
              [cpu |-> <<>>, gpu |-> <<>>, cpuRows |-> 0, gpuRows |-> 0],
              Indices(lengths))
=============================================================================
