---------------------------- MODULE MCGpuKernel ----------------------------
(***************************************************************************)
(* GpuKernel on six rows of two nations, one of which has a supplier key   *)
(* outside the map.  LLONG_MAX is 399: the two rows of nation 0 sum to it  *)
(* exactly, the three rows of nation 1 fit two by two and not together.    *)
(***************************************************************************)
EXTENDS GpuKernel, Folds

MCRow == 1 .. 6
MCOrderKey == [r \in MCRow |-> IF r <= 2 THEN 0 ELSE 1]
MCSupplierKey == [r \in MCRow |-> IF r = 6 THEN 7 ELSE IF r <= 2 THEN 0 ELSE 1]
MCDiscount == [r \in MCRow |-> IF r = 2 THEN 1 ELSE IF r = 4 THEN 50 ELSE 0]
MCOrderMap == [k \in 0 .. 1 |-> k]
MCSupplierMap == [k \in 0 .. 1 |-> k]

MCPrice == <<3, 1, 2, 3, 1, 1>>

MCTotal ==
  [S \in SUBSET MCRow |->
     MapThenFoldSet(LAMBDA a, b : a + b, 0,
                    LAMBDA r : MCPrice[r] * (100 - MCDiscount[r]),
                    LAMBDA T : CHOOSE r \in T : TRUE, S)]
=============================================================================
