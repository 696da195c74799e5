----------------------------- MODULE HybridParts -----------------------------
(***************************************************************************)
(* The parts a hybrid session is made of, one at a time: the GPU child (a  *)
(* session in copy mode, in which a call after the launch may also fail    *)
(* and leave the context usable, or one in managed mode), the plan of the  *)
(* session, and the query on a database, which has no steps.               *)
(***************************************************************************)
EXTENDS CudaSession, Sequences

CONSTANTS
  None,
  PlanLengths, PlanRatios, PlanCalibrations,   \* of the plan
  Databases, Region, Start, End, MaxDirectKey  \* of the query

\* Times are measured in whole units, whatever their signs (see HybridPartition).
ASSUME TimesAreNumbers == PlanCalibrations \subseteq [cpu : Int, kernel : Int, fixed : Int]

\* An Arrow batch has no negative length, a ratio no negative part.
ASSUME LengthsAreNatural == PlanLengths \subseteq Seq(Nat)
ASSUME RatiosAreParts == PlanRatios \subseteq Nat \X (Nat \ {0})

\* None, which stands for the -1 of the lookups, is no key that can be indexed.
ASSUME NoneIsNoKey == None \notin 0 .. MaxDirectKey

VARIABLES
  part,                                                       \* "copy", "managed", "plan" or "query"
  lengths, selection, calibration, ratio, partition, status,  \* of the plan
  database                                                    \* of the query

planVars == <<lengths, selection, calibration, ratio, partition, status>>

ManagedSession == INSTANCE CudaSession WITH Mode <- "managed", LateFault <- FALSE

Plan == INSTANCE HybridPlan
  WITH BatchLengths <- PlanLengths, Ratios <- PlanRatios, Calibrations <- PlanCalibrations

Query == INSTANCE Q5Query

NoPlan ==
  /\ lengths = None /\ selection = None /\ calibration = None /\ ratio = None
  /\ partition = None /\ status = None

PartsInit ==
  /\ Init
  /\ \/ part \in {"copy", "managed", "query"} /\ NoPlan
     \/ part = "plan" /\ Plan!Init
  /\ database \in IF part = "query" THEN Databases ELSE {None}

others == <<part, planVars, database>>
Gpu == part \in {"copy", "managed"}

PartRequest(c) ==
  /\ Gpu
  /\ IF part = "managed" THEN ManagedSession!Request(c) ELSE Request(c)
  /\ UNCHANGED others
PartKernelRow == Gpu /\ KernelRow /\ UNCHANGED others
PartMake == Gpu /\ (Make \/ MakeFails) /\ UNCHANGED others
PartLoseContext == Gpu /\ LoseContext /\ UNCHANGED others
PartExecute(c) == Gpu /\ Execute(c) /\ UNCHANGED others

PlanNext == part = "plan" /\ Plan!Next /\ UNCHANGED <<part, vars, database>>

PartsNext ==
  \/ PartKernelRow
  \/ \E c \in Caller : PartExecute(c) \/ PartRequest(c)
  \/ PartMake
  \/ PartLoseContext
  \/ PlanNext

PartsSpec ==
  /\ PartsInit /\ [][PartsNext]_<<vars, others>>
  /\ WF_<<vars, others>>(PartKernelRow)
  /\ \A c \in Caller : SF_<<vars, others>>(PartRequest(c))

-----------------------------------------------------------------------------
\* The two slices of a partition tile the table in its order.
SlicesTileTheTable == part = "plan" => Plan!SlicesTileTheTable

\* No ratio is predicted to be faster than the one predict_hybrid_optimum picks.
PredictionIsOptimal == part = "plan" => Plan!PredictionIsOptimal

\* A line counts for a nation exactly if the query matches it there, and the
\* query matches it once (build_arrow_q5_plan).
PlanIsTheQuery == part = "query" => Query!PlanIsTheQuery(database)
=============================================================================
