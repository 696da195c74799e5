--------------------------- MODULE SessionAndScan ---------------------------
(***************************************************************************)
(* A hybrid session, and the scan that it takes for one step of its CPU    *)
(* child, one at a time: the session knows the scan by what it returns,    *)
(* the scan knows nothing of the session.                                  *)
(***************************************************************************)
EXTENDS HybridSession

CONSTANTS ScanTables, ScanThreads

\* Batches of rows, and whatever number of threads is asked for.
ASSUME ScansAreTyped == ScanTables \subseteq Seq(Seq(Row)) /\ ScanThreads \subseteq Int

VARIABLES
  part,                                                    \* "session" or "scan"
  batches, workers, started, thread, pos, partials, caller, scanned  \* of the scan

scanVars == <<batches, workers, started, thread, pos, partials, caller, scanned>>
partsVars == <<vars, part, scanVars>>

Cpu == INSTANCE ArrowCpuScan
  WITH Tables <- ScanTables, Threads <- ScanThreads, table <- batches, phase <- caller,
       outcome <- scanned

\* A session that is not the subject has not been made.
SessionAside ==
  /\ Init
  /\ table = CHOOSE t \in Tables : TRUE
  /\ options = CHOOSE o \in Options : TRUE
NoScan ==
  /\ batches = None /\ workers = None /\ started = None /\ thread = None /\ pos = None
  /\ partials = None /\ caller = None /\ scanned = None

PartsInit ==
  \/ part = "session" /\ Init /\ NoScan
  \/ part = "scan" /\ SessionAside /\ Cpu!Init

OfSession(A) == part = "session" /\ A /\ UNCHANGED <<part, scanVars>>

SessionNext == OfSession(Next)
ScanNext == part = "scan" /\ Cpu!Next /\ UNCHANGED <<part, vars>>

PartsSpec ==
  /\ PartsInit /\ [][SessionNext \/ ScanNext]_partsVars
  /\ \A c \in Caller :
       WF_partsVars(OfSession(CallerStep(c))) /\ SF_partsVars(OfSession(TaskStep(c)))

-----------------------------------------------------------------------------
\* A scan returns the answer, or the error of the first bad range, or a thread
\* could not be started (scan_q5_arrow_lineitem).
ScanIsExact == part = "scan" => Cpu!ScanIsExact

\* What a scan returns is the one step that the session takes for it: its threads
\* cannot be told from ranges scanned one after the other (CpuExecution).
ScanIsExecution ==
  part = "scan" /\ caller = "returned" /\ scanned.status # "unknown" =>
    \E n \in ScanThreads : scanned = Finish(ScanInRanges(Cpu!Rows, n))

\* No worker writes to the partials once the scan has returned (~ThreadGroup).
NoWorkerOutlivesScan == part = "scan" => Cpu!NoWorkerOutlivesScan
=============================================================================
