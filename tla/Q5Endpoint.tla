----------------------------- MODULE Q5Endpoint -----------------------------
(***************************************************************************)
(* What every Q5 session promises its callers, whichever device runs it: a *)
(* request that was started returns once, with an error or with the one    *)
(* answer of the data set the session was made for.                        *)
(***************************************************************************)
CONSTANTS
  Caller,
  None,     \* the outcome before the first return
  Answer,   \* the only outcome other than an error that may be returned
  Error     \* the outcomes that report a failure

VARIABLES
  phase,    \* [Caller -> {"idle", "busy"}]
  outcome   \* what each caller's last request returned

evars == <<phase, outcome>>

Init ==
  /\ phase = [c \in Caller |-> "idle"]
  /\ outcome = [c \in Caller |-> None]

Call(c) ==
  /\ phase[c] = "idle"
  /\ phase' = [phase EXCEPT ![c] = "busy"]
  /\ outcome' = [outcome EXCEPT ![c] = None]

Return(c) ==
  /\ phase[c] = "busy"
  /\ phase' = [phase EXCEPT ![c] = "idle"]
  /\ \E o \in {Answer} \cup Error : outcome' = [outcome EXCEPT ![c] = o]

Next == \E c \in Caller : Call(c) \/ Return(c)

\* Whoever calls is answered.
Answered == \A c \in Caller : phase[c] = "busy" ~> phase[c] = "idle"

Spec == Init /\ [][Next]_evars /\ Answered
=============================================================================
