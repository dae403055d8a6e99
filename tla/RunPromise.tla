----------------------------- MODULE RunPromise -----------------------------
(***************************************************************************)
(* What readers of reproduction_runs (the run list, the detail page, the   *)
(* event stream) may rely on: how the status of a run's row can move,      *)
(* given how often the queue has delivered the run's job and whether a     *)
(* worker has it.  RunLifecycle implements this with a worker, a database, *)
(* dead letters and crashes.                                               *)
(***************************************************************************)
EXTENDS Integers

CONSTANTS
    Runs,      \* the runs
    MaxTries   \* how often the queue delivers a job at most

VARIABLES
    status,    \* the status column of each run's row
    phase,     \* "waiting" in the queue, "working" at a worker, "over"
    delivered  \* how often each run's job was delivered

vars == <<status, phase, delivered>>

Terminal == {"succeeded", "failed", "error", "infra_error"}

Init ==
    /\ status = [r \in Runs |-> "queued"]
    /\ phase = [r \in Runs |-> "waiting"]
    /\ delivered = [r \in Runs |-> 0]

Deliver(r) ==
    /\ phase[r] = "waiting"
    /\ delivered[r] < MaxTries
    /\ phase' = [phase EXCEPT ![r] = "working"]
    /\ delivered' = [delivered EXCEPT ![r] = @ + 1]
    /\ UNCHANGED status

\* A worker may change a row only while it has the job, and a terminal status
\* only when the job was delivered to it again.
Open(r) == phase[r] = "working" /\ (status[r] \in Terminal => delivered[r] >= 2)

Begin(r) ==
    /\ Open(r)
    /\ status' = [status EXCEPT ![r] = "analyzing"]
    /\ UNCHANGED <<phase, delivered>>

Conclude(r) ==
    /\ Open(r)
    /\ \E st \in Terminal : status' = [status EXCEPT ![r] = st]
    /\ UNCHANGED <<phase, delivered>>

\* A failure to persist, found at once or by a later reconciliation.
Fault(r) ==
    /\ delivered[r] >= 1
    /\ status' = [status EXCEPT ![r] = "error"]
    /\ UNCHANGED <<phase, delivered>>

\* The worker dies: every job it had goes back to the queue.
Interrupt ==
    /\ phase' = [r \in Runs |-> IF phase[r] = "working" THEN "waiting" ELSE phase[r]]
    /\ UNCHANGED <<status, delivered>>

End(r) ==
    /\ phase[r] # "over"
    /\ phase' = [phase EXCEPT ![r] = "over"]
    /\ UNCHANGED <<status, delivered>>

Next ==
    \/ Interrupt
    \/ \E r \in Runs : Deliver(r) \/ Begin(r) \/ Conclude(r) \/ Fault(r) \/ End(r)

Spec == Init /\ [][Next]_vars
=============================================================================
