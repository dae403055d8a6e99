---------------------------- MODULE RunExecutions ----------------------------
(***************************************************************************)
(* What holds of a run's row whoever executes it: Arq's worker, the        *)
(* polling worker, or both at once, each of them more than once.  A status *)
(* moves only at the hands of an executor that has the run, and a run that *)
(* has ended is opened again only because it was taken a second time.      *)
(* Submission implements this.  What becomes of a row when its failure is  *)
(* reconciled later is RunPromise's matter.                                *)
(***************************************************************************)
EXTENDS Integers

CONSTANTS
    Runs,       \* the runs
    Executors   \* who may execute them

VARIABLES
    status,     \* the status of each run's row, or "absent"
    holders,    \* the executors that have a run now
    executions  \* how often each run was taken, by all of them together

vars == <<status, holders, executions>>

Init ==
    /\ status = [r \in Runs |-> "absent"]
    /\ holders = [r \in Runs |-> {}]
    /\ executions = [r \in Runs |-> 0]

Create(r) ==
    /\ status[r] = "absent"
    /\ status' = [status EXCEPT ![r] = "queued"]
    /\ UNCHANGED <<holders, executions>>

Take(e, r) ==
    /\ status[r] # "absent"
    /\ e \notin holders[r]
    /\ holders' = [holders EXCEPT ![r] = @ \cup {e}]
    /\ executions' = [executions EXCEPT ![r] = @ + 1]
    /\ UNCHANGED status

Open(e, r) ==
    /\ e \in holders[r]
    /\ status[r] = "ended" => executions[r] >= 2
    /\ status' = [status EXCEPT ![r] = "analyzing"]
    /\ UNCHANGED <<holders, executions>>

\* An execution may write its outcome before it is over, or last of all.
End(e, r) ==
    /\ e \in holders[r]
    /\ status' = [status EXCEPT ![r] = "ended"]
    /\ \E rest \in {holders[r], holders[r] \ {e}} : holders' = [holders EXCEPT ![r] = rest]
    /\ UNCHANGED executions

Leave(e, r) ==
    /\ e \in holders[r]
    /\ holders' = [holders EXCEPT ![r] = @ \ {e}]
    /\ UNCHANGED <<status, executions>>

\* The executor's process dies.
Interrupt(e) ==
    /\ holders' = [r \in Runs |-> holders[r] \ {e}]
    /\ UNCHANGED <<status, executions>>

Next ==
    \/ \E r \in Runs : Create(r)
    \/ \E e \in Executors, r \in Runs : Take(e, r) \/ Open(e, r) \/ End(e, r) \/ Leave(e, r)
    \/ \E e \in Executors : Interrupt(e)

Spec == Init /\ [][Next]_vars
=============================================================================
