---------------------------- MODULE RunLifecycle ----------------------------
(***************************************************************************)
(* The life of runs in the worker service: the Arq queue delivers a run's  *)
(* job, the worker takes it through the graph, the graph's nodes write the *)
(* run's row in Neon and a checkpoint of the thread, persist falls back to *)
(* a retried error write and then to a dead letter on disk, and the        *)
(* reconciler brings dead letters back into Neon.  The worker may die and  *)
(* restart and Neon may be unreachable at any step.                        *)
(*                                                                         *)
(* The worker is one asyncio event loop.  Steps of different tasks         *)
(* interleave only where the code awaits; a crash and an outage of Neon    *)
(* may fall between any two steps.                                         *)
(***************************************************************************)
EXTENDS GraphNodes, FiniteSets

CONSTANTS
    Runs,           \* the runs submitted; each has its own job and thread
    MaxTries,       \* deliveries of one job (Arq's max_tries)
    MaxJobs,        \* jobs the worker runs at once (WORKER_CONCURRENCY)
    AllowDegraded,  \* ALLOW_DEGRADED_CHECKPOINTER
    MaxCrashes,     \* bound: crashes of the worker
    MaxOutages      \* bound: outages of Neon

ASSUME LifecycleAssumption ==
    /\ MaxTries \in Nat \ {0}
    /\ MaxJobs \in Nat \ {0}
    /\ AllowDegraded \in BOOLEAN
    /\ MaxCrashes \in Nat
    /\ MaxOutages \in Nat

VARIABLES
    valid,       \* the run's payload passes ingest's validation
    job,         \* Arq: "queued", "running", "complete" or "failed"
    tries,       \* Arq: how often the job was delivered
    pc,          \* where the run's task is in the graph
    state,       \* the state the run's task holds in memory (and its clone)
    checkpoint,  \* the thread's last checkpoint in Neon
    made,        \* history: the attempts the current delivery has made
    row,         \* the run's row in reproduction_runs
    letter,      \* the run's dead letter on disk
    pass,        \* how far the reconciler's current pass is with the letter
    up,          \* the worker process runs
    durable,     \* ... with the Postgres checkpointer
    neon,        \* Neon is reachable
    crashes,     \* crashes so far
    outages      \* outages so far

taskVars  == <<valid, job, tries, pc, state, checkpoint, made>>
storeVars == <<row, letter, pass>>
envVars   == <<up, durable, neon, crashes, outages>>
vars      == <<taskVars, storeVars, envVars>>

Statuses == TerminalStatuses \cup {"queued", "analyzing"}
Row      == [status: Statuses, plausible: BOOLEAN, persist_error: BOOLEAN]
Letter   == [written: BOOLEAN, reproduced: BOOLEAN]
NoLetter == [written |-> FALSE, reproduced |-> FALSE]

\* persist's own steps: the three attempts to record a failed write, then what
\* follows the write (log) or its failure (log_failure).
FailurePcs == {"record_failure_1", "record_failure_2", "record_failure_3"}
Pcs == {"none", "ingest", "repo_analysis", "env_setup", "dependency_install",
        "hypothesis_gen", "script_gen", "sandbox_exec", "verdict", "minimization",
        "persist", "log", "log_failure", "return"} \cup FailurePcs

\* Steps a task goes straight on from, without an await.
HeldPcs == {"record_failure_1", "log", "log_failure"}

Terminal(r) == row[r].status \in TerminalStatuses

Init ==
    /\ valid \in [Runs -> BOOLEAN]
    /\ job = [r \in Runs |-> "queued"]
    /\ tries = [r \in Runs |-> 0]
    /\ pc = [r \in Runs |-> "none"]
    /\ state = [r \in Runs |-> FreshState]
    /\ checkpoint = [r \in Runs |-> FreshState]
    /\ made = [r \in Runs |-> 0]
    /\ row = [r \in Runs |-> [status |-> "queued", plausible |-> FALSE,
                              persist_error |-> FALSE]]
    /\ letter = [r \in Runs |-> NoLetter]
    /\ pass = [r \in Runs |-> "idle"]
    /\ up = TRUE /\ durable = TRUE /\ neon = TRUE
    /\ crashes = 0
    /\ outages = 0

-----------------------------------------------------------------------------
(* The event loop                                                          *)

Reconciling == \E r \in Runs : pass[r] # "idle"

\* Mutant: the reconciler awaits between its steps, so that tasks run meanwhile.
LoopFreeAwaiting(r) == up /\ \A q \in Runs \ {r} : pc[q] \notin HeldPcs

\* The loop may run a step of r's task: nothing else holds it.
LoopFree(r) ==
    /\ up
    /\ ~Reconciling
    /\ \A q \in Runs \ {r} : pc[q] \notin HeldPcs

At(r, place) == LoopFree(r) /\ job[r] = "running" /\ pc[r] = place

\* r's task goes on at next, holding s.  An attempt has a hypothesis first.
Continue(r, next, s) ==
    /\ pc' = [pc EXCEPT ![r] = next]
    /\ made' = IF next = "script_gen" THEN [made EXCEPT ![r] = @ + 1] ELSE made
    /\ state' = [state EXCEPT ![r] = s]
    /\ UNCHANGED <<valid, job, tries>>

\* LangGraph checkpoints the state a node returned; without Neon nothing is
\* saved (and the call that runs the graph may fail, see Abort).
Save(r, s) ==
    checkpoint' = IF durable /\ neon THEN [checkpoint EXCEPT ![r] = s] ELSE checkpoint

Node(r, place, next, s) == At(r, place) /\ Continue(r, next, s) /\ Save(r, s)

\* What is left of a task that is over: the clone on the repos volume.
OnDisk(s) == [FreshState EXCEPT !.tree = s.tree]

SetRow(r, new) == row' = [row EXCEPT ![r] = new]

\* update_run_status gives up silently while Neon is unreachable.
TryStatus(r, st, err) ==
    IF neon THEN SetRow(r, [row[r] EXCEPT !.status = st, !.persist_error = @ \/ err])
            ELSE UNCHANGED row

-----------------------------------------------------------------------------
(* The queue and the job                                                   *)

Running == {r \in Runs : job[r] = "running"}

\* A delivery calls the graph with the payload.  With a checkpointer that does
\* not outlive the process the thread starts empty.
Deliver(r) ==
    /\ LoopFree(r)
    /\ job[r] = "queued"
    /\ tries[r] < MaxTries
    /\ Cardinality(Running) < MaxJobs
    /\ job' = [job EXCEPT ![r] = "running"]
    /\ tries' = [tries EXCEPT ![r] = @ + 1]
    /\ pc' = [pc EXCEPT ![r] = "ingest"]
    /\ state' = [state EXCEPT ![r] =
                   [(IF durable THEN Resume(checkpoint[r]) ELSE FreshState)
                        EXCEPT !.tree = state[r].tree]]
    /\ made' = [made EXCEPT ![r] = 0]
    /\ UNCHANGED <<valid, checkpoint, storeVars, envVars>>

\* r's task is over with the given result.
Leave(r, result) ==
    /\ job' = [job EXCEPT ![r] = result]
    /\ pc' = [pc EXCEPT ![r] = "none"]
    /\ state' = [state EXCEPT ![r] = OnDisk(state[r])]
    /\ made' = [made EXCEPT ![r] = 0]
    /\ UNCHANGED <<valid, tries, checkpoint, storeVars, envVars>>

GiveUp(r) ==
    /\ up
    /\ job[r] = "queued"
    /\ tries[r] = MaxTries
    /\ Leave(r, "failed")

FinishJob(r) == At(r, "return") /\ Leave(r, "complete")

\* The task ends early wherever it awaits: the LLM gave no answer, the call was out
\* of steps (ReproGraph), a checkpoint could not be saved, or the job ran into Arq's
\* time limit.  Arq does not retry.
Abort(r) ==
    /\ LoopFree(r)
    /\ job[r] = "running"
    /\ pc[r] \notin HeldPcs
    /\ Leave(r, "failed")

-----------------------------------------------------------------------------
(* The graph's nodes                                                       *)

Ingest(r) ==
    /\ Node(r, "ingest", "repo_analysis", IngestNode(state[r], valid[r]))
    /\ IF valid[r] THEN TryStatus(r, "analyzing", FALSE) ELSE UNCHANGED row
    /\ UNCHANGED <<letter, pass, envVars>>

DependencyInstall(r) ==
    \E ok \in BOOLEAN :
        LET s == DependencyInstallNode(state[r], ok)
        IN  /\ Node(r, "dependency_install", RouteAfterDependencyInstall(s), s)
            /\ IF InstallFails(state[r], ok) THEN TryStatus(r, "error", TRUE)
                                             ELSE UNCHANGED row
            /\ UNCHANGED <<letter, pass, envVars>>

\* The nodes that write no row.
Work(r) ==
    LET s == state[r]
    IN  /\ \/ \E tree \in CloneResults(s) :
                Node(r, "repo_analysis", "env_setup", RepoAnalysisNode(s, tree))
           \/ Node(r, "env_setup", "dependency_install", s)
           \/ Node(r, "hypothesis_gen", "script_gen", HypothesisGenNode(s))
           \/ Node(r, "script_gen", "sandbox_exec", ScriptGenNode(s))
           \/ \E out \in Outcomes :
                Node(r, "sandbox_exec", "verdict", SandboxExecNode(s, out))
           \/ Node(r, "verdict", RouteAfterVerdict(VerdictNode(s)), VerdictNode(s))
           \/ Node(r, "minimization", "persist", MinimizationNode(s))
        /\ UNCHANGED <<storeVars, envVars>>

-----------------------------------------------------------------------------
(* persist                                                                 *)

Proceed(r, next) == Continue(r, next, state[r]) /\ UNCHANGED checkpoint

\* Mutant: only state.persist_error is written, not state.error.
FinalRowUnexplained(s) == [status        |-> RowStatus(s),
                           plausible     |-> s.reproduced,
                           persist_error |-> s.persist_error]

FinalRow(s) == [status        |-> RowStatus(s),
                plausible     |-> s.reproduced,
                persist_error |-> s.persist_error \/ s.error]

PersistWrite(r) ==
    /\ At(r, "persist")
    /\ \/ neon /\ SetRow(r, FinalRow(state[r])) /\ Proceed(r, "log")
       \/ ~neon /\ UNCHANGED row /\ Proceed(r, "record_failure_1")
    /\ UNCHANGED <<letter, pass, envVars>>

\* Neon commits the row, but goes away before it has answered.
PersistUnanswered(r) ==
    /\ At(r, "persist")
    /\ neon
    /\ outages < MaxOutages
    /\ SetRow(r, FinalRow(state[r]))
    /\ Proceed(r, "record_failure_1")
    /\ neon' = FALSE
    /\ outages' = outages + 1
    /\ UNCHANGED <<letter, pass, up, durable, crashes>>

\* One attempt to mark the run's row; plausible is left as it is.
RecordFailure(r) ==
    /\ pc[r] \in FailurePcs
    /\ At(r, pc[r])
    /\ neon
    /\ SetRow(r, [row[r] EXCEPT !.status = "error", !.persist_error = TRUE])
    /\ Proceed(r, "log_failure")
    /\ UNCHANGED <<letter, pass, envVars>>

\* The attempt fails too: another follows after a sleep.
RetryRecord(r) ==
    /\ ~neon
    /\ \/ At(r, "record_failure_1") /\ Proceed(r, "record_failure_2")
       \/ At(r, "record_failure_2") /\ Proceed(r, "record_failure_3")
    /\ UNCHANGED <<storeVars, envVars>>

\* Mutant: all runs share one dead-letter file.
WriteDeadLetterShared(r) ==
    /\ At(r, "record_failure_3")
    /\ ~neon
    /\ letter' = [q \in Runs |-> IF q = r
                                 THEN [written |-> TRUE, reproduced |-> state[r].reproduced]
                                 ELSE NoLetter]
    /\ Proceed(r, "log_failure")
    /\ UNCHANGED <<row, pass, envVars>>

\* The third failure spills to disk.
WriteDeadLetter(r) ==
    /\ At(r, "record_failure_3")
    /\ ~neon
    /\ letter' = [letter EXCEPT ![r] = [written |-> TRUE, reproduced |-> state[r].reproduced]]
    /\ Proceed(r, "log_failure")
    /\ UNCHANGED <<row, pass, envVars>>

\* The node logs its step and returns.
PersistReturn(r) ==
    /\ \/ Node(r, "log", "return",
               [state[r] EXCEPT !.final_verdict = TerminalVerdict(state[r]),
                                !.persist_error = FALSE])
       \/ Node(r, "log_failure", "return",
               [state[r] EXCEPT !.final_verdict = "error", !.persist_error = TRUE])
    /\ UNCHANGED <<storeVars, envVars>>

-----------------------------------------------------------------------------
(* The reconciler: a pass over the dead letters, without an await          *)

\* What a pass that starts now has to do.
NewPass == [r \in Runs |-> IF letter[r].written THEN "todo" ELSE "idle"]

\* Mutant: dead letters are reconciled at startup only.
StartReconciliationNever == FALSE /\ UNCHANGED vars

StartReconciliation ==
    /\ up
    /\ ~Reconciling
    /\ \A r \in Runs : pc[r] \notin HeldPcs
    /\ \E r \in Runs : letter[r].written
    /\ pass' = NewPass
    /\ UNCHANGED <<taskVars, row, letter, envVars>>

\* Mutant: a run that had reproduced its bug is restored as succeeded.
ReconcileWriteOutcome(r) ==
    /\ up
    /\ pass[r] = "todo"
    /\ \A q \in Runs : pass[q] # "written"
    /\ neon
    /\ SetRow(r, [status        |-> IF letter[r].reproduced THEN "succeeded" ELSE "error",
                  plausible     |-> letter[r].reproduced,
                  persist_error |-> TRUE])
    /\ pass' = [pass EXCEPT ![r] = "written"]
    /\ UNCHANGED <<taskVars, letter, envVars>>

ReconcileWrite(r) ==
    /\ up
    /\ pass[r] = "todo"
    /\ \A q \in Runs : pass[q] # "written"
    /\ neon
    /\ SetRow(r, [status |-> "error", plausible |-> letter[r].reproduced,
                  persist_error |-> TRUE])
    /\ pass' = [pass EXCEPT ![r] = "written"]
    /\ UNCHANGED <<taskVars, letter, envVars>>

\* The write fails: the file stays for the next pass.
ReconcileSkip(r) ==
    /\ up
    /\ pass[r] = "todo"
    /\ \A q \in Runs : pass[q] # "written"
    /\ ~neon
    /\ pass' = [pass EXCEPT ![r] = "idle"]
    /\ UNCHANGED <<taskVars, row, letter, envVars>>

ReconcileUnlink(r) ==
    /\ up
    /\ pass[r] = "written"
    /\ letter' = [letter EXCEPT ![r] = NoLetter]
    /\ pass' = [pass EXCEPT ![r] = "idle"]
    /\ UNCHANGED <<taskVars, row, envVars>>

-----------------------------------------------------------------------------
(* The environment                                                         *)

\* Mutant: the queue keeps the jobs of a dead worker as running.
CrashLosingJobs ==
    /\ up
    /\ crashes < MaxCrashes
    /\ crashes' = crashes + 1
    /\ up' = FALSE
    /\ pc' = [r \in Runs |-> "none"]
    /\ state' = [r \in Runs |-> OnDisk(state[r])]
    /\ made' = [r \in Runs |-> 0]
    /\ pass' = [r \in Runs |-> "idle"]
    /\ UNCHANGED <<valid, job, tries, checkpoint, row, letter, durable, neon, outages>>

\* The worker dies with the state of its tasks and its pass.  The queue hands
\* out their jobs again; a clone the crash cuts short leaves a directory, and
\* that is never cloned again.
Crash ==
    /\ up
    /\ crashes < MaxCrashes
    /\ crashes' = crashes + 1
    /\ up' = FALSE
    /\ job' = [r \in Runs |-> IF job[r] = "running" THEN "queued" ELSE job[r]]
    /\ pc' = [r \in Runs |-> "none"]
    /\ \E torn \in SUBSET {r \in Runs : /\ pc[r] = "repo_analysis"
                                       /\ state[r].tree = "absent"} :
         state' = [r \in Runs |-> IF r \in torn
                                  THEN [FreshState EXCEPT !.tree = "other_revision"]
                                  ELSE OnDisk(state[r])]
    /\ made' = [r \in Runs |-> 0]
    /\ pass' = [r \in Runs |-> "idle"]
    /\ UNCHANGED <<valid, tries, checkpoint, row, letter, durable, neon, outages>>

\* The worker refuses to start without Neon unless it may run degraded; before
\* it takes jobs it reconciles.
Restart ==
    /\ ~up
    /\ neon \/ AllowDegraded
    /\ up' = TRUE
    /\ durable' = neon
    /\ pass' = NewPass
    /\ UNCHANGED <<taskVars, row, letter, neon, crashes, outages>>

NeonDown ==
    /\ neon
    /\ outages < MaxOutages
    /\ neon' = FALSE
    /\ outages' = outages + 1
    /\ UNCHANGED <<taskVars, storeVars, up, durable, crashes>>

NeonUp ==
    /\ ~neon
    /\ neon' = TRUE
    /\ UNCHANGED <<taskVars, storeVars, up, durable, crashes, outages>>

-----------------------------------------------------------------------------
\* The steps of r's task from delivery to the end of the job.
TaskStep(r) ==
    \/ Ingest(r) \/ DependencyInstall(r) \/ Work(r)
    \/ PersistWrite(r) \/ RecordFailure(r) \/ RetryRecord(r) \/ WriteDeadLetter(r)
    \/ PersistReturn(r) \/ FinishJob(r)

Reconcile(r) == ReconcileWrite(r) \/ ReconcileSkip(r) \/ ReconcileUnlink(r)

\* Nothing is left to do: the system idles.
Idle ==
    /\ \A r \in Runs : job[r] \in {"complete", "failed"} /\ ~letter[r].written
    /\ UNCHANGED vars

Next ==
    \/ \E r \in Runs : \/ Deliver(r) \/ GiveUp(r) \/ TaskStep(r) \/ Abort(r)
                       \/ PersistUnanswered(r) \/ Reconcile(r)
    \/ StartReconciliation
    \/ Crash \/ Restart \/ NeonDown \/ NeonUp
    \/ Idle

\* Arq polls the queue, the event loop schedules every task that is ready and
\* every call it waits for has a time limit; the reconciler wakes every minute;
\* compose restarts the worker; Neon comes back.  No fault is fair.
Fairness ==
    /\ \A r \in Runs : /\ SF_vars(Deliver(r)) /\ SF_vars(GiveUp(r))
                       /\ SF_vars(TaskStep(r)) /\ WF_vars(Reconcile(r))
    /\ SF_vars(StartReconciliation)
    /\ WF_vars(Restart)
    /\ WF_vars(NeonUp)

Spec == Init /\ [][Next]_vars /\ Fairness

-----------------------------------------------------------------------------
\* Every variable stays in its type.
TypeOK ==
    /\ valid \in [Runs -> BOOLEAN]
    /\ job \in [Runs -> {"queued", "running", "complete", "failed"}]
    /\ tries \in [Runs -> 0 .. MaxTries]
    /\ pc \in [Runs -> Pcs]
    /\ state \in [Runs -> State]
    /\ checkpoint \in [Runs -> State]
    /\ made \in [Runs -> Nat]
    /\ row \in [Runs -> Row]
    /\ letter \in [Runs -> Letter]
    /\ pass \in [Runs -> {"idle", "todo", "written"}]
    /\ up \in BOOLEAN /\ durable \in BOOLEAN /\ neon \in BOOLEAN
    /\ crashes \in 0 .. MaxCrashes
    /\ outages \in 0 .. MaxOutages

\* persist never loses an outcome silently: a job the queue counts as complete
\* has a terminal row, or a dead letter that still waits to be reconciled,
\* whatever failed and whatever was retried before.
CompletedRunIsAccounted ==
    \A r \in Runs : job[r] = "complete" => Terminal(r) \/ letter[r].written

\* A row that ends in an error says why, whichever of the five writers ended it
\* and whatever an earlier delivery left in the thread.
ErrorsAreExplained ==
    \A r \in Runs : row[r].status \in {"error", "infra_error"} => row[r].persist_error

\* No delivery makes more attempts than the budget, whatever its thread went through
\* before, and one that finds the budget spent by earlier deliveries makes a single
\* attempt, not a new series.  A delivery whose checkpoint was not saved or does not
\* outlive the process starts its count anew: only each delivery is bounded.
AttemptsPerDelivery ==
    LET budget == Smaller(MaxHypotheses, Ceiling)
    IN  \A r \in Runs : /\ made[r] <= budget
                       /\ state[r].idx > budget => made[r] <= 1

\* A dead letter disappears only when its run's row carries the failure and the
\* flag it recorded.
LettersAreDelivered ==
    [][\A r \in Runs : (letter[r].written /\ ~letter'[r].written) =>
          /\ row[r].status = "error"
          /\ row[r].plausible = letter[r].reproduced
          /\ row[r].persist_error]_vars

\* The rows keep the promise made to their readers.
Promise == INSTANCE RunPromise
    WITH status    <- [r \in Runs |-> row[r].status],
         phase     <- [r \in Runs |-> CASE job[r] = "queued"  -> "waiting"
                                        [] job[r] = "running" -> "working"
                                        [] OTHER              -> "over"],
         delivered <- tries

KeepsPromise == Promise!Spec

\* Every submitted job comes to an end, however crashes and outages fall.
JobsSettle == \A r \in Runs : <>[](job[r] \in {"complete", "failed"})

\* Once a job is complete its row becomes terminal and stays so.
OutcomesReachTheRow ==
    \A r \in Runs : job[r] = "complete" ~> [](Terminal(r) /\ ~letter[r].written)

-----------------------------------------------------------------------------
(* What the code's documents say and the code does not keep                *)

\* reconciliation.py: what is reconciled is an orphaned run, one that persist has
\* not been able to give an outcome.
ReconcilesOnlyOrphans ==
    [][\A r \in Runs : (pass[r] = "todo" /\ pass'[r] = "written")
                         => row[r].status # "succeeded"]_vars
=============================================================================
