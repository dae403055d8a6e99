----------------------------- MODULE Submission -----------------------------
(***************************************************************************)
(* From a submitted bug report to the executors that take its run: the     *)
(* handler submit_bug_report and the pool it enqueues with                 *)
(* (api/app/api/bug_reports.py, api/app/core/redis.py), Arq's queue, and   *)
(* the polling worker that takes queued rows instead of jobs               *)
(* (worker/app/real_queue_worker.py).                                      *)
(*                                                                         *)
(* The API is one process and its handler uses the database synchronously, *)
(* so that everything up to the commit is one step; it is at its awaits,   *)
(* opening the pool and enqueueing, that requests interleave.  What a run  *)
(* does is ReproGraph's and RunLifecycle's matter: here its row is queued, *)
(* analyzing or ended, and every write of it may be lost, because          *)
(* update_run_status swallows its errors.                                  *)
(***************************************************************************)
EXTENDS Naturals, FiniteSets, Sequences

CONSTANTS
    Reqs,       \* requests, each for the run it creates
    MaxFaults   \* bound: crashes and outages of Redis together

Executors == {"arq", "poller"}

ASSUME SubmissionAssumption ==
    /\ IsFiniteSet(Reqs)
    /\ MaxFaults \in Nat

VARIABLES
    redis,      \* Redis answers
    pool,       \* _redis_pool is set
    pools,      \* connections pools this process has opened
    req,        \* where each request is
    order,      \* the runs in the order of their created_at
    row,        \* the status of each run's row
    job,        \* each run's job in Arq
    polling,    \* the polling worker runs
    processed,  \* processed_runs of the polling worker
    phase,      \* how far an executor is with a run
    takes,      \* how often an executor has taken a run
    missed,     \* history: requests during which Redis was down
    dropped,    \* history: runs whose execution failed or was cut off
    crashes,    \* crashes of each executor so far
    faults      \* crashes and outages so far, of all

apiVars == <<pool, pools, req, order>>
pollVars == <<polling, processed>>
execVars == <<phase, takes, dropped>>
faultVars == <<missed, crashes, faults>>
vars == <<apiVars, redis, row, job, pollVars, execVars, faultVars>>

Waiting == {"opening", "enqueuing"}

Fault ==
    /\ faults < MaxFaults
    /\ faults' = faults + 1

Init ==
    /\ redis \in BOOLEAN
    /\ pool = redis
    /\ pools = IF redis THEN 1 ELSE 0
    /\ req = [r \in Reqs |-> "unsent"]
    /\ order = << >>
    /\ row = [r \in Reqs |-> "absent"]
    /\ job = [r \in Reqs |-> "none"]
    /\ polling = FALSE
    /\ processed = {}
    /\ phase = [e \in Executors |-> [r \in Reqs |-> "no"]]
    /\ takes = [e \in Executors |-> [r \in Reqs |-> 0]]
    /\ missed = {}
    /\ dropped = {}
    /\ crashes = [e \in Executors |-> 0]
    /\ faults = 0

-----------------------------------------------------------------------------
(* The API                                                                 *)

(* Mutant: init_redis_pool forgets "global", so that its pool is its own.  *)
SetPoolLocally ==
    /\ pools' = pools + 1
    /\ UNCHANGED pool

(* create_pool succeeds: the global is set to the new pool, also when      *)
(* another request has set it during the await.                            *)
SetPool ==
    /\ pool' = TRUE
    /\ pools' = pools + 1

(* Mutant: while one request opens the pool, the others are given none.    *)
NextAwaitOnce ==
    IF pool THEN "enqueuing"
    ELSE IF \E r \in Reqs : req[r] = "opening" THEN "answered"
    ELSE "opening"

(* What get_redis_pool finds: the pool, or that it has to open one.        *)
NextAwait == IF pool THEN "enqueuing" ELSE "opening"

(* submit_bug_report up to its first await: repository, report and run are *)
(* committed together.  When the commit's answer is lost the request fails *)
(* with its rows in place.                                                 *)
Submit(r) ==
    /\ req[r] = "unsent"
    /\ row' = [row EXCEPT ![r] = "queued"]
    /\ order' = Append(order, r)
    /\ \E next \in {NextAwait, "failed"} : req' = [req EXCEPT ![r] = next]
    /\ missed' = IF redis THEN missed ELSE missed \cup {r}
    /\ UNCHANGED <<pool, pools, redis, job, pollVars, execVars, crashes,
                   faults>>

(* init_redis_pool returns: with the pool, or after two seconds without.   *)
OpenPool(r) ==
    /\ req[r] = "opening"
    /\ \/ /\ redis
          /\ SetPool
          /\ req' = [req EXCEPT ![r] = "enqueuing"]
       \/ /\ ~redis
          /\ req' = [req EXCEPT ![r] = "answered"]
          /\ UNCHANGED <<pool, pools>>
    /\ UNCHANGED <<redis, order, row, job, pollVars, execVars, faultVars>>

(* enqueue_job succeeds, or its exception is logged; the reply is the same *)
(* either way.                                                             *)
Enqueue(r) ==
    /\ req[r] = "enqueuing"
    /\ req' = [req EXCEPT ![r] = "answered"]
    /\ job' = IF redis THEN [job EXCEPT ![r] = "queued"] ELSE job
    /\ UNCHANGED <<pool, pools, redis, order, row, pollVars, execVars,
                   faultVars>>

(* The process ends: requests at an await get no reply and enqueue nothing.*)
(* The next process tries to open its pool before the first request        *)
(* (lifespan), and goes on without one when it cannot.                     *)
ApiRestart ==
    /\ Fault
    /\ UNCHANGED crashes
    /\ pool' = redis
    /\ pools' = IF redis THEN 1 ELSE 0
    /\ req' = [r \in Reqs |-> IF req[r] \in Waiting THEN "failed" ELSE req[r]]
    /\ UNCHANGED <<redis, order, row, job, pollVars, execVars, missed>>

RedisDown ==
    /\ redis
    /\ Fault
    /\ UNCHANGED crashes
    /\ redis' = FALSE
    /\ missed' = missed \cup {r \in Reqs : req[r] \in Waiting}
    /\ UNCHANGED <<apiVars, row, job, pollVars, execVars>>

RedisUp ==
    /\ ~redis
    /\ redis' = TRUE
    /\ UNCHANGED <<apiVars, row, job, pollVars, execVars, faultVars>>

-----------------------------------------------------------------------------
(* The executors                                                           *)

Take(e, r) ==
    /\ phase' = [phase EXCEPT ![e][r] = "begun"]
    /\ takes' = [takes EXCEPT ![e][r] = @ + 1]
    /\ UNCHANGED dropped

(* Arq gives a job to its worker.                                          *)
TakeJob(r) ==
    /\ redis
    /\ job[r] = "queued"
    /\ job' = [job EXCEPT ![r] = "running"]
    /\ Take("arq", r)
    /\ UNCHANGED <<apiVars, redis, row, pollVars, faultVars>>

(* Mutant: the newest run of all is fetched, then tested for queued.       *)
NewestQueuedOfAll(r) ==
    \E i \in DOMAIN order :
        order[i] = r /\ row[r] = "queued" /\ i = Len(order)

(* The polling query: the queued run whose report was created last.        *)
NewestQueued(r) ==
    \E i \in DOMAIN order :
        /\ order[i] = r
        /\ row[r] = "queued"
        /\ \A j \in DOMAIN order : j > i => row[order[j]] # "queued"

(* Mutant: a run is processed when its row says so, and only then.         *)
RememberNothing(r) == UNCHANGED processed

(* processed_runs.add                                                      *)
Remember(r) == processed' = processed \cup {r}

(* One turn of run_worker_loop finds a run it has not processed.           *)
Poll(r) ==
    /\ polling
    /\ \A s \in Reqs : phase["poller"][s] = "no"
    /\ NewestQueued(r)
    /\ r \notin processed
    /\ Remember(r)
    /\ Take("poller", r)
    /\ UNCHANGED <<apiVars, redis, row, job, polling, faultVars>>

(* The graph's first write of the status, which may be lost.               *)
Mark(e, r) ==
    /\ phase[e][r] = "begun"
    /\ phase' = [phase EXCEPT ![e][r] = "marked"]
    /\ \E s \in {"analyzing", row[r]} : row' = [row EXCEPT ![r] = s]
    /\ UNCHANGED <<apiVars, redis, job, pollVars, takes, missed, dropped,
                   crashes, faults>>

(* Mutant: the terminal status is written as analyzing was, unnoticed when *)
(* it is lost.                                                             *)
FinishSilently(e, r) ==
    /\ phase[e][r] = "marked"
    /\ phase' = [phase EXCEPT ![e][r] = "no"]
    /\ job' = IF e = "arq" THEN [job EXCEPT ![r] = "done"] ELSE job
    /\ UNCHANGED <<apiVars, redis, row, pollVars, takes, missed, dropped,
                   crashes, faults>>

(* Mutant: an execution that ended the row is not over and may go on.      *)
FinishAgain(e, r) ==
    /\ phase[e][r] = "marked"
    /\ phase' = [phase EXCEPT ![e][r] = "begun"]
    /\ job' = IF e = "arq" THEN [job EXCEPT ![r] = "done"] ELSE job
    /\ \/ /\ row' = [row EXCEPT ![r] = "ended"]
          /\ UNCHANGED dropped
       \/ /\ dropped' = dropped \cup {r}
          /\ UNCHANGED row
    /\ UNCHANGED <<apiVars, redis, pollVars, takes, faultVars>>

(* process_task returns and the row has its terminal status, or raises and *)
(* leaves the row as it is.                                                *)
Finish(e, r) ==
    /\ phase[e][r] = "marked"
    /\ phase' = [phase EXCEPT ![e][r] = "no"]
    /\ job' = IF e = "arq" THEN [job EXCEPT ![r] = "done"] ELSE job
    /\ \/ /\ row' = [row EXCEPT ![r] = "ended"]
          /\ UNCHANGED dropped
       \/ /\ dropped' = dropped \cup {r}
          /\ UNCHANGED row
    /\ UNCHANGED <<apiVars, redis, pollVars, takes, faultVars>>

(* The Arq worker crashes: its jobs are delivered again.                   *)
ArqCrash ==
    /\ Fault
    /\ crashes' = [crashes EXCEPT !["arq"] = @ + 1]
    /\ \E r \in Reqs : job[r] = "running"
    /\ job' = [r \in Reqs |->
                  IF job[r] = "running" THEN "queued" ELSE job[r]]
    /\ phase' = [phase EXCEPT !["arq"] = [r \in Reqs |-> "no"]]
    /\ UNCHANGED <<apiVars, redis, row, pollVars, takes, missed, dropped>>

(* The polling worker crashes: nothing remembers the run it was at.        *)
PollerCrash ==
    /\ polling
    /\ Fault
    /\ crashes' = [crashes EXCEPT !["poller"] = @ + 1]
    /\ polling' = FALSE
    /\ processed' = {}
    /\ dropped' = dropped \cup {r \in Reqs : phase["poller"][r] # "no"}
    /\ phase' = [phase EXCEPT !["poller"] = [r \in Reqs |-> "no"]]
    /\ UNCHANGED <<apiVars, redis, row, job, takes, missed>>

(* It starts: the runs that are no longer queued count as processed.       *)
PollerStart ==
    /\ ~polling
    /\ polling' = TRUE
    /\ processed' = {r \in Reqs : row[r] \notin {"absent", "queued"}}
    /\ UNCHANGED <<apiVars, redis, row, job, execVars, faultVars>>

-----------------------------------------------------------------------------

Next ==
    \/ ApiRestart \/ RedisDown \/ RedisUp
    \/ \E r \in Reqs :
          Submit(r) \/ OpenPool(r) \/ Enqueue(r) \/ TakeJob(r) \/ Poll(r)
    \/ \E e \in Executors, r \in Reqs : Mark(e, r) \/ Finish(e, r)
    \/ ArqCrash \/ PollerCrash \/ PollerStart

(* Both workers run and go on with what they have begun, and are started   *)
(* again after a crash; no client has to submit, and nothing has to fail.  *)
Fairness ==
    /\ WF_vars(RedisUp) /\ WF_vars(PollerStart)
    /\ \A r \in Reqs : WF_vars(TakeJob(r)) /\ WF_vars(Poll(r))
    /\ \A e \in Executors, r \in Reqs :
          WF_vars(Mark(e, r)) /\ WF_vars(Finish(e, r))

Spec == Init /\ [][Next]_vars /\ Fairness

-----------------------------------------------------------------------------
(* Properties                                                              *)

(* The state stays in its type; the global pool is set exactly when this   *)
(* process has opened one; a run has a row before it has a job or is taken.*)
TypeOK ==
    /\ redis \in BOOLEAN /\ pool \in BOOLEAN
    /\ pools \in Nat /\ (pool <=> pools > 0)
    /\ req \in [Reqs -> {"unsent", "opening", "enqueuing", "answered",
                         "failed"}]
    /\ order \in Seq(Reqs)
    /\ row \in [Reqs -> {"absent", "queued", "analyzing", "ended"}]
    /\ job \in [Reqs -> {"none", "queued", "running", "done"}]
    /\ polling \in BOOLEAN
    /\ processed \subseteq Reqs
    /\ phase \in [Executors -> [Reqs -> {"no", "begun", "marked"}]]
    /\ takes \in [Executors -> [Reqs -> Nat]]
    /\ missed \subseteq Reqs /\ dropped \subseteq Reqs
    /\ crashes \in [Executors -> Nat]
    /\ faults \in 0 .. MaxFaults

(* A request that was answered has a job unless Redis was down during it:  *)
(* requests that open the pool at once do not take each other's away.      *)
OnlyOutagesLoseJobs ==
    \A r \in Reqs :
        req[r] = "answered" /\ job[r] = "none" => r \in missed

(* Each executor takes a run at most once per life of its process, and one *)
(* that is not in the database is never taken, so that a run is executed   *)
(* twice only by both of them or after a crash.                            *)
TakesBounded ==
    \A e \in Executors, r \in Reqs :
        /\ takes[e][r] <= 1 + crashes[e]
        /\ row[r] = "absent" => takes[e][r] = 0

(* Two executors share the rows as RunExecutions says: only who has a run  *)
(* moves its status, and a run that has ended is opened again only when it *)
(* was taken twice, however takes, writes, lost writes and crashes of both *)
(* interleave.                                                             *)
Shared == INSTANCE RunExecutions
    WITH Runs       <- Reqs,
         status     <- row,
         holders    <- [r \in Reqs |-> {e \in Executors : phase[e][r] # "no"}],
         executions <- [r \in Reqs |-> takes["arq"][r] + takes["poller"][r]]

ImplementsExecutions == Shared!Spec

(* A run that hides r from the polling query for good: it was created      *)
(* later, has been processed, and is queued all the same.                  *)
Hidden(r) ==
    \E i, j \in DOMAIN order :
        /\ order[i] = r /\ i < j
        /\ row[order[j]] = "queued" /\ order[j] \in processed

(* A queued run is taken, also when its job was lost, unless a later one   *)
(* whose status could not be written stands before it.                     *)
QueuedRunsAreTaken ==
    \A r \in Reqs :
        row[r] = "queued" ~> \/ row[r] # "queued"
                             \/ \E e \in Executors : takes[e][r] > 0
                             \/ Hidden(r)

(* A run that is being analyzed ends, unless an execution of it failed or  *)
(* a crash of the polling worker cut it off: nobody takes it up again.     *)
AnalyzingRunsEnd ==
    \A r \in Reqs :
        row[r] = "analyzing" ~> row[r] = "ended" \/ r \in dropped

=============================================================================
