-------------------------- MODULE CrashSupervision --------------------------
(***************************************************************************)
(* One worker process under its crash supervisor: start_worker_supervisor, *)
(* Arq's startup and shutdown hooks, the watchdog that pings Redis, the    *)
(* loop's exception handler, InFlightTracker and record_worker_incident    *)
(* (worker/app/main.py, worker/app/db.py).  Arq's own loop and Docker's    *)
(* restart policy are the environment.                                     *)
(*                                                                         *)
(* What a run does is left to RunLifecycle: here it is a task that starts  *)
(* and ends.  A traceback, a message and the times of an incident are left *)
(* out; an exception is the reason for which the process ends.             *)
(*                                                                         *)
(* record_worker_incident is synchronous, so it is one step: no coroutine  *)
(* of the process runs meanwhile.                                          *)
(***************************************************************************)
EXTENDS Naturals, FiniteSets, Sequences

CONSTANTS
    Runs,           \* the runs whose jobs this worker may take
    MaxJobs,        \* WORKER_CONCURRENCY, Arq's max_jobs
    AllowDegraded,  \* ALLOW_DEGRADED_CHECKPOINTER
    MaxFaults       \* bound: outages, orphan failures and kills together

ASSUME SupervisionAssumption ==
    /\ MaxJobs \in Nat
    /\ AllowDegraded \in BOOLEAN
    /\ MaxFaults \in Nat

VARIABLES
    proc,     \* where the process is
    exc,      \* why it ends; "none" while it does not, or ends as asked
    tasks,    \* runs whose task has begun and not ended in this process
    tracked,  \* in_flight_tracker.active_runs
    keys,     \* _recorded_incident_keys
    noted,    \* the incidents of this process that were written, in order
    missed,   \* history: what failed when this process first recorded its end
    up,       \* the services that answer
    faults    \* outages, orphan failures and kills so far

vars == <<proc, exc, tasks, tracked, keys, noted, missed, up, faults>>

(* The disk is the worker's own: it may be full.                           *)
Services == {"redis", "neon", "sandbox", "disk"}

(* The exceptions that reach a handler; a kill reaches none.               *)
Exceptions == {"redis", "startup", "orphan"}

Key == [exc : Exceptions, runs : SUBSET Runs]

(* Where an incident can be found afterwards.                              *)
Incident == [exc : Exceptions, runs : SUBSET Runs,
             where : SUBSET {"neon", "disk"}]

Init ==
    /\ proc = "starting"
    /\ exc = "none"
    /\ tasks = {}
    /\ tracked = {}
    /\ keys = {}
    /\ noted = << >>
    /\ missed = {}
    /\ up = Services
    /\ faults = 0

-----------------------------------------------------------------------------
(* record_worker_incident                                                  *)

(* The row, when Neon answers; the file, when Neon does not, or when its   *)
(* answer to the insert is lost; neither, when the disk fails too.         *)
Places(lost) ==
    {place \in {"neon", "disk"} \cap up :
        place = "disk" => "neon" \notin up \/ lost}

(* What is written, and what failed on the way.                            *)
Write(e) ==
    \E lost \in BOOLEAN :
        /\ lost => "neon" \in up
        /\ noted' = IF Places(lost) = {} THEN noted
                    ELSE Append(noted, [exc |-> e, runs |-> tracked,
                                        where |-> Places(lost)])
        /\ missed' = ({"neon", "disk"} \ up) \cup (IF lost THEN {"answer"} ELSE {})

(* Mutant: the incident is written without looking at the keys.            *)
RecordIncidentAgain(e) ==
    /\ keys' = keys \cup {[exc |-> e, runs |-> tracked]}
    /\ Write(e)

(* Record an incident for exception e.  The key is remembered before       *)
(* anything is written, and a key that is known writes nothing, even when  *)
(* nothing was written the first time.                                     *)
RecordIncident(e) ==
    LET key == [exc |-> e, runs |-> tracked]
    IN  \/ /\ key \in keys
           /\ UNCHANGED <<keys, noted, missed>>
        \/ /\ key \notin keys
           /\ keys' = keys \cup {key}
           /\ Write(e)

-----------------------------------------------------------------------------
(* Jobs                                                                    *)

(* Mutant: max_jobs is not passed to Arq.                                  *)
StartJobUnlimited(r) ==
    /\ proc = "serving"
    /\ "redis" \in up
    /\ r \notin tasks
    /\ tasks' = tasks \cup {r}
    /\ tracked' = tracked \cup {r}
    /\ UNCHANGED <<proc, exc, keys, noted, missed, up, faults>>

(* Arq takes a job from Redis and run_reproduction_task begins.            *)
StartJob(r) ==
    /\ proc = "serving"
    /\ "redis" \in up
    /\ r \notin tasks
    /\ Cardinality(tasks) < MaxJobs
    /\ tasks' = tasks \cup {r}
    /\ tracked' = tracked \cup {r}
    /\ UNCHANGED <<proc, exc, keys, noted, missed, up, faults>>

(* Mutant: end_run only after process_task has returned.                   *)
UntrackOnReturn(r, raised) ==
    tracked' = IF raised THEN tracked ELSE tracked \ {r}

(* The run is no longer in flight, whether process_task returned, raised   *)
(* or was cancelled: end_run is in the finally clause.                     *)
Untrack(r, raised) == tracked' = tracked \ {r}

(* A task ends.  Arq then stores its result, which fails while Redis is    *)
(* down: in the main loop or, when the worker is closing, in the gather of *)
(* close, which gives up waiting for the other tasks.                      *)
EndJob(r) ==
    /\ proc \in {"serving", "closing"}
    /\ r \in tasks
    /\ tasks' = tasks \ {r}
    /\ \E raised \in BOOLEAN : Untrack(r, raised)
    /\ \/ /\ "redis" \in up
          /\ UNCHANGED <<proc, exc>>
       \/ /\ "redis" \notin up
          /\ proc' = IF proc = "serving" THEN "closing" ELSE "raised"
          /\ exc' = "redis"
    /\ UNCHANGED <<keys, noted, missed, up, faults>>

-----------------------------------------------------------------------------
(* Starting and ending                                                     *)

(* Arq connects, and startup finds the sandbox and a checkpointer.         *)
StartDependencies ==
    /\ proc = "starting"
    /\ {"redis", "sandbox"} \subseteq up
    /\ "neon" \in up \/ AllowDegraded
    /\ proc' = "serving"
    /\ UNCHANGED <<exc, tasks, tracked, keys, noted, missed, up, faults>>

(* Redis does not answer within its six attempts, the sandbox does not     *)
(* answer the probe, or Neon gives no checkpointer.                        *)
StartupFails ==
    /\ proc = "starting"
    /\ \/ /\ "redis" \notin up
          /\ exc' = "redis"
       \/ /\ "redis" \in up
          /\ "sandbox" \notin up \/ ("neon" \notin up /\ ~AllowDegraded)
          /\ exc' = "startup"
    /\ proc' = "raised"
    /\ UNCHANGED <<tasks, tracked, keys, noted, missed, up, faults>>

(* Arq's loop reads the queue and Redis does not answer: close gathers the *)
(* tasks before the exception goes on.                                     *)
MainRaises ==
    /\ proc = "serving"
    /\ "redis" \notin up
    /\ proc' = "closing"
    /\ exc' = "redis"
    /\ UNCHANGED <<tasks, tracked, keys, noted, missed, up, faults>>

(* SIGTERM: Arq cancels the tasks, which end one after the other.          *)
Stop ==
    /\ proc = "serving"
    /\ proc' = "closing"
    /\ UNCHANGED <<exc, tasks, tracked, keys, noted, missed, up, faults>>

(* All tasks have ended: close removes its health key, which fails while   *)
(* Redis is down, and calls shutdown, which cancels the watchdog.          *)
CloseEnds ==
    /\ proc = "closing"
    /\ tasks = {}
    /\ \/ /\ "redis" \in up /\ exc = "none"
          /\ proc' = "stopped"
          /\ UNCHANGED exc
       \/ /\ "redis" \in up /\ exc # "none"
          /\ proc' = "raised"
          /\ UNCHANGED exc
       \/ /\ "redis" \notin up
          /\ proc' = "raised"
          /\ exc' = "redis"
    /\ UNCHANGED <<tasks, tracked, keys, noted, missed, up, faults>>

(* The watchdog's ping fails: record, then os._exit(1), which runs no      *)
(* finally clause.  It still runs while Arq is closing.                    *)
RedisWatchdog ==
    /\ proc \in {"serving", "closing"}
    /\ "redis" \notin up
    /\ RecordIncident("redis")
    /\ exc' = "redis"
    /\ proc' = "dead"
    /\ UNCHANGED <<tasks, tracked, up, faults>>

(* A background task nobody awaits fails: the loop's handler records it    *)
(* and exits.                                                              *)
LoopExceptionHandler ==
    /\ proc \in {"serving", "closing"}
    /\ faults < MaxFaults
    /\ RecordIncident("orphan")
    /\ exc' = "orphan"
    /\ proc' = "dead"
    /\ faults' = faults + 1
    /\ UNCHANGED <<tasks, tracked, up>>

(* start_worker_supervisor catches the exception, records it and sleeps.   *)
SupervisorRecords ==
    /\ proc = "raised"
    /\ RecordIncident(exc)
    /\ proc' = "backoff"
    /\ UNCHANGED <<exc, tasks, tracked, up, faults>>

(* Mutant: the supervisor goes on sleeping instead of raising.             *)
ExcepthookRecordsNever ==
    /\ proc = "backoff"
    /\ UNCHANGED vars

(* The exception is raised again: sys.excepthook records it too.           *)
ExcepthookRecords ==
    /\ proc = "backoff"
    /\ RecordIncident(exc)
    /\ proc' = "dead"
    /\ UNCHANGED <<exc, tasks, tracked, up, faults>>

(* The kernel or Docker kills the process: no handler runs.                *)
HardKill ==
    /\ proc \notin {"dead", "stopped"}
    /\ faults < MaxFaults
    /\ proc' = "dead"
    /\ exc' = "killed"
    /\ faults' = faults + 1
    /\ UNCHANGED <<tasks, tracked, keys, noted, missed, up>>

(* Docker restarts a process that died; a stopped one is started again by  *)
(* its operator.  Everything in memory is new.                             *)
Restart ==
    /\ proc \in {"dead", "stopped"}
    /\ proc' = "starting"
    /\ exc' = "none"
    /\ tasks' = {}
    /\ tracked' = {}
    /\ keys' = {}
    /\ noted' = << >>
    /\ missed' = {}
    /\ UNCHANGED <<up, faults>>

ServiceDown(s) ==
    /\ s \in up
    /\ faults < MaxFaults
    /\ up' = up \ {s}
    /\ faults' = faults + 1
    /\ UNCHANGED <<proc, exc, tasks, tracked, keys, noted, missed>>

ServiceUp(s) ==
    /\ s \notin up
    /\ up' = up \cup {s}
    /\ UNCHANGED <<proc, exc, tasks, tracked, keys, noted, missed, faults>>

-----------------------------------------------------------------------------

Next ==
    \/ \E r \in Runs : StartJob(r) \/ EndJob(r)
    \/ StartDependencies \/ StartupFails
    \/ MainRaises \/ Stop \/ CloseEnds
    \/ RedisWatchdog \/ LoopExceptionHandler
    \/ SupervisorRecords \/ ExcepthookRecords
    \/ HardKill \/ Restart
    \/ \E s \in Services : ServiceDown(s) \/ ServiceUp(s)

(* Every step of the code is taken, every task ends (Arq limits its time), *)
(* Docker restarts what died, and an outage ends.  Nothing makes a service *)
(* fail, a kill come, or the operator stop the worker.                     *)
Fairness ==
    /\ WF_vars(StartDependencies) /\ WF_vars(StartupFails)
    /\ WF_vars(MainRaises) /\ WF_vars(CloseEnds)
    /\ WF_vars(RedisWatchdog)
    /\ WF_vars(SupervisorRecords) /\ WF_vars(ExcepthookRecords)
    /\ WF_vars(proc = "dead" /\ Restart)
    /\ \A r \in Runs : WF_vars(EndJob(r))
    /\ \A s \in Services : WF_vars(ServiceUp(s))

Spec == Init /\ [][Next]_vars /\ Fairness

-----------------------------------------------------------------------------
(* Properties                                                              *)

(* The state stays in its type, and Arq's limit on jobs is kept.           *)
TypeOK ==
    /\ proc \in {"starting", "serving", "closing", "raised", "backoff",
                 "dead", "stopped"}
    /\ exc \in Exceptions \cup {"none", "killed"}
    /\ tasks \subseteq Runs
    /\ IsFiniteSet(tasks) /\ Cardinality(tasks) <= MaxJobs
    /\ tracked \subseteq Runs
    /\ keys \subseteq Key
    /\ noted \in Seq(Incident)
    /\ missed \subseteq {"neon", "disk", "answer"}
    /\ up \subseteq Services
    /\ faults \in 0 .. MaxFaults

(* A process that a handler brought down has left one incident, although   *)
(* watchdog, loop handler, supervisor and excepthook may each record one:  *)
(* as a row, as a file only if Neon failed, and as both only if Neon's     *)
(* answer was lost.  It has left none only if Neon and the disk both failed*)
(* when the end was first recorded: then no later handler tries again.  A  *)
(* process that stopped as asked has left none (record_worker_incident: "to*)
(* prevent duplicate entries").                                            *)
OneIncidentPerCrash ==
    /\ Len(noted) <= 1
    /\ proc = "dead" /\ exc \in Exceptions =>
          (noted = << >> <=> {"neon", "disk"} \subseteq missed)
    /\ \A i \in DOMAIN noted :
          /\ "neon" \in noted[i].where <=> "neon" \notin missed
          /\ noted[i].where = {"neon", "disk"} => "answer" \in missed
    /\ proc = "stopped" => noted = << >>

(* An incident names exactly the runs whose tasks the end of the process   *)
(* cut off: none that had ended before, none left out.                     *)
IncidentsNameInterrupted ==
    \A i \in DOMAIN noted : noted[i].runs = tasks

(* A worker that died serves again once the services answer, unless its    *)
(* operator stops it: no handler leaves it hanging half closed.            *)
WorkerServesAgain ==
    proc = "dead" ~> proc \in {"serving", "stopped"}

=============================================================================
