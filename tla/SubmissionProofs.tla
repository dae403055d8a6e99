--------------------------- MODULE SubmissionProofs ---------------------------
(***************************************************************************)
(* Proofs about Submission: its type, that only an outage of Redis loses   *)
(* the job of an answered request, and that an executor takes a run at     *)
(* most once per life of its process, for every number of requests and     *)
(* faults.                                                                 *)
(***************************************************************************)
EXTENDS Submission, TLAPS

(* A request that waits while Redis is down has been noted, and one that   *)
(* has not got to its enqueueing has no job.                               *)
WaitingIsMissed == \A r \in Reqs : req[r] \in Waiting /\ ~redis => r \in missed

NoJobYet ==
    \A r \in Reqs : req[r] \in {"unsent"} \cup Waiting => job[r] = "none"

(* Whoever is asked for has a row; whoever works on a job has it running.  *)
RowsExist ==
    \A r \in Reqs :
        /\ req[r] # "unsent" => row[r] # "absent"
        /\ job[r] # "none" => row[r] # "absent"
        /\ row[r] = "absent" => \A e \in Executors : takes[e][r] = 0

Executing ==
    \A r \in Reqs : phase["arq"][r] # "no" => job[r] = "running"

(* A run that may be taken again has been taken once less.                 *)
ArqTakes ==
    \A r \in Reqs :
        /\ takes["arq"][r] <= 1 + crashes["arq"]
        /\ job[r] \in {"none", "queued"} => takes["arq"][r] <= crashes["arq"]

PollerTakes ==
    /\ ~polling => processed = {}
    /\ \A r \in Reqs :
          /\ takes["poller"][r] <= 1 + crashes["poller"]
          /\ r \notin processed => takes["poller"][r] <= crashes["poller"]

IInv ==
    /\ TypeOK
    /\ WaitingIsMissed
    /\ NoJobYet
    /\ OnlyOutagesLoseJobs
    /\ RowsExist
    /\ Executing
    /\ ArqTakes
    /\ PollerTakes

-----------------------------------------------------------------------------

LEMMA InitInvariant == Init => IInv
<1> SUFFICES ASSUME Init PROVE IInv
  OBVIOUS
<1>1. TypeOK
  <2>1. pool \in BOOLEAN /\ pools \in Nat /\ (pool <=> pools > 0)
    <3>1. CASE redis
      BY <3>1 DEF Init
    <3>2. CASE ~redis
      BY <3>2 DEF Init
    <3> QED
      BY <3>1, <3>2
  <2>2. order \in Seq(Reqs)
    BY DEF Init
  <2>3. /\ phase \in [Executors -> [Reqs -> {"no", "begun", "marked"}]]
        /\ takes \in [Executors -> [Reqs -> Nat]]
        /\ crashes \in [Executors -> Nat]
    BY DEF Init
  <2>4. faults \in 0 .. MaxFaults
    BY SubmissionAssumption DEF Init
  <2> QED
    BY <2>1, <2>2, <2>3, <2>4 DEF Init, TypeOK
<1>2. WaitingIsMissed /\ NoJobYet /\ OnlyOutagesLoseJobs /\ Executing
  BY DEF Init, WaitingIsMissed, NoJobYet, OnlyOutagesLoseJobs, Executing,
         Waiting, Executors
<1>3. RowsExist /\ ArqTakes /\ PollerTakes
  BY DEF Init, RowsExist, ArqTakes, PollerTakes, Executors
<1> QED
  BY <1>1, <1>2, <1>3 DEF IInv

(* What an executor that takes a run adds to the takes.                    *)
LEMMA TakeLemma ==
    ASSUME TypeOK, NEW e \in Executors, NEW r \in Reqs, Take(e, r)
    PROVE  /\ phase' \in [Executors -> [Reqs -> {"no", "begun", "marked"}]]
           /\ takes' \in [Executors -> [Reqs -> Nat]]
           /\ \A f \in Executors, s \in Reqs :
                 /\ takes'[f][s] = IF f = e /\ s = r THEN takes[f][s] + 1
                                   ELSE takes[f][s]
                 /\ phase'[f][s] = IF f = e /\ s = r THEN "begun"
                                   ELSE phase[f][s]
           /\ UNCHANGED dropped
BY DEF Take, TypeOK

LEMMA NextInvariant == IInv /\ [Next]_vars => IInv'
<1> SUFFICES ASSUME IInv, [Next]_vars PROVE IInv'
  OBVIOUS
<1> USE SubmissionAssumption DEF apiVars, pollVars, execVars, faultVars
<1>t. TypeOK
  BY DEF IInv
<1>e. "arq" \in Executors /\ "poller" \in Executors
  BY DEF Executors
<1>1. ASSUME NEW r \in Reqs, Submit(r) PROVE IInv'
  <2>1. PICK n \in {NextAwait, "failed"} : req' = [req EXCEPT ![r] = n]
    BY <1>1 DEF Submit
  <2>2. n \in {"opening", "enqueuing", "failed"}
    BY DEF NextAwait
  <2>3. /\ req[r] = "unsent"
        /\ row' = [row EXCEPT ![r] = "queued"]
        /\ order' = Append(order, r)
        /\ missed' = IF redis THEN missed ELSE missed \cup {r}
        /\ UNCHANGED <<pool, pools, redis, job, polling, processed, phase,
                       takes, dropped, crashes, faults>>
    BY <1>1 DEF Submit
  <2>4. TypeOK'
    BY <1>t, <2>1, <2>2, <2>3 DEF TypeOK
  <2>5. WaitingIsMissed' /\ NoJobYet' /\ OnlyOutagesLoseJobs'
    BY <1>t, <2>1, <2>2, <2>3
       DEF IInv, TypeOK, WaitingIsMissed, NoJobYet, OnlyOutagesLoseJobs,
           Waiting
  <2>6. RowsExist'
    BY <1>t, <2>1, <2>2, <2>3 DEF IInv, TypeOK, RowsExist
  <2>7. Executing' /\ ArqTakes' /\ PollerTakes'
    BY <2>3 DEF IInv, Executing, ArqTakes, PollerTakes
  <2> QED
    BY <2>4, <2>5, <2>6, <2>7 DEF IInv
<1>2. ASSUME NEW r \in Reqs, OpenPool(r) PROVE IInv'
  <2>1. TypeOK'
    <3>1. /\ req' \in [Reqs -> {"unsent", "opening", "enqueuing", "answered",
                               "failed"}]
          /\ UNCHANGED <<redis, order, row, job, polling, processed, phase,
                         takes, dropped, missed, crashes, faults>>
      BY <1>2, <1>t DEF OpenPool, TypeOK
    <3>2. pool' \in BOOLEAN /\ pools' \in Nat /\ (pool' <=> pools' > 0)
      <4>1. CASE SetPool
        BY <4>1, <1>t DEF SetPool, TypeOK
      <4>2. CASE UNCHANGED <<pool, pools>>
        BY <4>2, <1>t DEF TypeOK
      <4> QED
        BY <1>2, <4>1, <4>2 DEF OpenPool
    <3> QED
      BY <1>t, <3>1, <3>2 DEF TypeOK
  <2>2. WaitingIsMissed' /\ NoJobYet' /\ OnlyOutagesLoseJobs'
    BY <1>2, <1>t DEF OpenPool, IInv, TypeOK, WaitingIsMissed, NoJobYet,
                      OnlyOutagesLoseJobs, Waiting
  <2>3. RowsExist'
    BY <1>2, <1>t DEF OpenPool, IInv, TypeOK, RowsExist
  <2>4. Executing' /\ ArqTakes' /\ PollerTakes'
    BY <1>2 DEF OpenPool, IInv, Executing, ArqTakes, PollerTakes
  <2> QED
    BY <2>1, <2>2, <2>3, <2>4 DEF IInv
<1>3. ASSUME NEW r \in Reqs, Enqueue(r) PROVE IInv'
  <2>1. TypeOK'
    BY <1>3, <1>t DEF Enqueue, TypeOK
  <2>2. req[r] = "enqueuing" /\ job[r] = "none"
    BY <1>3 DEF Enqueue, IInv, NoJobYet, Waiting
  <2>3. WaitingIsMissed' /\ NoJobYet' /\ OnlyOutagesLoseJobs'
    BY <1>3, <1>t, <2>2 DEF Enqueue, IInv, TypeOK, WaitingIsMissed, NoJobYet,
                            OnlyOutagesLoseJobs, Waiting
  <2>4. RowsExist'
    BY <1>3, <1>t, <2>2 DEF Enqueue, IInv, TypeOK, RowsExist
  <2>5. Executing' /\ ArqTakes' /\ PollerTakes'
    BY <1>3, <1>t, <2>2 DEF Enqueue, IInv, TypeOK, Executing, ArqTakes,
                            PollerTakes
  <2> QED
    BY <2>1, <2>3, <2>4, <2>5 DEF IInv
<1>4. CASE ApiRestart
  <2>1. TypeOK'
    BY <1>4, <1>t DEF ApiRestart, Fault, TypeOK, Waiting
  <2>2. WaitingIsMissed' /\ NoJobYet' /\ OnlyOutagesLoseJobs'
    BY <1>4, <1>t DEF ApiRestart, IInv, TypeOK, WaitingIsMissed, NoJobYet,
                      OnlyOutagesLoseJobs, Waiting
  <2>3. RowsExist'
    BY <1>4, <1>t DEF ApiRestart, IInv, TypeOK, RowsExist, Waiting
  <2>4. Executing' /\ ArqTakes' /\ PollerTakes'
    BY <1>4 DEF ApiRestart, IInv, Executing, ArqTakes, PollerTakes
  <2> QED
    BY <2>1, <2>2, <2>3, <2>4 DEF IInv
<1>5. CASE RedisDown
  <2>1. TypeOK'
    <3>1. redis' \in BOOLEAN /\ missed' \subseteq Reqs
      BY <1>5, <1>t DEF RedisDown, TypeOK
    <3>2. faults' \in 0 .. MaxFaults
      BY <1>5, <1>t DEF RedisDown, Fault, TypeOK
    <3>3. UNCHANGED <<pool, pools, req, order, row, job, polling, processed,
                      phase, takes, dropped, crashes>>
      BY <1>5 DEF RedisDown
    <3> QED
      BY <1>t, <3>1, <3>2, <3>3 DEF TypeOK
  <2>2. WaitingIsMissed' /\ NoJobYet' /\ OnlyOutagesLoseJobs'
    BY <1>5, <1>t DEF RedisDown, IInv, WaitingIsMissed, NoJobYet,
                      OnlyOutagesLoseJobs
  <2>3. RowsExist' /\ Executing' /\ ArqTakes' /\ PollerTakes'
    BY <1>5 DEF RedisDown, IInv, RowsExist, Executing, ArqTakes, PollerTakes
  <2> QED
    BY <2>1, <2>2, <2>3 DEF IInv
<1>6. CASE RedisUp
  BY <1>6, <1>t DEF RedisUp, IInv, TypeOK, WaitingIsMissed, NoJobYet,
                    OnlyOutagesLoseJobs, RowsExist, Executing, ArqTakes,
                    PollerTakes
<1>7. ASSUME NEW r \in Reqs, TakeJob(r) PROVE IInv'
  <2>1. /\ phase' \in [Executors -> [Reqs -> {"no", "begun", "marked"}]]
        /\ takes' \in [Executors -> [Reqs -> Nat]]
        /\ \A f \in Executors, s \in Reqs :
              /\ takes'[f][s] = IF f = "arq" /\ s = r THEN takes[f][s] + 1
                                ELSE takes[f][s]
              /\ phase'[f][s] = IF f = "arq" /\ s = r THEN "begun"
                                ELSE phase[f][s]
        /\ UNCHANGED dropped
    BY <1>7, <1>t, <1>e, TakeLemma DEF TakeJob
  <2>2. /\ job[r] = "queued" /\ job' = [job EXCEPT ![r] = "running"]
        /\ UNCHANGED <<pool, pools, req, order, redis, row, polling,
                       processed, missed, crashes, faults>>
    BY <1>7 DEF TakeJob
  <2>3. TypeOK'
    BY <1>t, <2>1, <2>2 DEF TypeOK
  <2>4. WaitingIsMissed' /\ NoJobYet' /\ OnlyOutagesLoseJobs'
    BY <1>t, <2>2 DEF IInv, TypeOK, WaitingIsMissed, NoJobYet,
                      OnlyOutagesLoseJobs, Waiting
  <2>5. RowsExist'
    BY <1>t, <2>1, <2>2 DEF IInv, TypeOK, RowsExist
  <2>6. Executing'
    BY <1>t, <1>e, <2>1, <2>2 DEF IInv, TypeOK, Executing
  <2>7. ArqTakes'
    BY <1>t, <1>e, <2>1, <2>2 DEF IInv, TypeOK, ArqTakes
  <2>8. PollerTakes'
    BY <1>e, <2>1, <2>2 DEF IInv, PollerTakes
  <2> QED
    BY <2>3, <2>4, <2>5, <2>6, <2>7, <2>8 DEF IInv
<1>8. ASSUME NEW r \in Reqs, Poll(r) PROVE IInv'
  <2>1. /\ phase' \in [Executors -> [Reqs -> {"no", "begun", "marked"}]]
        /\ takes' \in [Executors -> [Reqs -> Nat]]
        /\ \A f \in Executors, s \in Reqs :
              /\ takes'[f][s] = IF f = "poller" /\ s = r THEN takes[f][s] + 1
                                ELSE takes[f][s]
              /\ phase'[f][s] = IF f = "poller" /\ s = r THEN "begun"
                                ELSE phase[f][s]
        /\ UNCHANGED dropped
    BY <1>8, <1>t, <1>e, TakeLemma DEF Poll
  <2>2. /\ polling /\ r \notin processed /\ row[r] = "queued"
        /\ processed' = processed \cup {r}
        /\ UNCHANGED <<pool, pools, req, order, redis, row, job, polling,
                       missed, crashes, faults>>
    BY <1>8 DEF Poll, NewestQueued, Remember
  <2>3. TypeOK'
    BY <1>t, <2>1, <2>2 DEF TypeOK
  <2>4. WaitingIsMissed' /\ NoJobYet' /\ OnlyOutagesLoseJobs'
    BY <2>2 DEF IInv, WaitingIsMissed, NoJobYet, OnlyOutagesLoseJobs
  <2>5. RowsExist'
    BY <2>1, <2>2 DEF IInv, RowsExist
  <2>6. Executing' /\ ArqTakes'
    BY <1>e, <2>1, <2>2 DEF IInv, Executing, ArqTakes
  <2>7. PollerTakes'
    BY <1>t, <1>e, <2>1, <2>2 DEF IInv, TypeOK, PollerTakes
  <2> QED
    BY <2>3, <2>4, <2>5, <2>6, <2>7 DEF IInv
<1>9. ASSUME NEW e \in Executors, NEW r \in Reqs, Mark(e, r) PROVE IInv'
  <2>1. PICK s \in {"analyzing", row[r]} : row' = [row EXCEPT ![r] = s]
    BY <1>9 DEF Mark
  <2>2. /\ phase[e][r] = "begun" /\ phase' = [phase EXCEPT ![e][r] = "marked"]
        /\ UNCHANGED <<pool, pools, req, order, redis, job, polling,
                       processed, takes, missed, dropped, crashes, faults>>
    BY <1>9 DEF Mark
  <2>3. TypeOK'
    BY <1>t, <2>1, <2>2 DEF TypeOK
  <2>4. WaitingIsMissed' /\ NoJobYet' /\ OnlyOutagesLoseJobs' /\ ArqTakes'
        /\ PollerTakes'
    BY <2>2 DEF IInv, WaitingIsMissed, NoJobYet, OnlyOutagesLoseJobs,
                ArqTakes, PollerTakes
  <2>5. RowsExist'
    BY <1>t, <2>1, <2>2 DEF IInv, TypeOK, RowsExist
  <2>6. Executing'
    BY <1>t, <1>e, <2>2 DEF IInv, TypeOK, Executing
  <2> QED
    BY <2>3, <2>4, <2>5, <2>6 DEF IInv
<1>10. ASSUME NEW e \in Executors, NEW r \in Reqs, Finish(e, r) PROVE IInv'
  <2>1. /\ phase[e][r] = "marked" /\ phase' = [phase EXCEPT ![e][r] = "no"]
        /\ job' = IF e = "arq" THEN [job EXCEPT ![r] = "done"] ELSE job
        /\ UNCHANGED <<pool, pools, req, order, redis, polling, processed,
                       takes, missed, crashes, faults>>
    BY <1>10 DEF Finish
  <2>2. row' = [row EXCEPT ![r] = "ended"] \/ row' = row
    BY <1>10 DEF Finish
  <2>3. e = "arq" => job[r] = "running"
    BY <2>1 DEF IInv, Executing
  <2>4. dropped' \subseteq Reqs
    BY <1>10, <1>t DEF Finish, TypeOK
  <2>5. TypeOK'
    BY <1>t, <2>1, <2>2, <2>4 DEF TypeOK
  <2>6. WaitingIsMissed' /\ NoJobYet' /\ OnlyOutagesLoseJobs'
    BY <1>t, <2>1, <2>3 DEF IInv, TypeOK, WaitingIsMissed, NoJobYet,
                            OnlyOutagesLoseJobs
  <2>7. RowsExist'
    BY <1>t, <2>1, <2>2, <2>3 DEF IInv, TypeOK, RowsExist
  <2>8. Executing'
    BY <1>t, <1>e, <2>1 DEF IInv, TypeOK, Executing
  <2>9. ArqTakes' /\ PollerTakes'
    BY <1>t, <2>1 DEF IInv, TypeOK, ArqTakes, PollerTakes
  <2> QED
    BY <2>5, <2>6, <2>7, <2>8, <2>9 DEF IInv
<1>11. CASE ArqCrash
  <2>1. /\ crashes' = [crashes EXCEPT !["arq"] = @ + 1]
        /\ job' = [r \in Reqs |->
                      IF job[r] = "running" THEN "queued" ELSE job[r]]
        /\ phase' = [phase EXCEPT !["arq"] = [r \in Reqs |-> "no"]]
        /\ faults < MaxFaults /\ faults' = faults + 1
        /\ UNCHANGED <<pool, pools, req, order, redis, row, polling,
                       processed, takes, missed, dropped>>
    BY <1>11 DEF ArqCrash, Fault
  <2>2. TypeOK'
    BY <1>t, <1>e, <2>1 DEF TypeOK
  <2>3. WaitingIsMissed' /\ NoJobYet' /\ OnlyOutagesLoseJobs'
    BY <2>1 DEF IInv, WaitingIsMissed, NoJobYet, OnlyOutagesLoseJobs
  <2>4. RowsExist'
    BY <2>1 DEF IInv, RowsExist
  <2>5. Executing'
    BY <1>t, <1>e, <2>1 DEF TypeOK, Executing
  <2>6. ArqTakes' /\ PollerTakes'
    <3>1. crashes'["arq"] = crashes["arq"] + 1
          /\ crashes'["poller"] = crashes["poller"]
          /\ crashes["arq"] \in Nat
          /\ \A r \in Reqs : takes["arq"][r] \in Nat
      BY <1>t, <1>e, <2>1 DEF TypeOK
    <3> QED
      BY <2>1, <3>1 DEF IInv, ArqTakes, PollerTakes
  <2> QED
    BY <2>2, <2>3, <2>4, <2>5, <2>6 DEF IInv
<1>12. CASE PollerCrash
  <2>1. /\ crashes' = [crashes EXCEPT !["poller"] = @ + 1]
        /\ polling' = FALSE /\ processed' = {}
        /\ dropped' = dropped \cup {r \in Reqs : phase["poller"][r] # "no"}
        /\ phase' = [phase EXCEPT !["poller"] = [r \in Reqs |-> "no"]]
        /\ faults < MaxFaults /\ faults' = faults + 1
        /\ UNCHANGED <<pool, pools, req, order, redis, row, job, takes,
                       missed>>
    BY <1>12 DEF PollerCrash, Fault
  <2>2. TypeOK'
    <3>1. crashes' \in [Executors -> Nat] /\ faults' \in 0 .. MaxFaults
      <4>1. crashes \in [Executors -> Nat] /\ faults \in 0 .. MaxFaults
        BY <1>t DEF TypeOK
      <4>2. crashes["poller"] + 1 \in Nat
        BY <1>e, <4>1
      <4>3. faults' \in 0 .. MaxFaults
        BY <2>1, <4>1
      <4> QED
        BY <2>1, <4>1, <4>2, <4>3
    <3>2. phase' \in [Executors -> [Reqs -> {"no", "begun", "marked"}]]
      BY <1>t, <2>1 DEF TypeOK
    <3>3. dropped' \subseteq Reqs /\ polling' \in BOOLEAN
          /\ processed' \subseteq Reqs
      <4>1. {r \in Reqs : phase["poller"][r] # "no"} \subseteq Reqs
        OBVIOUS
      <4>2. dropped \subseteq Reqs
        BY <1>t DEF TypeOK
      <4> QED
        BY <2>1, <4>1, <4>2
    <3>4. UNCHANGED <<pool, pools, req, order, redis, row, job, takes,
                      missed>>
      BY <2>1
    <3> QED
      BY <1>t, <3>1, <3>2, <3>3, <3>4 DEF TypeOK
  <2>3. WaitingIsMissed' /\ NoJobYet' /\ OnlyOutagesLoseJobs' /\ RowsExist'
    BY <2>1 DEF IInv, WaitingIsMissed, NoJobYet, OnlyOutagesLoseJobs,
                RowsExist
  <2>4. Executing'
    BY <1>t, <1>e, <2>1 DEF IInv, TypeOK, Executing
  <2>5. ArqTakes' /\ PollerTakes'
    <3>1. crashes'["poller"] = crashes["poller"] + 1
          /\ crashes'["arq"] = crashes["arq"]
          /\ crashes["poller"] \in Nat
          /\ \A r \in Reqs : takes["poller"][r] \in Nat
      BY <1>t, <1>e, <2>1 DEF TypeOK
    <3> QED
      BY <2>1, <3>1 DEF IInv, ArqTakes, PollerTakes
  <2> QED
    BY <2>2, <2>3, <2>4, <2>5 DEF IInv
<1>13. CASE PollerStart
  <2>1. /\ ~polling /\ polling' = TRUE
        /\ processed' = {r \in Reqs : row[r] \notin {"absent", "queued"}}
        /\ UNCHANGED <<pool, pools, req, order, redis, row, job, phase,
                       takes, dropped, missed, crashes, faults>>
    BY <1>13 DEF PollerStart
  <2>2. TypeOK'
    BY <1>t, <2>1 DEF TypeOK
  <2>3. WaitingIsMissed' /\ NoJobYet' /\ OnlyOutagesLoseJobs' /\ RowsExist'
        /\ Executing' /\ ArqTakes'
    BY <2>1 DEF IInv, WaitingIsMissed, NoJobYet, OnlyOutagesLoseJobs,
                RowsExist, Executing, ArqTakes
  <2>4. PollerTakes'
    BY <2>1 DEF IInv, PollerTakes
  <2> QED
    BY <2>2, <2>3, <2>4 DEF IInv
<1>14. CASE UNCHANGED vars
  BY <1>14, <1>t DEF vars, IInv, TypeOK, WaitingIsMissed, NoJobYet,
                     OnlyOutagesLoseJobs, RowsExist, Executing, ArqTakes,
                     PollerTakes
<1> QED
  BY <1>1, <1>2, <1>3, <1>4, <1>5, <1>6, <1>7, <1>8, <1>9, <1>10, <1>11,
     <1>12, <1>13, <1>14 DEF Next

(* The invariant holds in every reachable state.                           *)
THEOREM Invariant == Spec => []IInv
BY InitInvariant, NextInvariant, PTL DEF Spec

(* The state stays in its type, and the API's pool is set exactly when its *)
(* process has opened one, however requests and restarts interleave.       *)
THEOREM TypeCorrect == Spec => []TypeOK
<1>1. IInv => TypeOK
  BY DEF IInv
<1> QED
  BY <1>1, Invariant, PTL

(* An answered request without a job met an outage of Redis: no            *)
(* interleaving of requests at their awaits loses one.                     *)
THEOREM OutagesLoseJobs == Spec => []OnlyOutagesLoseJobs
<1>1. IInv => OnlyOutagesLoseJobs
  BY DEF IInv
<1> QED
  BY <1>1, Invariant, PTL

(* Arq's worker and the polling worker each take a run at most once more   *)
(* than they have crashed, and never one that is not in the database.      *)
THEOREM TakesAreBounded == Spec => []TakesBounded
<1>1. ASSUME IInv PROVE TakesBounded
  BY <1>1 DEF IInv, RowsExist, ArqTakes, PollerTakes, TakesBounded, Executors
<1> QED
  BY <1>1, Invariant, PTL

-----------------------------------------------------------------------------
(* Submission implements RunExecutions                                     *)

(* The executors that have a run, and how often it was taken, as the       *)
(* refinement mapping gives them.                                          *)
Holders == [r \in Reqs |-> {e \in Executors : phase[e][r] # "no"}]
Count   == [r \in Reqs |-> takes["arq"][r] + takes["poller"][r]]

(* A request that has not arrived has no row.  Who has a run has taken it, *)
(* one that has ended was taken, and one that somebody still has although  *)
(* it has ended was taken twice.                                           *)
NoRowYet == \A r \in Reqs : req[r] = "unsent" => row[r] = "absent"

HoldersTook ==
    \A e \in Executors, r \in Reqs : phase[e][r] # "no" => takes[e][r] >= 1

EndedTwice ==
    \A r \in Reqs :
        row[r] = "ended" =>
            /\ Count[r] >= 1
            /\ \A e \in Executors : phase[e][r] # "no" => Count[r] >= 2

SInv == NoRowYet /\ HoldersTook /\ EndedTwice

(* Functions that differ at one place, or nowhere.                         *)
LEMMA OnePlace ==
    ASSUME NEW S, NEW f, NEW g, NEW r \in S, NEW v,
           f = [x \in S |-> f[x]], g = [x \in S |-> g[x]],
           \A x \in S : g[x] = IF x = r THEN v ELSE f[x]
    PROVE  g = [f EXCEPT ![r] = v] /\ (v = f[r] => g = f)
OBVIOUS

LEMMA HoldersFunction ==
    /\ Holders = [x \in Reqs |-> Holders[x]]
    /\ Holders' = [x \in Reqs |-> Holders'[x]]
BY DEF Holders

(* The steps of RunExecutions, in these terms.                             *)
LEMMA SharedSteps ==
    ASSUME NEW e \in Executors, NEW r \in Reqs
    PROVE  /\ row' = row /\ Holders' = Holders /\ Count' = Count
              => UNCHANGED Shared!vars
           /\ /\ row[r] = "absent" /\ row' = [row EXCEPT ![r] = "queued"]
              /\ Holders' = Holders /\ Count' = Count
              => Shared!Create(r)
           /\ /\ row[r] # "absent" /\ row' = row /\ phase[e][r] = "no"
              /\ Holders' = [Holders EXCEPT ![r] = @ \cup {e}]
              /\ Count' = [Count EXCEPT ![r] = @ + 1]
              => Shared!Take(e, r)
           /\ /\ phase[e][r] # "no"
              /\ row[r] = "ended" => Count[r] >= 2
              /\ row' = [row EXCEPT ![r] = "analyzing"]
              /\ Holders' = Holders /\ Count' = Count
              => Shared!Open(e, r)
           /\ /\ phase[e][r] # "no" /\ row' = [row EXCEPT ![r] = "ended"]
              /\ Holders' = [Holders EXCEPT ![r] = @ \ {e}] /\ Count' = Count
              => Shared!End(e, r)
           /\ /\ phase[e][r] # "no" /\ row' = row
              /\ Holders' = [Holders EXCEPT ![r] = @ \ {e}] /\ Count' = Count
              => Shared!Leave(e, r)
<1> USE DEF Holders, Count
<1>1. row' = row /\ Holders' = Holders /\ Count' = Count
      => UNCHANGED Shared!vars
  BY DEF Shared!vars
<1>2. /\ row[r] = "absent" /\ row' = [row EXCEPT ![r] = "queued"]
      /\ Holders' = Holders /\ Count' = Count
      => Shared!Create(r)
  BY DEF Shared!Create
<1>3. e \in Holders[r] <=> phase[e][r] # "no"
  OBVIOUS
<1>4. /\ row[r] # "absent" /\ row' = row /\ phase[e][r] = "no"
      /\ Holders' = [Holders EXCEPT ![r] = @ \cup {e}]
      /\ Count' = [Count EXCEPT ![r] = @ + 1]
      => Shared!Take(e, r)
  BY <1>3 DEF Shared!Take
<1>5. /\ phase[e][r] # "no"
      /\ row[r] = "ended" => Count[r] >= 2
      /\ row' = [row EXCEPT ![r] = "analyzing"]
      /\ Holders' = Holders /\ Count' = Count
      => Shared!Open(e, r)
  BY <1>3 DEF Shared!Open
<1>6. /\ phase[e][r] # "no" /\ row' = [row EXCEPT ![r] = "ended"]
      /\ Holders' = [Holders EXCEPT ![r] = @ \ {e}] /\ Count' = Count
      => Shared!End(e, r)
  BY <1>3 DEF Shared!End
<1>7. /\ phase[e][r] # "no" /\ row' = row
      /\ Holders' = [Holders EXCEPT ![r] = @ \ {e}] /\ Count' = Count
      => Shared!Leave(e, r)
  BY <1>3 DEF Shared!Leave
<1> QED
  BY <1>1, <1>2, <1>4, <1>5, <1>6, <1>7

(* How the mapping changes when one executor's place with one run does.    *)
LEMMA HoldersMove ==
    ASSUME NEW e \in Executors, NEW r \in Reqs, NEW place,
           \A f \in Executors, s \in Reqs :
              phase'[f][s] = IF f = e /\ s = r THEN place ELSE phase[f][s]
    PROVE  /\ place = "no" => Holders' = [Holders EXCEPT ![r] = @ \ {e}]
           /\ place # "no" => Holders' = [Holders EXCEPT ![r] = @ \cup {e}]
           /\ place # "no" /\ phase[e][r] # "no" => Holders' = Holders
<1>1. \A s \in Reqs \ {r} : Holders'[s] = Holders[s]
  BY DEF Holders
<1>2. place = "no" => Holders'[r] = Holders[r] \ {e}
  BY DEF Holders
<1>3. place # "no" => Holders'[r] = Holders[r] \cup {e}
  BY DEF Holders
<1>4. phase[e][r] # "no" => Holders[r] \cup {e} = Holders[r]
  BY DEF Holders
<1>5. /\ place = "no" => Holders' = [Holders EXCEPT ![r] = Holders[r] \ {e}]
      /\ place # "no" => Holders' = [Holders EXCEPT ![r] = Holders[r] \cup {e}]
  BY <1>1, <1>2, <1>3, HoldersFunction, OnePlace
<1>6. place # "no" /\ phase[e][r] # "no" => Holders' = Holders
  BY <1>1, <1>3, <1>4, HoldersFunction
<1> QED
  BY <1>5, <1>6

LEMMA CountMoves ==
    ASSUME TypeOK, NEW e \in Executors, NEW r \in Reqs,
           \A f \in Executors, s \in Reqs :
              takes'[f][s] = IF f = e /\ s = r THEN takes[f][s] + 1 ELSE takes[f][s]
    PROVE  Count' = [Count EXCEPT ![r] = @ + 1]
<1>1. /\ takes["arq"] \in [Reqs -> Nat] /\ takes["poller"] \in [Reqs -> Nat]
      /\ e = "arq" \/ e = "poller"
  BY DEF TypeOK, Executors
<1>2. \A s \in Reqs : Count'[s] = IF s = r THEN Count[s] + 1 ELSE Count[s]
  BY <1>1 DEF Count, Executors
<1> QED
  BY <1>2 DEF Count

(* Steps of API, Redis and processes that touch no execution and no row.   *)
LEMMA QuietStep ==
    ASSUME SInv, UNCHANGED <<row, phase, takes>>,
           \A r \in Reqs : req'[r] = "unsent" => req[r] = "unsent"
    PROVE  [Shared!Next]_(Shared!vars) /\ SInv'
<1>1. Holders' = Holders /\ Count' = Count
  BY DEF Holders, Count
<1>2. UNCHANGED Shared!vars
  BY <1>1 DEF Shared!vars, Holders, Count
<1>3. SInv'
  BY <1>1 DEF SInv, NoRowYet, HoldersTook, EndedTwice
<1> QED
  BY <1>2, <1>3

(* A run that is in the database and that the executor does not have is    *)
(* taken.                                                                  *)
LEMMA TakeStep ==
    ASSUME IInv, SInv, NEW e \in Executors, NEW r \in Reqs, Take(e, r),
           row[r] # "absent", phase[e][r] = "no", UNCHANGED <<req, row>>
    PROVE  [Shared!Next]_(Shared!vars) /\ SInv'
<1>t. TypeOK
  BY DEF IInv
<1>1. /\ \A f \in Executors, s \in Reqs :
            takes'[f][s] = IF f = e /\ s = r THEN takes[f][s] + 1 ELSE takes[f][s]
      /\ \A f \in Executors, s \in Reqs :
            phase'[f][s] = IF f = e /\ s = r THEN "begun" ELSE phase[f][s]
  BY <1>t, TakeLemma
<1>2. Count' = [Count EXCEPT ![r] = @ + 1]
  BY <1>t, <1>1, CountMoves
<1>3. Holders' = [Holders EXCEPT ![r] = @ \cup {e}]
  BY <1>1, HoldersMove
<1>4. Shared!Take(e, r)
  BY <1>2, <1>3, SharedSteps
<1>5. \A f \in Executors, s \in Reqs : takes[f][s] \in Nat
  BY <1>t DEF TypeOK
<1>6. HoldersTook'
  BY <1>1, <1>5 DEF SInv, HoldersTook
<1>7. \A s \in Reqs : Count[s] \in Nat /\ Count'[s] = IF s = r THEN Count[s] + 1 ELSE Count[s]
  <2>1. e = "arq" \/ e = "poller"
    BY DEF Executors
  <2> QED
    BY <1>1, <1>5, <2>1 DEF Count, Executors
<1>8. EndedTwice'
  BY <1>1, <1>7 DEF SInv, EndedTwice
<1>9. NoRowYet'
  BY DEF SInv, NoRowYet
<1> QED
  BY <1>4, <1>6, <1>8, <1>9 DEF Shared!Next, SInv

(* An executor that has a run writes its row, or fails to, and may leave.  *)
LEMMA WriteStep ==
    ASSUME IInv, SInv, NEW e \in Executors, NEW r \in Reqs,
           phase[e][r] # "no", UNCHANGED <<req, takes>>,
           NEW place \in {"marked", "no"},
           phase' = [phase EXCEPT ![e][r] = place],
           \/ row' = row
           \/ row' = [row EXCEPT ![r] = "analyzing"] /\ place = "marked"
           \/ row' = [row EXCEPT ![r] = "ended"] /\ place = "no"
    PROVE  [Shared!Next]_(Shared!vars) /\ SInv'
<1>t. TypeOK
  BY DEF IInv
<1>1. \A f \in Executors, s \in Reqs :
         phase'[f][s] = IF f = e /\ s = r THEN place ELSE phase[f][s]
  BY <1>t DEF TypeOK
<1>2. /\ place = "marked" => Holders' = Holders
      /\ place = "no" => Holders' = [Holders EXCEPT ![r] = @ \ {e}]
  BY <1>1, HoldersMove
<1>3. Count' = Count
  BY DEF Count
<1>4. row[r] = "ended" => Count[r] >= 2
  BY DEF SInv, EndedTwice
<1>5. [Shared!Next]_(Shared!vars)
  <2>1. CASE row' = row
    <3>1. CASE Holders' = Holders
      BY <1>3, <2>1, <3>1, SharedSteps
    <3>2. CASE Holders' = [Holders EXCEPT ![r] = @ \ {e}]
      BY <1>3, <2>1, <3>2, SharedSteps DEF Shared!Next
    <3> QED
      BY <1>2, <3>1, <3>2
  <2>2. CASE row' = [row EXCEPT ![r] = "analyzing"] /\ place = "marked"
    BY <1>2, <1>3, <1>4, <2>2, SharedSteps DEF Shared!Next
  <2>3. CASE row' = [row EXCEPT ![r] = "ended"] /\ place = "no"
    BY <1>2, <1>3, <2>3, SharedSteps DEF Shared!Next
  <2> QED
    BY <2>1, <2>2, <2>3
<1>6. HoldersTook'
  BY <1>1 DEF SInv, HoldersTook
<1>7. \A f, g \in Executors : f # g => takes["arq"][r] + takes["poller"][r]
                                        = takes[f][r] + takes[g][r]
  BY <1>t DEF Executors, TypeOK
<1>8. takes[e][r] >= 1 /\ \A f \in Executors : takes[f][r] \in Nat
  BY <1>t DEF SInv, HoldersTook, TypeOK
<1>9. Count[r] >= 1
  BY <1>8 DEF Count, Executors
<1>10. \A f \in Executors \ {e} : phase[f][r] # "no" => Count[r] >= 2
  BY <1>7, <1>8 DEF SInv, HoldersTook, Count
<1>11. EndedTwice'
  <2> SUFFICES ASSUME NEW s \in Reqs, row'[s] = "ended"
               PROVE  /\ Count[s] >= 1
                      /\ \A f \in Executors : phase'[f][s] # "no" => Count[s] >= 2
    BY <1>3 DEF EndedTwice
  <2>1. CASE row[s] = "ended"
    BY <1>1, <2>1 DEF SInv, EndedTwice
  <2>2. CASE row[s] # "ended"
    <3>1. s = r /\ place = "no"
      BY <1>t, <2>2 DEF TypeOK
    <3> QED
      BY <1>1, <1>9, <1>10, <3>1
  <2> QED
    BY <2>1, <2>2
<1>12. NoRowYet'
  <2>1. row[r] # "absent"
    BY <1>8 DEF IInv, RowsExist
  <2>2. req[r] # "unsent"
    BY <2>1 DEF SInv, NoRowYet
  <2> QED
    BY <1>t, <2>2 DEF SInv, NoRowYet, TypeOK
<1> QED
  BY <1>5, <1>6, <1>11, <1>12 DEF SInv

(* An executor's process dies and has no run any more.                     *)
LEMMA InterruptStep ==
    ASSUME IInv, SInv, NEW e \in Executors, UNCHANGED <<req, row, takes>>,
           phase' = [phase EXCEPT ![e] = [r \in Reqs |-> "no"]]
    PROVE  [Shared!Next]_(Shared!vars) /\ SInv'
<1>t. TypeOK
  BY DEF IInv
<1>1. \A f \in Executors, s \in Reqs :
         phase'[f][s] = IF f = e THEN "no" ELSE phase[f][s]
  BY <1>t DEF TypeOK
<1>2. Count' = Count
  BY DEF Count
<1>3. Holders' = [s \in Reqs |-> Holders[s] \ {e}]
  <2>1. \A s \in Reqs : Holders'[s] = Holders[s] \ {e}
    BY <1>1 DEF Holders
  <2> QED
    BY <2>1, HoldersFunction
<1>4. Shared!Interrupt(e)
  BY <1>2, <1>3 DEF Shared!Interrupt, Holders, Count
<1>5. SInv'
  BY <1>1, <1>2 DEF SInv, NoRowYet, HoldersTook, EndedTwice
<1> QED
  BY <1>4, <1>5 DEF Shared!Next

LEMMA SharedStep ==
    ASSUME IInv, SInv, [Next]_vars
    PROVE  [Shared!Next]_(Shared!vars) /\ SInv'
<1> USE DEF apiVars, pollVars, execVars, faultVars
<1>t. TypeOK
  BY DEF IInv
<1>e. "arq" \in Executors /\ "poller" \in Executors
  BY DEF Executors
<1>1. ASSUME NEW r \in Reqs, Submit(r) PROVE [Shared!Next]_(Shared!vars) /\ SInv'
  <2>1. /\ row[r] = "absent" /\ row' = [row EXCEPT ![r] = "queued"]
        /\ UNCHANGED <<phase, takes>>
    BY <1>1 DEF Submit, SInv, NoRowYet
  <2>2. Holders' = Holders /\ Count' = Count
    BY <2>1 DEF Holders, Count
  <2>3. Shared!Create(r)
    BY <1>e, <2>1, <2>2, SharedSteps
  <2>4. /\ req'[r] # "unsent"
        /\ \A s \in Reqs \ {r} : req'[s] = req[s] /\ row'[s] = row[s]
    BY <1>1, <1>t DEF Submit, TypeOK, NextAwait
  <2>5. SInv'
    BY <1>t, <2>1, <2>2, <2>4 DEF SInv, NoRowYet, HoldersTook, EndedTwice, TypeOK
  <2> QED
    BY <2>3, <2>5 DEF Shared!Next
<1>2. ASSUME NEW r \in Reqs, OpenPool(r) \/ Enqueue(r)
      PROVE  [Shared!Next]_(Shared!vars) /\ SInv'
  <2>1. UNCHANGED <<row, phase, takes>>
    BY <1>2 DEF OpenPool, Enqueue
  <2>2. \A s \in Reqs : req'[s] = "unsent" => req[s] = "unsent"
    BY <1>2, <1>t DEF OpenPool, Enqueue, TypeOK
  <2> QED
    BY <2>1, <2>2, QuietStep
<1>3. CASE ApiRestart
  BY <1>3, QuietStep DEF ApiRestart
<1>4. CASE RedisDown \/ RedisUp \/ PollerStart \/ UNCHANGED vars
  BY <1>4, QuietStep DEF RedisDown, RedisUp, PollerStart, vars
<1>5. ASSUME NEW r \in Reqs, TakeJob(r) PROVE [Shared!Next]_(Shared!vars) /\ SInv'
  <2>1. row[r] # "absent" /\ phase["arq"][r] = "no"
    BY <1>5 DEF TakeJob, IInv, RowsExist, Executing
  <2> QED
    BY <1>5, <1>e, <2>1, TakeStep DEF TakeJob
<1>6. ASSUME NEW r \in Reqs, Poll(r) PROVE [Shared!Next]_(Shared!vars) /\ SInv'
  BY <1>6, <1>e, TakeStep DEF Poll, NewestQueued
<1>7. ASSUME NEW e \in Executors, NEW r \in Reqs, Mark(e, r)
      PROVE  [Shared!Next]_(Shared!vars) /\ SInv'
  <2>1. row' = row \/ row' = [row EXCEPT ![r] = "analyzing"]
    <3>1. PICK s \in {"analyzing", row[r]} : row' = [row EXCEPT ![r] = s]
      BY <1>7 DEF Mark
    <3>2. row = [row EXCEPT ![r] = row[r]]
      BY <1>t DEF TypeOK
    <3> QED
      BY <3>1, <3>2
  <2>2. /\ phase[e][r] = "begun" /\ phase' = [phase EXCEPT ![e][r] = "marked"]
        /\ UNCHANGED <<req, takes>>
    BY <1>7 DEF Mark
  <2> QED
    BY <2>1, <2>2, WriteStep
<1>8. ASSUME NEW e \in Executors, NEW r \in Reqs, Finish(e, r)
      PROVE  [Shared!Next]_(Shared!vars) /\ SInv'
  <2>1. /\ phase[e][r] = "marked" /\ phase' = [phase EXCEPT ![e][r] = "no"]
        /\ UNCHANGED <<req, takes>>
        /\ row' = row \/ row' = [row EXCEPT ![r] = "ended"]
    BY <1>8 DEF Finish
  <2> QED
    BY <2>1, WriteStep
<1>9. CASE ArqCrash
  BY <1>9, <1>e, InterruptStep DEF ArqCrash
<1>10. CASE PollerCrash
  BY <1>10, <1>e, InterruptStep DEF PollerCrash
<1> QED
  BY <1>1, <1>2, <1>3, <1>4, <1>5, <1>6, <1>7, <1>8, <1>9, <1>10 DEF Next

LEMMA InitShared == Init => Shared!Init /\ SInv
<1> SUFFICES ASSUME Init PROVE Shared!Init /\ SInv
  OBVIOUS
<1>1. /\ row = [r \in Reqs |-> "absent"]
      /\ \A e \in Executors, r \in Reqs : phase[e][r] = "no" /\ takes[e][r] = 0
  BY DEF Init
<1>2. Holders = [r \in Reqs |-> {}] /\ Count = [r \in Reqs |-> 0]
  BY <1>1 DEF Holders, Count, Executors
<1>3. Shared!Init
  BY <1>1, <1>2 DEF Shared!Init, Holders, Count
<1>4. SInv
  BY <1>1 DEF SInv, NoRowYet, HoldersTook, EndedTwice
<1> QED
  BY <1>3, <1>4

(* Arq's worker and the polling worker share the rows as RunExecutions     *)
(* lets them: a status moves at the hands of who has the run, and a run    *)
(* that has ended is opened again only when it was taken twice, for every  *)
(* number of requests and faults and every interleaving of the two.        *)
THEOREM ExecutionsShared == Spec => ImplementsExecutions
<1>1. IInv /\ SInv /\ [Next]_vars => [Shared!Next]_(Shared!vars) /\ SInv'
  BY SharedStep
<1> QED
  BY <1>1, InitShared, Invariant, PTL DEF Spec, ImplementsExecutions, Shared!Spec
==============================================================================
