------------------------ MODULE CrashSupervisionProofs ------------------------
(***************************************************************************)
(* Proofs about CrashSupervision: its type, that a crash leaves one        *)
(* incident, where, and when it leaves none, and that the incident names   *)
(* the runs it interrupted, for every set of runs, every limit on jobs and *)
(* every number of faults.                                                 *)
(***************************************************************************)
EXTENDS CrashSupervision, FiniteSetTheorems, TLAPS

(* The tracker knows the tasks; a process that goes on has recorded        *)
(* nothing; one that backs off has recorded its exception.                 *)
Alive == {"starting", "serving", "closing", "raised"}

ExcFits ==
    /\ proc # "dead" => exc # "killed"
    /\ proc \in {"raised", "backoff"} => exc # "none"

(* An incident is where it could be written, and there is none only when   *)
(* it could be written nowhere.                                            *)
Written ==
    \/ noted = << >> /\ {"neon", "disk"} \subseteq missed
    \/ /\ Len(noted) = 1
       /\ ~({"neon", "disk"} \subseteq missed)
       /\ "neon" \in noted[1].where <=> "neon" \notin missed
       /\ noted[1].where = {"neon", "disk"} => "answer" \in missed

NotedFits ==
    /\ proc \in Alive \cup {"stopped"} => noted = << >>
    /\ proc \in Alive => keys = {}
    /\ proc = "backoff" => [exc |-> exc, runs |-> tracked] \in keys
    /\ proc \in {"backoff", "dead"} /\ exc \in Exceptions => Written
    /\ noted = << >> \/ Written

IInv ==
    /\ TypeOK
    /\ tracked = tasks
    /\ ExcFits
    /\ NotedFits
    /\ IncidentsNameInterrupted

(* What recording does in a process that has recorded nothing: at most one *)
(* incident, which names the runs being tracked.                           *)
LEMMA FirstIncident ==
    ASSUME NEW e \in Exceptions, IInv, keys = {}, noted = << >>,
           RecordIncident(e)
    PROVE  /\ keys' \subseteq Key
           /\ [exc |-> e, runs |-> tracked] \in keys'
           /\ noted' \in Seq(Incident)
           /\ missed' \subseteq {"neon", "disk", "answer"}
           /\ Written'
           /\ \A i \in DOMAIN noted' : noted'[i].runs = tracked
<1> DEFINE key == [exc |-> e, runs |-> tracked]
           new(lost) == [exc |-> e, runs |-> tracked, where |-> Places(lost)]
<1>1. tracked \subseteq Runs
  BY DEF IInv, TypeOK
<1>2. keys' = keys \cup {key} /\ Write(e)
  BY DEF RecordIncident
<1>3. PICK lost \in BOOLEAN :
          /\ lost => "neon" \in up
          /\ noted' = IF Places(lost) = {} THEN noted ELSE Append(noted, new(lost))
          /\ missed' = ({"neon", "disk"} \ up) \cup (IF lost THEN {"answer"} ELSE {})
  BY <1>2 DEF Write
<1>4. key \in Key
  BY <1>1 DEF Key
<1>5. Places(lost) \subseteq {"neon", "disk"}
  BY DEF Places
<1>6. /\ "neon" \in Places(lost) <=> "neon" \in up
      /\ "disk" \in Places(lost) <=> "disk" \in up /\ ("neon" \notin up \/ lost)
  BY DEF Places
<1>7. missed' \subseteq {"neon", "disk", "answer"}
  BY <1>3
<1>8. /\ "neon" \in missed' <=> "neon" \notin up
      /\ "disk" \in missed' <=> "disk" \notin up
      /\ "answer" \in missed' <=> lost
  BY <1>3
<1>9. CASE Places(lost) = {}
  <2>1. noted' = << >>
    BY <1>3, <1>9
  <2>2. {"neon", "disk"} \subseteq missed'
    BY <1>6, <1>8, <1>9
  <2> QED
    BY <1>2, <1>4, <1>7, <2>1, <2>2 DEF Written
<1>10. CASE Places(lost) # {}
  <2>1. noted' = << new(lost) >>
    BY <1>3, <1>10
  <2>2. new(lost) \in Incident
    BY <1>1, <1>5 DEF Incident
  <2>3. noted' \in Seq(Incident) /\ Len(noted') = 1 /\ noted'[1] = new(lost)
        /\ DOMAIN noted' = {1}
    BY <2>1, <2>2
  <2>4. "neon" \in up \/ "disk" \in up
    BY <1>5, <1>6, <1>10
  <2>5. Places(lost) = {"neon", "disk"} => lost
    BY <1>6
  <2>6. Written'
    BY <1>6, <1>8, <2>3, <2>4, <2>5 DEF Written
  <2> QED
    BY <1>2, <1>4, <1>7, <2>3, <2>6
<1> QED
  BY <1>9, <1>10

(* The end of a process that has recorded nothing, in whichever handler.   *)
LEMMA HandlerRecords ==
    ASSUME NEW e \in Exceptions, IInv, proc \in Alive, RecordIncident(e),
           exc' = e, proc' \in {"backoff", "dead"},
           UNCHANGED <<tasks, tracked, up>>, faults' \in 0 .. MaxFaults
    PROVE  IInv'
<1>1. keys = {} /\ noted = << >>
  BY DEF IInv, NotedFits
<1>2. /\ keys' \subseteq Key
      /\ [exc |-> e, runs |-> tracked] \in keys'
      /\ noted' \in Seq(Incident)
      /\ missed' \subseteq {"neon", "disk", "answer"}
      /\ Written'
      /\ \A i \in DOMAIN noted' : noted'[i].runs = tracked
  BY <1>1, FirstIncident
<1>3. TypeOK'
  BY <1>2 DEF IInv, TypeOK
<1>4. ExcFits'
  BY DEF ExcFits, Exceptions
<1>5. NotedFits'
  BY <1>2 DEF NotedFits, Alive
<1>6. IncidentsNameInterrupted'
  BY <1>2 DEF IInv, IncidentsNameInterrupted
<1> QED
  BY <1>3, <1>4, <1>5, <1>6 DEF IInv

LEMMA InitInvariant == Init => IInv
<1> SUFFICES ASSUME Init PROVE IInv
  OBVIOUS
<1>1. TypeOK
  BY SupervisionAssumption, FS_EmptySet
     DEF Init, TypeOK, Services, Exceptions
<1>2. ExcFits /\ NotedFits /\ IncidentsNameInterrupted
  BY DEF Init, ExcFits, NotedFits, IncidentsNameInterrupted, Alive
<1> QED
  BY <1>1, <1>2 DEF IInv, Init

LEMMA NextInvariant == IInv /\ [Next]_vars => IInv'
<1> SUFFICES ASSUME IInv, [Next]_vars PROVE IInv'
  OBVIOUS
<1> USE SupervisionAssumption
<1>t. TypeOK
  BY DEF IInv
<1>1. ASSUME NEW r \in Runs, StartJob(r) PROVE IInv'
  <2>1. IsFiniteSet(tasks') /\ Cardinality(tasks') <= MaxJobs
    <3>1. tasks' = tasks \cup {r} /\ r \notin tasks
          /\ Cardinality(tasks) < MaxJobs
      BY <1>1 DEF StartJob
    <3>2. IsFiniteSet(tasks') /\ Cardinality(tasks') = Cardinality(tasks) + 1
      BY <3>1, <1>t, FS_AddElement DEF TypeOK
    <3>3. Cardinality(tasks) \in Nat
      BY <1>t, FS_CardinalityType DEF TypeOK
    <3> QED
      BY <3>1, <3>2, <3>3
  <2>2. TypeOK'
    BY <1>1, <1>t, <2>1 DEF StartJob, TypeOK
  <2>3. noted = << >>
    BY <1>1 DEF StartJob, IInv, NotedFits, Written, Alive
  <2> QED
    BY <1>1, <2>2, <2>3
       DEF IInv, StartJob, ExcFits, NotedFits, Written, IncidentsNameInterrupted, Alive
<1>2. ASSUME NEW r \in Runs, EndJob(r) PROVE IInv'
  <2>1. IsFiniteSet(tasks') /\ Cardinality(tasks') <= MaxJobs
    <3>1. tasks' = tasks \ {r} /\ r \in tasks
      BY <1>2 DEF EndJob
    <3>2. IsFiniteSet(tasks') /\ Cardinality(tasks') = Cardinality(tasks) - 1
      BY <3>1, <1>t, FS_RemoveElement DEF TypeOK
    <3>3. Cardinality(tasks) \in Nat /\ Cardinality(tasks) <= MaxJobs
      BY <1>t, FS_CardinalityType DEF TypeOK
    <3> QED
      BY <3>2, <3>3
  <2>2. tasks' = tasks \ {r} /\ tracked' = tracked \ {r}
    BY <1>2 DEF EndJob, Untrack
  <2>3. noted = << >> /\ keys = {} /\ UNCHANGED <<keys, noted, missed, up, faults>>
    BY <1>2 DEF EndJob, IInv, NotedFits, Written, Alive
  <2>4. CASE UNCHANGED <<proc, exc>>
    BY <1>2, <1>t, <2>1, <2>2, <2>3, <2>4
       DEF IInv, TypeOK, EndJob, ExcFits, NotedFits, Written,
           IncidentsNameInterrupted, Alive
  <2>5. CASE proc' \in {"closing", "raised"} /\ exc' = "redis"
    BY <1>2, <1>t, <2>1, <2>2, <2>3, <2>5
       DEF IInv, TypeOK, EndJob, ExcFits, NotedFits, Written,
           IncidentsNameInterrupted, Alive, Exceptions
  <2> QED
    BY <1>2, <2>4, <2>5 DEF EndJob
<1>3. CASE StartDependencies
  BY <1>3, <1>t DEF StartDependencies, IInv, TypeOK, ExcFits, NotedFits, Written,
                    IncidentsNameInterrupted, Alive
<1>4. CASE StartupFails
  BY <1>4, <1>t DEF StartupFails, IInv, TypeOK, ExcFits, NotedFits, Written,
                    IncidentsNameInterrupted, Alive, Exceptions
<1>5. CASE MainRaises
  BY <1>5, <1>t DEF MainRaises, IInv, TypeOK, ExcFits, NotedFits, Written,
                    IncidentsNameInterrupted, Alive, Exceptions
<1>6. CASE Stop
  BY <1>6, <1>t DEF Stop, IInv, TypeOK, ExcFits, NotedFits, Written,
                    IncidentsNameInterrupted, Alive
<1>7. CASE CloseEnds
  BY <1>7, <1>t DEF CloseEnds, IInv, TypeOK, ExcFits, NotedFits, Written,
                    IncidentsNameInterrupted, Alive, Exceptions
<1>8. CASE RedisWatchdog
  <2>1. faults' \in 0 .. MaxFaults /\ "redis" \in Exceptions
    BY <1>8, <1>t DEF RedisWatchdog, TypeOK, Exceptions
  <2> QED
    BY <1>8, <2>1, HandlerRecords DEF RedisWatchdog, Alive
<1>9. CASE LoopExceptionHandler
  <2>1. faults' \in 0 .. MaxFaults /\ "orphan" \in Exceptions
    BY <1>9, <1>t DEF LoopExceptionHandler, TypeOK, Exceptions
  <2> QED
    BY <1>9, <2>1, HandlerRecords DEF LoopExceptionHandler, Alive
<1>10. CASE SupervisorRecords
  <2>1. faults' \in 0 .. MaxFaults /\ exc \in Exceptions
    BY <1>10, <1>t DEF SupervisorRecords, IInv, TypeOK, ExcFits
  <2> QED
    BY <1>10, <2>1, HandlerRecords DEF SupervisorRecords, Alive
<1>11. CASE ExcepthookRecords
  <2>1. exc \in Exceptions /\ [exc |-> exc, runs |-> tracked] \in keys
    BY <1>11, <1>t DEF ExcepthookRecords, IInv, TypeOK, ExcFits, NotedFits
  <2>2. UNCHANGED <<keys, noted, missed>>
    BY <1>11, <2>1 DEF ExcepthookRecords, RecordIncident
  <2> QED
    BY <1>11, <1>t, <2>1, <2>2
       DEF ExcepthookRecords, IInv, TypeOK, ExcFits, NotedFits, Written,
           IncidentsNameInterrupted, Alive
<1>12. CASE HardKill
  BY <1>12, <1>t DEF HardKill, IInv, TypeOK, ExcFits, NotedFits, Written,
                     IncidentsNameInterrupted, Alive, Exceptions
<1>13. CASE Restart
  BY <1>13, <1>t, FS_EmptySet
     DEF Restart, IInv, TypeOK, ExcFits, NotedFits, Written,
         IncidentsNameInterrupted, Alive
<1>14. ASSUME NEW s \in Services, ServiceDown(s) PROVE IInv'
  BY <1>14, <1>t DEF ServiceDown, IInv, TypeOK, ExcFits, NotedFits, Written,
                     IncidentsNameInterrupted, Alive
<1>15. ASSUME NEW s \in Services, ServiceUp(s) PROVE IInv'
  BY <1>15, <1>t DEF ServiceUp, IInv, TypeOK, ExcFits, NotedFits, Written,
                     IncidentsNameInterrupted, Alive
<1>16. CASE UNCHANGED vars
  BY <1>16, <1>t DEF vars, IInv, TypeOK, ExcFits, NotedFits, Written,
                     IncidentsNameInterrupted, Alive
<1> QED
  BY <1>1, <1>2, <1>3, <1>4, <1>5, <1>6, <1>7, <1>8, <1>9, <1>10, <1>11,
     <1>12, <1>13, <1>14, <1>15, <1>16 DEF Next

(* The invariant holds in every reachable state of the worker process.     *)
THEOREM Invariant == Spec => []IInv
BY InitInvariant, NextInvariant, PTL DEF Spec

(* The state stays in its type and Arq's limit on jobs is kept: max_jobs   *)
(* and the tracker, over every crash and restart.                          *)
THEOREM TypeCorrect == Spec => []TypeOK
<1>1. IInv => TypeOK
  BY DEF IInv
<1> QED
  BY <1>1, Invariant, PTL

(* However watchdog, loop handler, supervisor and excepthook follow each   *)
(* other, a crash that any of them sees leaves one incident, and where; it *)
(* leaves none exactly if Neon and the disk failed when the first of them  *)
(* recorded it.                                                            *)
THEOREM OneIncident == Spec => []OneIncidentPerCrash
<1>1. ASSUME IInv PROVE OneIncidentPerCrash
  <2>1. noted = << >> => DOMAIN noted = {} /\ Len(noted) = 0
    OBVIOUS
  <2>2. Len(noted) = 1 => DOMAIN noted = {1} /\ noted # << >>
    BY <1>1 DEF IInv, TypeOK
  <2> QED
    BY <1>1, <2>1, <2>2 DEF IInv, NotedFits, Written, OneIncidentPerCrash, Alive
<1> QED
  BY <1>1, Invariant, PTL

(* An incident names the runs whose tasks were cut off, no more, no less.  *)
THEOREM IncidentNames == Spec => []IncidentsNameInterrupted
<1>1. IInv => IncidentsNameInterrupted
  BY DEF IInv
<1> QED
  BY <1>1, Invariant, PTL

===============================================================================
