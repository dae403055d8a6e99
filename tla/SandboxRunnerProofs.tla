------------------------- MODULE SandboxRunnerProofs -------------------------
(***************************************************************************)
(* Proofs about SandboxRunner: its type, that the flag timed_out is        *)
(* honest, and that a container that runs is accounted for, for every set  *)
(* of requests and every number of slots.                                  *)
(***************************************************************************)
EXTENDS SandboxRunner, TLAPS

(* A container exists only for a thread that was launched.                 *)
LaunchFirst ==
    \A j \in Jobs :
        /\ thread[j] \in {"none", "queued", "image"} => watchdog[j] = "off"
        /\ watchdog[j] = "off" => box[j] = "none"

(* A container is killed by a thread whose primary timeout expired, or by  *)
(* the watchdog, which has not heard of it, or has, or never will.         *)
KillersKnown ==
    \A j \in Jobs :
        /\ thread[j] \in {"kill", "drain", "raise"} => timed_out[j]
        /\ box[j] = "killed" => timed_out[j] \/ watchdog[j] \in {"sent", "fired", "failed"}

(* A thread cleans up after docker run has exited, or after Docker did not *)
(* answer; one that is over had no container then, or was such a thread.   *)
ExitedFirst ==
    \A j \in Jobs :
        /\ thread[j] = "cleanup" => Exited(j)
        /\ thread[j] = "raise" => hung[j]
        /\ thread[j] = "over" => Exited(j) \/ hung[j] \/ watchdog[j] = "off"
        /\ client[j] = "answered" => Exited(j)

IInv ==
    /\ TypeOK
    /\ LaunchFirst
    /\ KillersKnown
    /\ ExitedFirst
    /\ ContainersHaveSlots

-----------------------------------------------------------------------------

LEMMA InitInvariant == Init => IInv
<1> SUFFICES ASSUME Init PROVE IInv
  OBVIOUS
<1>1. endless \subseteq Jobs /\ silent \subseteq Jobs /\ queue \in Seq(Jobs)
  BY DEF Init
<1>2. TypeOK
  BY <1>1 DEF Init, TypeOK, Threads, Timers
<1> QED
  BY <1>2 DEF Init, IInv, LaunchFirst, KillersKnown, ExitedFirst,
              ContainersHaveSlots, Exited

(* docker kill: only a container that runs changes.                        *)
LEMMA KillLemma ==
    ASSUME TypeOK, NEW j \in Jobs, NEW w \in {"thread", "watchdog"}, Kill(j, w)
    PROVE  /\ box' \in [Jobs -> {"none", "running", "ended", "killed"}]
           /\ vain' \in [Jobs -> SUBSET {"thread", "watchdog"}]
           /\ \A i \in Jobs : \/ box'[i] = box[i]
                              \/ i = j /\ box[i] = "running"
                                       /\ box'[i] = "killed"
BY DEF Kill, TypeOK

(* A reply reaches only a client that waits.                               *)
LEMMA ReplyLemma ==
    ASSUME TypeOK, NEW j \in Jobs, NEW a \in {"answered", "refused"},
           Reply(j, a)
    PROVE  /\ client' \in [Jobs -> {"idle", "waiting", "answered", "refused",
                                    "gave_up"}]
           /\ \A i \in Jobs : \/ client'[i] = client[i]
                              \/ i = j /\ client'[i] = a
BY DEF Reply, TypeOK

LEMMA NextInvariant == IInv /\ [Next]_vars => IInv'
<1> SUFFICES ASSUME IInv, [Next]_vars PROVE IInv'
  OBVIOUS
<1>t. TypeOK
  BY DEF IInv
<1>1. ASSUME NEW j \in Jobs, Submit(j) PROVE IInv'
  <2>1. TypeOK'
    BY <1>1, <1>t DEF Submit, Goto, TypeOK, Threads, jobVars
  <2> QED
    BY <1>1, <1>t, <2>1
       DEF Submit, Goto, TypeOK, IInv, LaunchFirst, KillersKnown,
           ExitedFirst, ContainersHaveSlots, Exited, Busy
<1>2. ASSUME NEW j \in Jobs, GiveUp(j) PROVE IInv'
  BY <1>2, <1>t DEF GiveUp, TypeOK, IInv, LaunchFirst, KillersKnown,
                    ExitedFirst, ContainersHaveSlots, Exited, jobVars
<1>3. ASSUME NEW j \in Jobs, Take(j) PROVE IInv'
  <2>1. queue' \in Seq(Jobs)
    BY <1>3, <1>t DEF Take, TypeOK
  <2>2. /\ thread[j] = "queued" /\ thread' = [thread EXCEPT ![j] = "image"]
        /\ UNCHANGED <<jobVars, client, box, watchdog, timed_out, hung, vain>>
    BY <1>3 DEF Take, Goto
  <2>3. TypeOK'
    BY <1>t, <2>1, <2>2 DEF TypeOK, Threads, Busy, jobVars
  <2> QED
    BY <1>t, <2>2, <2>3
       DEF TypeOK, IInv, LaunchFirst, KillersKnown, ExitedFirst,
           ContainersHaveSlots, Exited, Busy
<1>4. ASSUME NEW j \in Jobs, Launch(j) PROVE IInv'
  <2>1. TypeOK'
    BY <1>4, <1>t DEF Launch, Goto, Wind, TypeOK, Threads, Busy, Timers, jobVars
  <2> QED
    BY <1>4, <1>t, <2>1
       DEF Launch, Goto, Wind, TypeOK, IInv, LaunchFirst, KillersKnown,
           ExitedFirst, ContainersHaveSlots, Exited, Busy
<1>5. ASSUME NEW j \in Jobs, LaunchFails(j) PROVE IInv'
  <2>1. /\ client' \in [Jobs -> {"idle", "waiting", "answered", "refused",
                                 "gave_up"}]
        /\ \A i \in Jobs : \/ client'[i] = client[i]
                           \/ i = j /\ client'[i] = "refused"
    BY <1>5, <1>t, ReplyLemma DEF LaunchFails
  <2>2. /\ thread[j] = "image" /\ thread' = [thread EXCEPT ![j] = "over"]
        /\ UNCHANGED <<jobVars, queue, box, watchdog, timed_out, hung, vain>>
    BY <1>5 DEF LaunchFails, Goto
  <2>3. TypeOK'
    BY <1>t, <2>1, <2>2 DEF TypeOK, Threads, jobVars
  <2>4. watchdog[j] = "off" /\ box[j] = "none"
    BY <2>2 DEF IInv, LaunchFirst
  <2> QED
    BY <1>t, <2>1, <2>2, <2>3, <2>4
       DEF TypeOK, IInv, LaunchFirst, KillersKnown, ExitedFirst,
           ContainersHaveSlots, Exited, Busy
<1>6. ASSUME NEW j \in Jobs, Create(j) PROVE IInv'
  <2>1. TypeOK'
    BY <1>6, <1>t DEF Create, TypeOK, jobVars
  <2>2. thread[j] \in Busy \/ hung[j]
    BY <1>6, <1>t DEF Create, IInv, TypeOK, LaunchFirst, ExitedFirst, Exited,
                      Threads
  <2> QED
    BY <1>6, <1>t, <2>1, <2>2
       DEF Create, TypeOK, IInv, LaunchFirst, KillersKnown, ExitedFirst,
           ContainersHaveSlots, Exited
<1>7. ASSUME NEW j \in Jobs, End(j) PROVE IInv'
  BY <1>7, <1>t DEF End, TypeOK, IInv, LaunchFirst, KillersKnown,
                    ExitedFirst, ContainersHaveSlots, Exited, jobVars
<1>8. ASSUME NEW j \in Jobs, Collect(j) PROVE IInv'
  BY <1>8, <1>t DEF Collect, Goto, TypeOK, Threads, IInv, LaunchFirst,
                    KillersKnown, ExitedFirst, ContainersHaveSlots,
                    Exited, Busy, jobVars
<1>9. ASSUME NEW j \in Jobs, Expire(j) PROVE IInv'
  BY <1>9, <1>t DEF Expire, Goto, TypeOK, Threads, IInv, LaunchFirst,
                    KillersKnown, ExitedFirst, ContainersHaveSlots,
                    Exited, Busy, jobVars
<1>10. ASSUME NEW j \in Jobs, KillContainer(j) \/ KillTimesOut(j) PROVE IInv'
  <2>1. /\ box' \in [Jobs -> {"none", "running", "ended", "killed"}]
        /\ vain' \in [Jobs -> SUBSET {"thread", "watchdog"}]
        /\ \A i \in Jobs : \/ box'[i] = box[i]
                           \/ i = j /\ box[i] = "running"
                                    /\ box'[i] = "killed"
    BY <1>10, <1>t, KillLemma DEF KillContainer, KillTimesOut
  <2>2. /\ thread[j] = "kill"
        /\ \/ thread' = [thread EXCEPT ![j] = "drain"] /\ UNCHANGED hung
           \/ /\ thread' = [thread EXCEPT ![j] = "raise"]
              /\ hung' = [hung EXCEPT ![j] = TRUE]
        /\ UNCHANGED <<jobVars, client, queue, watchdog, timed_out>>
    BY <1>10 DEF KillContainer, KillTimesOut, Goto
  <2>3. TypeOK'
    BY <1>t, <2>1, <2>2 DEF TypeOK, Threads, Busy, jobVars
  <2>4. timed_out[j]
    BY <2>2 DEF IInv, KillersKnown
  <2>5. LaunchFirst' /\ KillersKnown'
    BY <1>t, <2>1, <2>2, <2>4 DEF TypeOK, IInv, LaunchFirst, KillersKnown
  <2>6. ExitedFirst' /\ ContainersHaveSlots'
    BY <1>t, <2>1, <2>2
       DEF TypeOK, IInv, ExitedFirst, ContainersHaveSlots, Exited, Busy
  <2> QED
    BY <2>3, <2>5, <2>6 DEF IInv
<1>11. ASSUME NEW j \in Jobs, Drain(j) PROVE IInv'
  BY <1>11, <1>t DEF Drain, Goto, TypeOK, Threads, IInv, LaunchFirst,
                     KillersKnown, ExitedFirst, ContainersHaveSlots,
                     Exited, Busy, jobVars
<1>12. ASSUME NEW j \in Jobs, Watchdog(j) PROVE IInv'
  <2>1. /\ box' \in [Jobs -> {"none", "running", "ended", "killed"}]
        /\ vain' \in [Jobs -> SUBSET {"thread", "watchdog"}]
        /\ \A i \in Jobs : \/ box'[i] = box[i]
                           \/ i = j /\ box[i] = "running"
                                    /\ box'[i] = "killed"
                                    /\ watchdog'[j] = "sent"
    BY <1>12, <1>t, KillLemma
       DEF Watchdog, WatchdogFires, WatchdogKills, WatchdogReturns, Wind, TypeOK
  <2>2. /\ watchdog' \in [Jobs -> Timers]
        /\ \A i \in Jobs :
              \/ watchdog'[i] = watchdog[i]
              \/ /\ watchdog[i] # "off" /\ watchdog'[i] # "off"
                 /\ watchdog[i] \in {"sent", "fired", "failed"}
                       => watchdog'[i] \in {"sent", "fired", "failed"}
        /\ UNCHANGED <<jobVars, client, queue, thread, timed_out, hung>>
    BY <1>12, <1>t
       DEF Watchdog, WatchdogFires, WatchdogKills, WatchdogReturns, Wind, TypeOK,
           Timers
  <2>3. TypeOK'
    BY <1>t, <2>1, <2>2 DEF TypeOK, jobVars
  <2> QED
    BY <1>t, <2>1, <2>2, <2>3
       DEF TypeOK, IInv, LaunchFirst, KillersKnown, ExitedFirst,
           ContainersHaveSlots, Exited, Busy
<1>13. ASSUME NEW j \in Jobs, Cleanup(j) PROVE IInv'
  <2>1. /\ watchdog' \in [Jobs -> Timers]
        /\ \A i \in Jobs : \/ watchdog'[i] = watchdog[i]
                           \/ watchdog[i] = "armed" /\ watchdog'[i] = "cancelled"
        /\ timed_out' \in [Jobs -> BOOLEAN]
        /\ \A i \in Jobs : timed_out[i] => timed_out'[i]
        /\ vain' \in [Jobs -> SUBSET {"thread", "watchdog"}]
        /\ box' \in [Jobs -> {"none", "running", "ended", "killed"}]
        /\ \A i \in Jobs : \/ box'[i] = box[i]
                           \/ i = j /\ box[i] = "running"
                                    /\ box'[i] = "killed"
        /\ UNCHANGED <<jobVars, queue, hung>>
        /\ thread' = [thread EXCEPT ![j] = "over"]
    BY <1>13, <1>t DEF Cleanup, Remove, Goto, TypeOK, Timers
  <2>2. PICK a \in {"answered", "refused"} :
            /\ Reply(j, a)
            /\ \/ a = "answered" /\ thread[j] = "cleanup"
               \/ a = "refused" /\ thread[j] = "raise"
    BY <1>13 DEF Cleanup, Goto
  <2>3. /\ client' \in [Jobs -> {"idle", "waiting", "answered", "refused",
                                 "gave_up"}]
        /\ \A i \in Jobs : \/ client'[i] = client[i]
                           \/ i = j /\ client'[i] = a
    BY <1>t, <2>2, ReplyLemma
  <2>4. TypeOK'
    BY <1>t, <2>1, <2>3 DEF TypeOK, Threads, jobVars
  <2>5. \/ a = "answered" /\ Exited(j)
        \/ a = "refused" /\ hung[j] /\ timed_out[j]
    BY <2>2 DEF IInv, ExitedFirst, KillersKnown
  <2> QED
    BY <1>t, <2>1, <2>2, <2>3, <2>4, <2>5
       DEF TypeOK, IInv, LaunchFirst, KillersKnown, ExitedFirst,
           ContainersHaveSlots, Exited, Busy
<1>14. CASE UNCHANGED vars
  BY <1>14, <1>t DEF vars, TypeOK, IInv, LaunchFirst, KillersKnown,
                     ExitedFirst, ContainersHaveSlots, Exited, jobVars
<1> QED
  BY <1>1, <1>2, <1>3, <1>4, <1>5, <1>6, <1>7, <1>8, <1>9, <1>10, <1>11,
     <1>12, <1>13, <1>14 DEF Next, Thread

(* The invariant holds in every reachable state of the service.            *)
THEOREM Invariant == Spec => []IInv
BY InitInvariant, NextInvariant, PTL DEF Spec

(* The state stays in its type.                                            *)
THEOREM TypeCorrect == Spec => []TypeOK
<1>1. IInv => TypeOK
  BY DEF IInv
<1> QED
  BY <1>1, Invariant, PTL

(* A client is answered by the finally block of its own thread.            *)
LEMMA AnsweredByCleanup ==
    ASSUME TypeOK, [Next]_vars, NEW j \in Jobs,
           client[j] # "answered", client'[j] = "answered"
    PROVE  Cleanup(j) /\ thread[j] = "cleanup"
<1>1. ASSUME NEW i \in Jobs, Cleanup(i) PROVE i = j /\ thread[j] = "cleanup"
  BY <1>1, ReplyLemma DEF Cleanup, Goto
<1>2. ASSUME NEW i \in Jobs, LaunchFails(i) PROVE FALSE
  BY <1>2, ReplyLemma DEF LaunchFails
<1>3. ASSUME NEW i \in Jobs, Submit(i) \/ GiveUp(i) PROVE FALSE
  BY <1>3 DEF Submit, GiveUp, TypeOK
<1>4. ASSUME NEW i \in Jobs,
             \/ Take(i) \/ Launch(i) \/ Collect(i) \/ KillContainer(i)
             \/ KillTimesOut(i) \/ Drain(i) \/ Expire(i) \/ Watchdog(i)
             \/ Create(i) \/ End(i)
      PROVE  FALSE
  BY <1>4 DEF Take, Launch, Collect, KillContainer, KillTimesOut, Drain, Expire,
              Watchdog, WatchdogFires, WatchdogKills, WatchdogReturns, Create, End
<1>5. ~ UNCHANGED vars
  BY DEF vars
<1> QED
  BY <1>1, <1>2, <1>3, <1>4, <1>5 DEF Next, Thread

(* An answer not marked timed_out tells of a command that ended by itself, *)
(* or of a kill by the watchdog that Docker has not confirmed: the thread  *)
(* sets the flag before its own kill, and the finally block reads the      *)
(* watchdog's event.                                                       *)
THEOREM TimeoutIsHonest == Spec => HonestTimeout
<1>1. ASSUME IInv, [Next]_vars PROVE [\A j \in Jobs : Honest(j)]_vars
  <2> SUFFICES ASSUME NEW j \in Jobs, client[j] # "answered",
                      client'[j] = "answered", ~timed_out'[j]
               PROVE  box[j] = "ended" \/ watchdog[j] \in {"sent", "failed"}
    BY DEF Honest
  <2>1. TypeOK
    BY <1>1 DEF IInv
  <2>2. Cleanup(j) /\ thread[j] = "cleanup"
    BY <1>1, <2>1, AnsweredByCleanup
  <2>3. ~timed_out[j] /\ watchdog[j] # "fired"
    BY <2>1, <2>2 DEF Cleanup, TypeOK
  <2> QED
    BY <1>1, <2>2, <2>3 DEF IInv, ExitedFirst, KillersKnown, Exited
<1> QED
  BY <1>1, Invariant, PTL DEF Spec, HonestTimeout

(* A container that runs belongs to a thread that holds a slot, unless     *)
(* Docker did not answer that thread's docker kill.                        *)
THEOREM RunningHasSlot == Spec => []ContainersHaveSlots
<1>1. IInv => ContainersHaveSlots
  BY DEF IInv
<1> QED
  BY <1>1, Invariant, PTL

==============================================================================
