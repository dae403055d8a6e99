--------------------------- MODULE SandboxRunner ---------------------------
(***************************************************************************)
(* The sandbox service: requests wait for one of the executor's threads;   *)
(* the thread has Docker look for the image, starts `docker run`, waits    *)
(* for it under the primary timeout, kills the container when that expires *)
(* and waits on without a limit; a watchdog thread has a deadline and a    *)
(* kill of its own.  Docker creates containers in its own time, may refuse *)
(* a kill, and may not answer; the worker's HTTP client gives up when it   *)
(* has waited long enough.                                                 *)
(*                                                                         *)
(* Time is abstracted to the order of events: each of the two deadlines    *)
(* may fall at any moment after the launch, in any order.                  *)
(***************************************************************************)
EXTENDS Integers, Sequences, FiniteSets

CONSTANTS
    Jobs,    \* the requests
    Slots    \* threads of the executor (MAX_WORKERS)

ASSUME SandboxAssumption == Slots \in Nat \ {0}

VARIABLES
    endless,    \* the jobs whose command does not end by itself
    silent,     \* the jobs whose `docker image inspect` Docker never answers, so
                \* that their command is never reached
    client,     \* what the worker knows of its request
    queue,      \* the executor's queue
    thread,     \* where the job's thread is in run_job
    box,        \* the job's container
    watchdog,   \* the job's timer
    timed_out,  \* run_job's flag
    hung,       \* Docker did not answer the thread's kill
    vain        \* history, while a slot is held: whose kill found no container
                \* or did not end it

jobVars == <<endless, silent>>
vars == <<jobVars, client, queue, thread, box, watchdog, timed_out, hung, vain>>

\* "image": before docker run; "kill": about to call docker kill; "drain": in
\* communicate() without a limit; "raise": an exception is on its way; "wait",
\* "drain" and "raise" end in the cleanup.
Busy    == {"image", "wait", "kill", "drain", "cleanup", "raise"}
Threads == {"none", "queued", "over"} \cup Busy

\* "firing": the deadline has passed; "sent": docker kill was carried out or not,
\* and has not answered; "fired": it has, and the event is set; "failed": it has
\* not in ten seconds, and the event is never set.
Timers == {"off", "armed", "firing", "sent", "fired", "failed", "cancelled"}

\* `docker run` has exited.
Exited(j) == box[j] \in {"ended", "killed"}

Init ==
    /\ endless \in SUBSET Jobs
    /\ silent \in SUBSET (Jobs \ endless)
    /\ client = [j \in Jobs |-> "idle"]
    /\ queue = << >>
    /\ thread = [j \in Jobs |-> "none"]
    /\ box = [j \in Jobs |-> "none"]
    /\ watchdog = [j \in Jobs |-> "off"]
    /\ timed_out = [j \in Jobs |-> FALSE]
    /\ hung = [j \in Jobs |-> FALSE]
    /\ vain = [j \in Jobs |-> {}]

Goto(j, from, to) ==
    /\ thread[j] = from
    /\ thread' = [thread EXCEPT ![j] = to]

Wind(j, from, to) ==
    /\ watchdog[j] = from
    /\ watchdog' = [watchdog EXCEPT ![j] = to]

\* Mutant: a timeout gets an answer of its own.
ReplyTimeout(j, answer) ==
    client' = [client EXCEPT ![j] = IF timed_out[j] THEN "timed_out" ELSE answer]

\* The request ends; a client that has given up does not hear of it.
Reply(j, answer) ==
    client' = IF client[j] = "waiting" THEN [client EXCEPT ![j] = answer] ELSE client

\* docker kill ends a container that runs; it is in vain when there is none yet,
\* or when Docker refuses: nobody looks at its exit code.
Kill(j, who) ==
    \/ /\ box' = IF box[j] = "running" THEN [box EXCEPT ![j] = "killed"] ELSE box
       /\ vain' = IF box[j] = "none" THEN [vain EXCEPT ![j] = @ \cup {who}] ELSE vain
    \/ /\ box[j] = "running"
       /\ vain' = [vain EXCEPT ![j] = @ \cup {who}]
       /\ UNCHANGED box

-----------------------------------------------------------------------------
(* The client and the executor                                             *)

Submit(j) ==
    /\ client[j] = "idle"
    /\ client' = [client EXCEPT ![j] = "waiting"]
    /\ Goto(j, "none", "queued")
    /\ queue' = Append(queue, j)
    /\ UNCHANGED <<jobVars, box, watchdog, timed_out, hung, vain>>

GiveUp(j) ==
    /\ client[j] = "waiting"
    /\ client' = [client EXCEPT ![j] = "gave_up"]
    /\ UNCHANGED <<jobVars, queue, thread, box, watchdog, timed_out, hung, vain>>

\* Mutant: a thread that met an exception is not given back.
FreeSlotLeaking == Cardinality({j \in Jobs : thread[j] \in Busy \/ hung[j]}) < Slots

FreeSlot == Cardinality({j \in Jobs : thread[j] \in Busy}) < Slots

\* From here on the job holds a slot; docker image inspect has no timeout.
Take(j) ==
    /\ FreeSlot
    /\ queue # << >>
    /\ j = Head(queue)
    /\ queue' = Tail(queue)
    /\ Goto(j, "queued", "image")
    /\ UNCHANGED <<jobVars, client, box, watchdog, timed_out, hung, vain>>

\* The image is there, or was pulled, or could not be: docker run will see.
Launch(j) ==
    /\ j \notin silent
    /\ Goto(j, "image", "wait")
    /\ Wind(j, "off", "armed")
    /\ UNCHANGED <<jobVars, client, queue, box, timed_out, hung, vain>>

\* There is no Docker CLI, or the image was not pulled in time.
LaunchFails(j) ==
    /\ j \notin silent
    /\ Goto(j, "image", "over")
    /\ Reply(j, "refused")
    /\ UNCHANGED <<jobVars, queue, box, watchdog, timed_out, hung, vain>>

-----------------------------------------------------------------------------
(* Docker                                                                  *)

\* `docker run` pulls what is missing and creates the container, however long
\* that takes and whoever still waits for it, or it exits with an error.
Create(j) ==
    /\ watchdog[j] # "off"
    /\ box[j] = "none"
    /\ \E made \in {"running", "ended"} : box' = [box EXCEPT ![j] = made]
    /\ UNCHANGED <<jobVars, client, queue, thread, watchdog, timed_out, hung, vain>>

End(j) ==
    /\ box[j] = "running"
    /\ j \notin endless
    /\ box' = [box EXCEPT ![j] = "ended"]
    /\ UNCHANGED <<jobVars, client, queue, thread, watchdog, timed_out, hung, vain>>

-----------------------------------------------------------------------------
(* run_job                                                                 *)

Collect(j) ==
    /\ Exited(j)
    /\ Goto(j, "wait", "cleanup")
    /\ UNCHANGED <<jobVars, client, queue, box, watchdog, timed_out, hung, vain>>

Expire(j) ==
    /\ ~Exited(j)
    /\ Goto(j, "wait", "kill")
    /\ timed_out' = [timed_out EXCEPT ![j] = TRUE]
    /\ UNCHANGED <<jobVars, client, queue, box, watchdog, hung, vain>>

\* Mutant: the kill names another container.
KillNothing(j) ==
    /\ Goto(j, "kill", "drain")
    /\ UNCHANGED <<jobVars, client, queue, box, watchdog, timed_out, hung, vain>>

KillContainer(j) ==
    /\ Goto(j, "kill", "drain")
    /\ Kill(j, "thread")
    /\ UNCHANGED <<jobVars, client, queue, watchdog, timed_out, hung>>

\* docker kill takes longer than its own ten seconds: subprocess.run raises.
KillTimesOut(j) ==
    /\ Goto(j, "kill", "raise")
    /\ Kill(j, "thread")
    /\ hung' = [hung EXCEPT ![j] = TRUE]
    /\ UNCHANGED <<jobVars, client, queue, watchdog, timed_out>>

\* Mutant: the thread does not wait for docker run to exit.
DrainAtOnce(j) ==
    /\ Goto(j, "drain", "cleanup")
    /\ UNCHANGED <<jobVars, client, queue, box, watchdog, timed_out, hung, vain>>

Drain(j) ==
    /\ Exited(j)
    /\ Goto(j, "drain", "cleanup")
    /\ UNCHANGED <<jobVars, client, queue, box, watchdog, timed_out, hung, vain>>

\* docker rm -f: the container is gone already (--rm), is killed, or is not there
\* yet; a failure is swallowed.
Remove(j) ==
    /\ \/ box' = IF box[j] = "running" THEN [box EXCEPT ![j] = "killed"] ELSE box
       \/ UNCHANGED box
    /\ vain' = [vain EXCEPT ![j] = {}]

\* Mutant: what the watchdog did is not looked at.
CleanupUnaware(j) ==
    /\ \/ Goto(j, "cleanup", "over") /\ Reply(j, "answered")
       \/ Goto(j, "raise", "over") /\ Reply(j, "refused")
    /\ watchdog' = IF watchdog[j] = "armed" THEN [watchdog EXCEPT ![j] = "cancelled"]
                                            ELSE watchdog
    /\ Remove(j)
    /\ UNCHANGED <<jobVars, queue, timed_out, hung>>

\* The finally block, then the answer or the exception.  It cancels a timer that
\* has not fired, and asks whether the watchdog has finished its kill.
Cleanup(j) ==
    /\ \/ Goto(j, "cleanup", "over") /\ Reply(j, "answered")
       \/ Goto(j, "raise", "over") /\ Reply(j, "refused")
    /\ watchdog' = IF watchdog[j] = "armed" THEN [watchdog EXCEPT ![j] = "cancelled"]
                                            ELSE watchdog
    /\ timed_out' = [timed_out EXCEPT ![j] = @ \/ watchdog[j] = "fired"]
    /\ Remove(j)
    /\ UNCHANGED <<jobVars, queue, hung>>

-----------------------------------------------------------------------------
(* The watchdog: one shot, at its own deadline, whatever the thread has seen. *)

WatchdogFires(j) ==
    /\ Wind(j, "armed", "firing")
    /\ UNCHANGED <<jobVars, client, queue, thread, box, timed_out, hung, vain>>

WatchdogKills(j) ==
    /\ Wind(j, "firing", "sent")
    /\ Kill(j, "watchdog")
    /\ UNCHANGED <<jobVars, client, queue, thread, timed_out, hung>>

WatchdogReturns(j) ==
    /\ Wind(j, "sent", "fired") \/ Wind(j, "sent", "failed")
    /\ UNCHANGED <<jobVars, client, queue, thread, box, timed_out, hung, vain>>

Watchdog(j) == WatchdogFires(j) \/ WatchdogKills(j) \/ WatchdogReturns(j)

-----------------------------------------------------------------------------
Thread(j) == Take(j) \/ Launch(j) \/ Collect(j) \/ KillContainer(j)
             \/ KillTimesOut(j) \/ Drain(j) \/ Cleanup(j)

Next == \E j \in Jobs : \/ Submit(j) \/ GiveUp(j) \/ LaunchFails(j) \/ Thread(j)
                        \/ Expire(j) \/ Watchdog(j) \/ Create(j) \/ End(j)

\* Threads run, timers expire, Docker gets round to a container and a command
\* that ends does end.
Fairness == \A j \in Jobs : /\ WF_vars(Thread(j)) /\ WF_vars(Expire(j))
                            /\ WF_vars(Watchdog(j))
                            /\ WF_vars(Create(j)) /\ WF_vars(End(j))

Spec == Init /\ [][Next]_vars /\ Fairness

-----------------------------------------------------------------------------
\* Every variable stays in its type.
TypeOK ==
    /\ endless \subseteq Jobs /\ silent \subseteq Jobs
    /\ client \in [Jobs -> {"idle", "waiting", "answered", "refused", "gave_up"}]
    /\ queue \in Seq(Jobs)
    /\ thread \in [Jobs -> Threads]
    /\ box \in [Jobs -> {"none", "running", "ended", "killed"}]
    /\ watchdog \in [Jobs -> Timers]
    /\ timed_out \in [Jobs -> BOOLEAN]
    /\ hung \in [Jobs -> BOOLEAN]
    /\ vain \in [Jobs -> SUBSET {"thread", "watchdog"}]

\* An answer that is not marked as timed out, when it is given, tells of a command
\* that ended by itself, whichever of the two timers fired first; or Docker has not
\* confirmed the watchdog's kill (yet), which run_job cannot know of.
Honest(j) ==
    client[j] # "answered" /\ client'[j] = "answered" /\ ~timed_out'[j] =>
        box[j] = "ended" \/ watchdog[j] \in {"sent", "failed"}
HonestTimeout == [][\A j \in Jobs : Honest(j)]_vars

\* As long as Docker answers, a container that runs is one whose thread still
\* counts against the executor's slots, even when its client has gone and its
\* kill came before it was created.
ContainersHaveSlots ==
    \A j \in Jobs : box[j] = "running" => thread[j] \in Busy \/ hung[j]

\* A command that was started before its deadline leaves its slot, even if it is
\* endless, Docker does not answer a kill and nobody waits for the result, unless
\* both kills were in vain: that of the thread and that of the watchdog.
StartedJobsEnd ==
    \A j \in Jobs : (box[j] = "running" /\ ~timed_out[j])
                        ~> (thread[j] = "over" \/ vain[j] = {"thread", "watchdog"})

\* A request reaches the head of the queue and then a slot, unless every slot is
\* held for good: by a thread that waits for docker image inspect, or by one that
\* waits for an endless container which survived both kills, or came after them.
Stuck == {j \in Jobs : \/ thread[j] = "image" /\ j \in silent
                       \/ /\ thread[j] = "drain" /\ box[j] = "running" /\ j \in endless
                          /\ vain[j] = {"thread", "watchdog"}}
QueueDrains ==
    \A j \in Jobs :
        thread[j] = "queued" ~> (thread[j] # "queued" \/ Cardinality(Stuck) = Slots)
=============================================================================
