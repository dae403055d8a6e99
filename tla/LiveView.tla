------------------------------ MODULE LiveView ------------------------------
(***************************************************************************)
(* How a run reaches the eyes of a user: a worker writes the run's status, *)
(* steps and artifacts to Neon, over deliveries, failed writes and a dead  *)
(* letter; the API's event stream polls them, in three reads that are not  *)
(* one snapshot, and sends what is new; the run page merges the stream     *)
(* with answers to its own requests, which may arrive late and out of      *)
(* order, but do arrive.                                                   *)
(*                                                                         *)
(* The steps of the run are 1, 2, ... in the order they are logged.  The   *)
(* status "failed" goes the way of "succeeded" everywhere and is not       *)
(* distinguished from it.                                                  *)
(***************************************************************************)
EXTENDS Integers, Sequences, FiniteSets

CONSTANTS
    Outcomes,      \* the terminal statuses that persist may write
    MaxSteps,      \* bound: steps logged for the run, by all its deliveries
    MaxArtifacts,  \* bound: artifacts of the run
    MaxFaults,     \* bound: crashes and writes of an outcome that fail
    MaxDrops,      \* bound: connections that break
    MaxLate,       \* bound: events of earlier rounds still under way when one begins
    MaxFetches     \* requests the browser keeps under way at once

ASSUME LiveViewAssumption ==
    /\ Outcomes \subseteq {"succeeded", "error", "infra_error"}
    /\ {MaxSteps, MaxArtifacts, MaxFaults, MaxDrops} \subseteq Nat
    /\ MaxLate \in Nat
    /\ MaxFetches \in Nat \ {0}

VARIABLES
    wpc,        \* what the worker does next with the run
    again,      \* its job has been delivered before
    letter,     \* its dead letter and how far the reconciler is with it
    status,     \* the status of the run's row
    steps,      \* the number of its run_steps
    artifacts,  \* the number of its artifacts
    quiet,      \* its last step is older than the stale threshold
    had,        \* history: the outcomes the row has had
    reopened,   \* history: there was work left on a run whose row had an outcome
    spc,        \* what the stream reads next, or "closed"
    run,        \* the status the stream read in this round
    last,       \* last_status: the status it sent last
    seen,       \* how many steps and artifacts it has sent
    finished,   \* it has sent "done"
    wire,       \* events under way to the page
    page,       \* what the page shows
    asked,      \* the page's requests that the API has not answered
    reading,    \* the statuses read for requests whose steps are still to be read
    answers,    \* the answers that the page has not handled
    faults,     \* faults of the worker so far
    drops

workerVars == <<wpc, again, letter, status, steps, artifacts, quiet, had, reopened, faults>>
streamVars == <<spc, run, last, seen, finished>>
pageVars   == <<page, asked, reading, answers>>
vars       == <<workerVars, streamVars, wire, pageVars, drops>>

Terminal     == {"succeeded", "error", "infra_error"}
PageTerminal == {"succeeded", "error"}   \* the page's own list
Raw          == {"queued", "analyzing"} \cup Terminal
Shown        == Raw \cup {"stale"}

Nothing == [steps |-> 0, artifacts |-> 0]
Event(kind, st, raw, id) == [kind |-> kind, st |-> st, raw |-> raw, id |-> id]

\* A connection that is made tells the page so before anything else.
Opened == <<Event("open", "none", "none", 0)>>

Init ==
    /\ wpc = "begin" /\ again = FALSE /\ letter = "none"
    /\ status = "queued" /\ steps = 0 /\ artifacts = 0 /\ quiet = FALSE
    /\ had = {} /\ reopened = FALSE
    /\ spc = "run" /\ run = "queued" /\ last = "none" /\ seen = Nothing /\ finished = FALSE
    /\ wire = Opened
    /\ page = [status |-> "queued", raw |-> "queued", stale |-> FALSE, steps |-> {},
               stream |-> "connecting", ended |-> FALSE]
    /\ asked = 1 /\ reading = {} /\ answers = {}
    /\ faults = 0 /\ drops = 0

Fault == faults < MaxFaults /\ faults' = faults + 1

-----------------------------------------------------------------------------
(* The worker                                                              *)

\* The job's task takes a step; a pass of the reconciler would hold the loop.
WorkerStep(place, next) ==
    /\ wpc = place
    /\ letter # "reconciled"
    /\ wpc' = next
    /\ UNCHANGED <<again, streamVars, wire, pageVars, drops>>

SetStatus(st) == status' = st /\ had' = had \cup ({st} \cap Terminal)

\* A step is logged.
Log == steps < MaxSteps /\ steps' = steps + 1 /\ quiet' = FALSE

\* Every delivery logs a first step.
Start ==
    /\ WorkerStep("begin", "ingest")
    /\ Log
    /\ UNCHANGED <<letter, status, artifacts, had, reopened, faults>>

\* The first step may have been lost.  ingest marks the row, whatever it says, unless
\* it refuses the payload or the write fails, which is ignored.
Begin ==
    /\ wpc \in {"begin", "ingest"}
    /\ WorkerStep(wpc, "nodes")
    /\ \/ SetStatus("analyzing")
       \/ UNCHANGED <<status, had>>
    /\ UNCHANGED <<letter, steps, artifacts, quiet, reopened, faults>>

LogStep ==
    /\ WorkerStep("nodes", "nodes")
    /\ Log
    /\ UNCHANGED <<letter, status, artifacts, had, reopened, faults>>

\* A failed installation gives the row an outcome before persist is reached, unless
\* the write fails.  A delivery that resumes a thread may have another one to write.
InstallFails ==
    /\ WorkerStep("nodes", "failed")
    /\ \/ SetStatus("error") /\ reopened' = (reopened \/ again)
       \/ UNCHANGED <<status, had, reopened>>
    /\ UNCHANGED <<letter, steps, artifacts, quiet, faults>>

\* persist begins with the artifacts.  A run whose installation failed has a script
\* only from an earlier delivery.
RecordArtifact ==
    /\ artifacts < MaxArtifacts
    /\ \/ wpc \in {"nodes", "artifacts"} /\ WorkerStep(wpc, "artifacts")
       \/ wpc \in {"failed", "doomed"} /\ again /\ WorkerStep(wpc, "doomed")
    /\ artifacts' = artifacts + 1
    /\ UNCHANGED <<letter, status, steps, quiet, had, reopened, faults>>

\* The outcomes persist may have for the row.
Final == CASE wpc \in {"nodes", "artifacts"}           -> Outcomes
           [] wpc \in {"failed", "doomed"} /\ again   -> Outcomes \cup {"error"}
           [] wpc \in {"failed", "doomed"} /\ ~again  -> {"error"}
           [] OTHER                                   -> {}

WriteStatus ==
    /\ \E st \in Final : SetStatus(st)
    /\ WorkerStep(wpc, "log")
    /\ UNCHANGED <<letter, steps, artifacts, quiet, reopened, faults>>

\* The write fails, whether or not Neon commits it; the failure is to be recorded
\* over whatever the row says.
WriteFails ==
    /\ Final # {}
    /\ WorkerStep(wpc, "record")
    /\ Fault
    /\ \/ UNCHANGED <<status, had, reopened>>
       \/ \E st \in Final : SetStatus(st) /\ reopened' = (reopened \/ st # "error")
    /\ UNCHANGED <<letter, steps, artifacts, quiet>>

\* The failure is recorded; or Neon is still away, whether or not it commits that, and
\* the failure goes to the dead letter, for the reconciler to work on.
Record ==
    /\ WorkerStep("record", "log")
    /\ \/ SetStatus("error") /\ UNCHANGED <<letter, reopened>>
       \/ /\ letter' = "written"
          /\ SetStatus("error") \/ UNCHANGED <<status, had>>
          /\ reopened' = (reopened \/ status' \in Terminal)
    /\ UNCHANGED <<steps, artifacts, quiet, faults>>

\* persist logs its own step last, or fails to.
LogPersist ==
    /\ WorkerStep("log", "return")
    /\ Log \/ UNCHANGED <<steps, quiet>>
    /\ UNCHANGED <<letter, status, artifacts, had, reopened, faults>>

\* The job is over: complete, or failed where its task awaits.
Leave ==
    /\ wpc \in {"begin", "ingest", "nodes", "failed", "record", "return"}
    /\ WorkerStep(wpc, "over")
    /\ UNCHANGED <<letter, status, steps, artifacts, quiet, had, reopened, faults>>

\* The worker dies, in the middle of the reconciler's pass perhaps, which may have
\* logged its step.  A job that was under way is delivered again.
Crash ==
    /\ wpc \notin {"begin", "over"} \/ letter # "none"
    /\ Fault
    /\ wpc' = IF wpc = "over" THEN "over" ELSE "begin"
    /\ again' = (again \/ wpc \notin {"begin", "over"})
    /\ letter' = IF letter = "none" THEN "none" ELSE "written"
    /\ \/ letter = "reconciled" /\ Log
       \/ UNCHANGED <<steps, quiet>>
    /\ reopened' = (reopened \/ status \in Terminal \/ letter # "none")
    /\ UNCHANGED <<status, artifacts, had, streamVars, wire, pageVars, drops>>

\* A pass over the dead letters runs without an await, hence not in the middle of
\* persist.  It writes the row; a write that is not answered leaves the letter.
Reconcile ==
    /\ letter = "written"
    /\ wpc \notin {"artifacts", "doomed", "log"}
    /\ SetStatus("error")
    /\ \/ letter' = "reconciled" /\ UNCHANGED faults
       \/ Fault /\ UNCHANGED letter
    /\ UNCHANGED <<wpc, again, steps, artifacts, quiet, reopened, streamVars, wire, pageVars,
                   drops>>

\* It logs a step, or fails to, and removes the letter.
Unlink ==
    /\ letter = "reconciled"
    /\ letter' = "none"
    /\ Log \/ UNCHANGED <<steps, quiet>>
    /\ UNCHANGED <<wpc, again, status, artifacts, had, reopened, faults, streamVars, wire,
                   pageVars, drops>>

GoQuiet ==
    /\ ~quiet
    /\ steps > 0
    /\ status \notin Terminal
    /\ quiet' = TRUE
    /\ UNCHANGED <<wpc, again, letter, status, steps, artifacts, had, reopened, faults,
                   streamVars, wire, pageVars, drops>>

-----------------------------------------------------------------------------
(* The API                                                                 *)

\* A run is stale when it is not terminal and its last step is old; a run
\* without a step has no activity to be old.
Effective(st) == IF st \notin Terminal /\ steps > 0 /\ quiet THEN "stale" ELSE st

StatusEvents == IF Effective(run) # last
                THEN <<Event("status", Effective(run), run, 0)>> ELSE << >>
\* Mutant: one event too many.
NewsOffByOne(kind, from, to) ==
    [i \in 1 .. to - from + 1 |-> Event(kind, "none", "none", from + i)]

News(kind, from, to) == [i \in 1 .. to - from |-> Event(kind, "none", "none", from + i)]

ReadRun ==
    /\ spc = "run"
    /\ Len(wire) <= MaxLate
    /\ run' = status
    /\ spc' = "steps"
    /\ UNCHANGED <<workerVars, last, seen, finished, wire, pageVars, drops>>

ReadSteps ==
    /\ spc = "steps"
    /\ wire' = wire \o StatusEvents \o News("step", seen.steps, steps)
    /\ last' = Effective(run)
    /\ seen' = [seen EXCEPT !.steps = steps]
    /\ spc' = "artifacts"
    /\ UNCHANGED <<workerVars, run, finished, pageVars, drops>>

\* Mutant: the status is read again at the end of the round.
ReadArtifactsAfresh ==
    /\ spc = "artifacts"
    /\ LET ends == status \in Terminal
       IN  /\ wire' = wire \o News("artifact", seen.artifacts, artifacts)
                           \o (IF ends THEN <<Event("done", status, status, 0)>> ELSE << >>)
           /\ spc' = IF ends THEN "closed" ELSE "run"
           /\ finished' = ends
    /\ seen' = [seen EXCEPT !.artifacts = artifacts]
    /\ UNCHANGED <<workerVars, run, last, pageVars, drops>>

\* The round ends with "done" when the status it began with was terminal.
ReadArtifacts ==
    /\ spc = "artifacts"
    /\ LET ends == run \in Terminal
       IN  /\ wire' = wire \o News("artifact", seen.artifacts, artifacts)
                           \o (IF ends THEN <<Event("done", run, run, 0)>> ELSE << >>)
           /\ spc' = IF ends THEN "closed" ELSE "run"
           /\ finished' = ends
    /\ seen' = [seen EXCEPT !.artifacts = artifacts]
    /\ UNCHANGED <<workerVars, run, last, pageVars, drops>>

\* The members of bag are counted: of two that are alike the second is copy 2, and so
\* on.
Added(bag, x) ==
    {bag \cup {<<x, copy>>} : copy \in {c \in 1 .. MaxFetches :
        <<x, c>> \notin bag /\ (c = 1 \/ <<x, c - 1>> \in bag)}}
IsLast(bag, member) == <<member[1], member[2] + 1>> \notin bag

\* GET /api/runs/{id} reads the row, then the steps; requests are handled in threads.
AnswerRow ==
    /\ Cardinality(reading) < asked
    /\ reading' \in Added(reading, status)
    /\ UNCHANGED <<workerVars, streamVars, wire, page, asked, answers, drops>>

AnswerSteps ==
    /\ \E read \in reading :
          /\ IsLast(reading, read)
          /\ reading' = reading \ {read}
          /\ answers' \in Added(answers, [st |-> Effective(read[1]), raw |-> read[1],
                                          steps |-> steps])
    /\ asked' = asked - 1
    /\ UNCHANGED <<workerVars, streamVars, wire, page, drops>>

-----------------------------------------------------------------------------
(* The page                                                                *)

\* A new stream starts at place, or there is none ("closed").
Open(place) ==
    /\ spc' = place /\ run' = "queued" /\ last' = "none" /\ seen' = Nothing
    /\ finished' = FALSE
    /\ wire' = IF place = "run" THEN Opened ELSE << >>


\* The page comes to show p, with more requests to send and rest left on the wire.
\* Another status makes React run the effect again: it drops the connection,
\* asks for the details, and connects unless the stream has ended.
Render(p, more, rest) ==
    LET rerun == p.status # page.status \/ p.raw # page.raw
        sent  == more + (IF rerun THEN 1 ELSE 0)
    IN  /\ asked' = asked + sent
        /\ sent > 0 => asked' + Cardinality(answers') <= MaxFetches
        /\ page' = IF rerun /\ ~p.ended THEN [p EXCEPT !.stream = "connecting"] ELSE p
        /\ \/ rerun /\ Open(IF p.ended THEN "closed" ELSE "run")
           \/ ~rerun /\ wire' = rest /\ UNCHANGED streamVars

Show(st, raw) == [page EXCEPT !.status = st, !.raw = raw]

Receive ==
    /\ wire # << >>
    /\ UNCHANGED <<reading, answers>>
    /\ LET e == Head(wire)
       IN  \/ /\ e.kind = "open"
              /\ Render([page EXCEPT !.stream = "live"], 0, Tail(wire))
           \/ /\ e.kind = "status"
              /\ Render([Show(e.st, e.raw) EXCEPT !.stale = e.st = "stale"], 0, Tail(wire))
           \/ /\ e.kind = "step"
              /\ Render([page EXCEPT !.steps = @ \cup {e.id}], 0, Tail(wire))
           \/ /\ e.kind = "artifact"
              /\ Render(page, 0, Tail(wire))
           \/ /\ e.kind = "done"
              /\ Render([Show(e.st, e.raw) EXCEPT !.stream = "done", !.ended = TRUE],
                        1, << >>)
    /\ UNCHANGED <<workerVars, drops>>

\* An answer replaces what the page shows, the steps included.
HandleAnswer ==
    /\ \E answer \in answers :
         LET a == answer[1]
             p == [Show(a.st, a.raw) EXCEPT
                      !.stale = a.st = "stale",
                      !.steps = IF a.steps > 0 THEN 1 .. a.steps ELSE @]
         IN  /\ IsLast(answers, answer)
             /\ answers' = answers \ {answer}
             /\ Render(IF a.raw \in PageTerminal
                       THEN [p EXCEPT !.stream = "done", !.ended = TRUE] ELSE p, 0, wire)
    /\ UNCHANGED <<workerVars, reading, drops>>

\* Mutant: a page that shows a stale run takes the broken stream for its end.
DropTakingStaleForEnd ==
    /\ drops < MaxDrops
    /\ spc # "closed" \/ wire # << >>
    /\ drops' = drops + 1
    /\ Open("closed")
    /\ page' = IF {page.status, page.raw} \cap (PageTerminal \cup {"stale"}) # {}
               THEN [page EXCEPT !.stream = "done", !.ended = TRUE]
               ELSE [page EXCEPT !.stream = "disconnected"]
    /\ UNCHANGED <<workerVars, asked, reading, answers>>

\* The connection breaks while the stream is open or has events under way.
Drop ==
    /\ drops < MaxDrops
    /\ spc # "closed" \/ wire # << >>
    /\ drops' = drops + 1
    /\ Open("closed")
    /\ page' = IF {page.status, page.raw} \cap PageTerminal # {}
               THEN [page EXCEPT !.stream = "done", !.ended = TRUE]
               ELSE [page EXCEPT !.stream = "disconnected"]
    /\ UNCHANGED <<workerVars, asked, reading, answers>>

\* The user asks for it; connectSSE does nothing once the stream has ended.
Reconnect ==
    /\ page.stream = "disconnected"
    /\ ~page.ended
    /\ Open("run")
    /\ page' = [page EXCEPT !.stream = "connecting"]
    /\ UNCHANGED <<workerVars, asked, reading, answers, drops>>

-----------------------------------------------------------------------------
Worker == \/ Start \/ Begin \/ LogStep \/ InstallFails \/ RecordArtifact
          \/ WriteStatus \/ WriteFails \/ Record \/ LogPersist \/ Leave
Reconciler == Reconcile \/ Unlink
Stream == ReadRun \/ ReadSteps \/ ReadArtifacts
API == AnswerRow \/ AnswerSteps

Next == Worker \/ Crash \/ Reconciler \/ GoQuiet \/ Stream \/ API \/ Receive \/ HandleAnswer
        \/ Drop \/ Reconnect

\* Every job ends within Arq's time limit, the reconciler wakes every minute and time
\* passes; the API's loop serves the stream and every request, and the browser handles
\* what arrives.  No fault is fair and the user need not reconnect.
Fairness ==
    /\ WF_vars(Worker \/ Reconciler \/ GoQuiet)
    /\ WF_vars(Stream) /\ WF_vars(API)
    /\ WF_vars(Receive \/ HandleAnswer)

Spec == Init /\ [][Next]_vars /\ Fairness

-----------------------------------------------------------------------------
Message ==
    [kind: {"open"}, st: {"none"}, raw: {"none"}, id: {0}]
      \cup [kind: {"status", "done"}, st: Shown, raw: Raw, id: {0}]
      \cup [kind: {"step"}, st: {"none"}, raw: {"none"}, id: 1 .. MaxSteps]
      \cup [kind: {"artifact"}, st: {"none"}, raw: {"none"}, id: 1 .. MaxArtifacts]

\* Every variable stays in its type, and the page's requests within their bound.
TypeOK ==
    /\ wpc \in {"begin", "ingest", "nodes", "failed", "artifacts", "doomed", "record", "log",
               "return", "over"}
    /\ letter \in {"none", "written", "reconciled"}
    /\ status \in Raw /\ run \in Raw
    /\ steps \in 0 .. MaxSteps
    /\ artifacts \in 0 .. MaxArtifacts
    /\ {again, quiet, reopened, finished} \subseteq BOOLEAN
    /\ had \subseteq Terminal
    /\ spc \in {"run", "steps", "artifacts", "closed"}
    /\ last \in Shown \cup {"none"}
    /\ seen \in [steps: 0 .. MaxSteps, artifacts: 0 .. MaxArtifacts]
    /\ page \in [status: Shown, raw: Raw, stale: BOOLEAN, steps: SUBSET (1 .. MaxSteps),
                 stream: {"connecting", "live", "done", "disconnected"}, ended: BOOLEAN]
    /\ wire \in Seq(Message)
    /\ reading \subseteq Raw \X (1 .. MaxFetches)
    /\ answers \subseteq [st: Shown, raw: Raw, steps: 0 .. MaxSteps] \X (1 .. MaxFetches)
    /\ asked \in Nat /\ Cardinality(reading) <= asked
    /\ asked + Cardinality(answers) <= MaxFetches
    /\ faults \in 0 .. MaxFaults /\ drops \in 0 .. MaxDrops

\* "done" closes a stream that has sent every artifact the run will ever have and
\* every step but one, at most, that persist or the reconciler logs after the terminal
\* status, although status, steps and artifacts are read at different moments; and
\* the status it was sent for is the row's.  It does so unless the worker came back
\* to a run whose row had its outcome: after a redelivery, or to record that a
\* write which Neon had committed failed.  A failed installation, after which
\* persist writes the outcome a second time, is no such case in a first delivery.
DoneMissesAtMostPersist ==
    finished /\ ~reopened => /\ seen.artifacts = artifacts
                             /\ seen.steps \in {steps, steps - 1}
                             /\ run = status

\* However late events and answers come, wherever a connection breaks and whatever
\* becomes of the row: the page shows no outcome the row has not had, no step that was
\* not logged, and takes the stream for ended only when the run had come to an
\* outcome, and then never asks for a reconnection.  Without work on a run that
\* has its outcome, the outcome shown is the row's.
PageIsTruthful ==
    /\ page.status \in {page.raw, "stale"}
    /\ page.raw \in Terminal => /\ page.status = page.raw
                                /\ page.raw \in had
                                /\ page.raw = status \/ reopened
    /\ page.steps \subseteq 1 .. steps
    /\ page.ended => had # {} /\ page.stream # "disconnected"

\* What a settled run is to be shown as: its outcome, or that it is stuck.
Settled == IF status \in Terminal THEN status ELSE IF steps > 0 THEN "stale" ELSE status

=============================================================================
