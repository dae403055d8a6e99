--------------------------- MODULE LiveViewProofs ---------------------------
(***************************************************************************)
(* Proofs about LiveView for every set of outcomes and every bound on      *)
(* steps, artifacts, faults, broken connections and requests.              *)
(***************************************************************************)
EXTENDS LiveView, FiniteSetTheorems, TLAPS

-----------------------------------------------------------------------------
(* The inductive invariant, one part per actor                             *)

\* Until work is left on a run whose row has an outcome, an outcome in the row means
\* that the worker is done with it, or is about to write the failure it already says;
\* and a dead letter means that the worker has returned, or is about to.
Undisturbed ==
    /\ status \in Terminal =>
          /\ wpc \in {"failed", "record", "log", "return", "over"}
          /\ wpc = "failed" => ~again
          /\ wpc \in {"failed", "record"} \/ letter # "none" => status = "error"
    /\ letter # "none" =>
          /\ wpc \in {"log", "return", "over"}
          /\ wpc = "log" => status \notin Terminal

WorkerFits ==
    /\ wpc \in {"begin", "ingest", "nodes", "failed", "artifacts", "doomed", "record", "log",
               "return", "over"}
    /\ letter \in {"none", "written", "reconciled"}
    /\ again \in BOOLEAN /\ quiet \in BOOLEAN /\ reopened \in BOOLEAN
    /\ status \in Raw /\ had \subseteq Terminal
    /\ steps \in 0 .. MaxSteps /\ artifacts \in 0 .. MaxArtifacts
    /\ status \in Terminal => status \in had
    /\ wpc = "doomed" => again
    /\ ~reopened => Undisturbed

\* One more step is to be logged, at most: by persist, or for the dead letter.
Pending == wpc \in {"failed", "record", "log"} \/ letter # "none"

\* Every step has been sent but, at most, that one.
AllButLast == seen.steps = steps \/ (~Pending /\ seen.steps = steps - 1)

\* A terminal status that the stream has read is final: what it reads afterwards
\* is all there will be.
RoundFits ==
    /\ finished => spc = "closed"
    /\ ~reopened =>
          /\ run \in Terminal => run = status
          /\ run \in Terminal /\ spc = "artifacts" => AllButLast
          /\ finished => run \in Terminal /\ seen.artifacts = artifacts /\ AllButLast

\* The stream has sent nothing that is not there.
Counts == [steps: 0 .. MaxSteps, artifacts: 0 .. MaxArtifacts]

StreamFits ==
    /\ spc \in {"run", "steps", "artifacts", "closed"} /\ run \in Raw
    /\ last \in Shown \cup {"none"} /\ finished \in BOOLEAN
    /\ seen \in Counts /\ seen.steps <= steps /\ seen.artifacts <= artifacts
    /\ RoundFits

\* The page's requests stay within their bound, and the API reads for no more of them
\* than there are.
Contents == [st: Shown, raw: Raw, steps: 0 .. MaxSteps]
Page     == [status: Shown, raw: Raw, stale: BOOLEAN, steps: SUBSET (1 .. MaxSteps),
             stream: {"connecting", "live", "done", "disconnected"}, ended: BOOLEAN]

ReadingFits(n, rs) ==
    /\ rs \subseteq Raw \X (1 .. MaxFetches) /\ IsFiniteSet(rs)
    /\ Cardinality(rs) <= n

RequestsFit(n, as) ==
    /\ n \in Nat /\ as \subseteq Contents \X (1 .. MaxFetches) /\ IsFiniteSet(as)
    /\ n + Cardinality(as) <= MaxFetches

WireFits == wire \in Seq(Message)

IInv == /\ WorkerFits /\ StreamFits /\ WireFits
        /\ page \in Page /\ RequestsFit(asked, answers) /\ ReadingFits(asked, reading)
        /\ faults \in 0 .. MaxFaults /\ drops \in 0 .. MaxDrops

LEMMA BoundTypes ==
    /\ MaxSteps \in Nat /\ MaxArtifacts \in Nat /\ MaxFaults \in Nat /\ MaxDrops \in Nat
    /\ MaxFetches \in Nat \ {0}
    /\ Outcomes \subseteq {"succeeded", "error", "infra_error"}
  BY LiveViewAssumption

LEMMA InvariantTypes == IInv => TypeOK
  <1> SUFFICES ASSUME IInv PROVE TypeOK
    OBVIOUS
  <1>1. WorkerFits /\ StreamFits /\ WireFits /\ page \in Page
        /\ RequestsFit(asked, answers) /\ ReadingFits(asked, reading)
        /\ faults \in 0 .. MaxFaults /\ drops \in 0 .. MaxDrops
    BY DEF IInv
  <1>2. page \in [status: Shown, raw: Raw, stale: BOOLEAN, steps: SUBSET (1 .. MaxSteps),
                  stream: {"connecting", "live", "done", "disconnected"}, ended: BOOLEAN]
    BY <1>1 DEF Page
  <1>3. /\ answers \subseteq [st: Shown, raw: Raw, steps: 0 .. MaxSteps] \X (1 .. MaxFetches)
        /\ asked \in Nat /\ asked + Cardinality(answers) <= MaxFetches
    BY <1>1 DEF RequestsFit, Contents
  <1>4. reading \subseteq Raw \X (1 .. MaxFetches) /\ Cardinality(reading) <= asked
    BY <1>1 DEF ReadingFits
  <1>5. {again, quiet, reopened, finished} \subseteq BOOLEAN
    BY <1>1 DEF WorkerFits, StreamFits
  <1>6. QED
    BY <1>1, <1>2, <1>3, <1>4, <1>5 DEF TypeOK, WorkerFits, StreamFits, WireFits, Counts

LEMMA InvariantDone == IInv => DoneMissesAtMostPersist
  <1> SUFFICES ASSUME IInv, finished, ~reopened
               PROVE  /\ seen.artifacts = artifacts
                      /\ seen.steps \in {steps, steps - 1}
                      /\ run = status
    BY DEF DoneMissesAtMostPersist
  <1>1. StreamFits
    BY DEF IInv
  <1>2. QED
    BY <1>1 DEF StreamFits, RoundFits, AllButLast

-----------------------------------------------------------------------------
(* The worker                                                              *)

\* What a step of the worker does to what the others rely on: nothing is taken back,
\* and after an outcome only one step is added, unless the run is worked on again.
OnlyLastStep ==
    /\ status' = status /\ artifacts' = artifacts
    /\ \/ steps' = steps /\ (Pending' => Pending)
       \/ Pending /\ ~Pending' /\ steps' = steps + 1

WorkerEffect ==
    /\ WorkerFits'
    /\ steps <= steps' /\ artifacts <= artifacts'
    /\ had \subseteq had' /\ (reopened => reopened')
    /\ status \in Terminal /\ ~reopened' => OnlyLastStep

LEMMA FinalFits ==
    /\ Final \subseteq Terminal
    /\ Final # {} => wpc \in {"nodes", "artifacts", "failed", "doomed"}
    /\ wpc = "failed" /\ ~again => Final = {"error"}
  BY BoundTypes DEF Final, Terminal

\* A step is logged, or is not.
LEMMA LogFits ==
    ASSUME WorkerFits, Log \/ UNCHANGED <<steps, quiet>>
    PROVE  steps' \in 0 .. MaxSteps /\ steps' \in {steps, steps + 1} /\ quiet' \in BOOLEAN
  <1>1. steps' \in 0 .. MaxSteps /\ steps' \in {steps, steps + 1}
    BY BoundTypes DEF WorkerFits, Log
  <1>2. quiet' \in BOOLEAN
    BY DEF WorkerFits, Log
  <1>3. QED
    BY <1>1, <1>2

LEMMA WorkerSteps ==
    ASSUME WorkerFits, Worker \/ Crash \/ Reconciler \/ GoQuiet
    PROVE  WorkerEffect
  <1> USE BoundTypes DEF WorkerEffect, WorkerFits, Undisturbed, OnlyLastStep, Pending, SetStatus,
                         Raw, Terminal
  <1>0. steps \in Int /\ artifacts \in Int
    OBVIOUS
  <1>1. CASE Start
    <2>1. /\ wpc = "begin" /\ wpc' = "ingest" /\ letter # "reconciled"
          /\ UNCHANGED <<again, letter, status, artifacts, had, reopened>>
      BY <1>1 DEF Start, WorkerStep
    <2>2. steps' \in 0 .. MaxSteps /\ steps' \in {steps, steps + 1} /\ quiet' \in BOOLEAN
      BY <1>1, LogFits DEF Start
    <2>3. QED
      BY <1>0, <2>1, <2>2
  <1>2. CASE Begin
    <2>1. /\ wpc \in {"begin", "ingest"} /\ wpc' = "nodes"
          /\ UNCHANGED <<again, letter, steps, artifacts, quiet, reopened>>
          /\ \/ status' = "analyzing" /\ had' = had \cup ({"analyzing"} \cap Terminal)
             \/ UNCHANGED <<status, had>>
      BY <1>2 DEF Begin, WorkerStep
    <2>2. ~reopened => letter = "none" /\ status \notin Terminal
      BY <2>1
    <2>3. /\ had \subseteq had' /\ had' \subseteq Terminal
          /\ status' = status \/ status' = "analyzing"
      BY <2>1
    <2>4. QED
      BY <1>0, <2>1, <2>2, <2>3
  <1>3. CASE LogStep
    <2>1. /\ wpc = "nodes" /\ wpc' = "nodes" /\ letter # "reconciled"
          /\ UNCHANGED <<again, letter, status, artifacts, had, reopened>>
      BY <1>3 DEF LogStep, WorkerStep
    <2>2. steps' \in 0 .. MaxSteps /\ steps' \in {steps, steps + 1} /\ quiet' \in BOOLEAN
      BY <1>3, LogFits DEF LogStep
    <2>3. QED
      BY <1>0, <2>1, <2>2
  <1>4. CASE InstallFails
    <2>1. /\ wpc = "nodes" /\ wpc' = "failed"
          /\ UNCHANGED <<again, letter, steps, artifacts, quiet>>
          /\ \/ status' = "error" /\ had' = had \cup {"error"} /\ reopened' = (reopened \/ again)
             \/ UNCHANGED <<status, had, reopened>>
      BY <1>4 DEF InstallFails, WorkerStep
    <2>2. ~reopened => letter = "none" /\ status \notin Terminal
      BY <2>1
    <2>3. reopened' \in BOOLEAN /\ (reopened => reopened')
      BY <2>1
    <2>4. ~reopened' => Undisturbed'
      BY <2>1, <2>2, <2>3
    <2>5. status \in Terminal /\ ~reopened' => OnlyLastStep
      BY <2>1, <2>2, <2>3
    <2>6. /\ status' \in Raw /\ had' \subseteq Terminal /\ had \subseteq had'
          /\ status' \in Terminal => status' \in had'
      BY <2>1
    <2>7. /\ steps' \in 0 .. MaxSteps /\ artifacts' \in 0 .. MaxArtifacts
          /\ steps <= steps' /\ artifacts <= artifacts'
      BY <1>0, <2>1, <2>2
    <2>8. again' \in BOOLEAN /\ quiet' \in BOOLEAN /\ wpc' # "doomed"
      BY <2>1, <2>2
    <2> HIDE DEF Undisturbed, OnlyLastStep, Pending, Raw, Terminal
    <2>9. QED
      BY <2>1, <2>3, <2>4, <2>5, <2>6, <2>7, <2>8
  <1>5. CASE RecordArtifact
    <2>1. /\ wpc \in {"nodes", "artifacts", "failed", "doomed"}
          /\ wpc' \in {"artifacts", "doomed"} /\ (wpc' = "doomed" => again)
          /\ wpc = "failed" => again
          /\ UNCHANGED <<again, letter, status, steps, quiet, had, reopened>>
          /\ artifacts < MaxArtifacts /\ artifacts' = artifacts + 1
      BY <1>5 DEF RecordArtifact, WorkerStep
    <2>2. artifacts' \in 0 .. MaxArtifacts /\ artifacts <= artifacts'
      BY <2>1
    <2>3. ~reopened => letter = "none" /\ status \notin Terminal
      BY <2>1
    <2>4. QED
      BY <2>1, <2>2, <2>3
  <1>6. CASE WriteStatus
    <2>1. /\ wpc \in {"nodes", "artifacts", "failed", "doomed"} /\ wpc' = "log"
          /\ UNCHANGED <<again, letter, steps, artifacts, quiet, reopened>>
          /\ status' \in Terminal /\ had' = had \cup {status'}
          /\ wpc = "failed" /\ ~again => status' = "error"
      BY <1>6, FinalFits DEF WriteStatus, WorkerStep
    <2>2. ~reopened => /\ letter = "none"
                       /\ status \in Terminal => status' = status
      BY <2>1
    <2>3. QED
      BY <2>1, <2>2
  <1>7. CASE WriteFails
    <2>1. /\ wpc \in {"nodes", "artifacts", "failed", "doomed"} /\ wpc' = "record"
          /\ UNCHANGED <<again, letter, steps, artifacts, quiet>>
          /\ \/ UNCHANGED <<status, had, reopened>>
             \/ /\ status' \in Terminal /\ had' = had \cup {status'}
                /\ reopened' = (reopened \/ status' # "error")
      BY <1>7, FinalFits DEF WriteFails, WorkerStep
    <2>2. ~reopened => letter = "none" /\ (status \in Terminal => status = "error")
      BY <2>1
    <2>3. reopened' \in BOOLEAN /\ (reopened => reopened')
      <3>1. CASE UNCHANGED reopened
        BY <3>1
      <3>2. CASE reopened' = (reopened \/ status' # "error")
        BY <3>2
      <3>3. QED
        BY <2>1, <3>1, <3>2
    <2>4. ~reopened' => Undisturbed'
      BY <2>1, <2>2, <2>3
    <2>5. status \in Terminal /\ ~reopened' => OnlyLastStep
      BY <2>1, <2>2, <2>3
    <2>6. /\ status' \in Raw /\ had' \subseteq Terminal /\ had \subseteq had'
          /\ status' \in Terminal => status' \in had'
      BY <2>1
    <2>7. /\ steps' \in 0 .. MaxSteps /\ artifacts' \in 0 .. MaxArtifacts
          /\ steps <= steps' /\ artifacts <= artifacts'
      BY <1>0, <2>1, <2>2
    <2>8. again' \in BOOLEAN /\ quiet' \in BOOLEAN /\ wpc' # "doomed"
      BY <2>1, <2>2
    <2> HIDE DEF Undisturbed, OnlyLastStep, Pending, Raw, Terminal
    <2>9. QED
      BY <2>1, <2>3, <2>4, <2>5, <2>6, <2>7, <2>8
  <1>8. CASE Record
    <2>1. /\ wpc = "record" /\ wpc' = "log"
          /\ UNCHANGED <<again, steps, artifacts, quiet>>
          /\ \/ status' = "error" /\ had' = had \cup {"error"} /\ UNCHANGED <<letter, reopened>>
             \/ /\ letter' = "written"
                /\ \/ status' = "error" /\ had' = had \cup {"error"}
                   \/ UNCHANGED <<status, had>>
                /\ reopened' = (reopened \/ status' \in Terminal)
      BY <1>8 DEF Record, WorkerStep
    <2>2. ~reopened => letter = "none" /\ (status \in Terminal => status = "error")
      BY <2>1
    <2>3. reopened' \in BOOLEAN /\ (reopened => reopened')
      BY <2>1
    <2>4. ~reopened' => Undisturbed'
      BY <2>1, <2>2, <2>3
    <2>5. status \in Terminal /\ ~reopened' => OnlyLastStep
      BY <2>1, <2>2, <2>3
    <2>6. /\ status' \in Raw /\ had' \subseteq Terminal /\ had \subseteq had'
          /\ status' \in Terminal => status' \in had'
      BY <2>1
    <2>7. /\ steps' \in 0 .. MaxSteps /\ artifacts' \in 0 .. MaxArtifacts
          /\ steps <= steps' /\ artifacts <= artifacts'
      BY <1>0, <2>1, <2>2
    <2>8. again' \in BOOLEAN /\ quiet' \in BOOLEAN /\ wpc' # "doomed"
      BY <2>1, <2>2
    <2> HIDE DEF Undisturbed, OnlyLastStep, Pending, Raw, Terminal
    <2>9. QED
      BY <2>1, <2>3, <2>4, <2>5, <2>6, <2>7, <2>8
  <1>9. CASE LogPersist
    <2>1. /\ wpc = "log" /\ wpc' = "return"
          /\ UNCHANGED <<again, letter, status, artifacts, had, reopened>>
      BY <1>9 DEF LogPersist, WorkerStep
    <2>2. steps' \in 0 .. MaxSteps /\ steps' \in {steps, steps + 1} /\ quiet' \in BOOLEAN
      BY <1>9, LogFits DEF LogPersist
    <2>3. QED
      BY <1>0, <2>1, <2>2
  <1>10. CASE Leave
    BY <1>10 DEF Leave, WorkerStep
  <1>11. CASE Crash
    <2>1. /\ wpc' \in {"over", "begin"} /\ again' \in BOOLEAN
          /\ UNCHANGED <<status, artifacts, had>>
          /\ letter' \in {"none", "written"} /\ (letter = "none" => letter' = "none")
          /\ reopened' = (reopened \/ status \in Terminal \/ letter # "none")
      BY <1>11 DEF Crash
    <2>2. steps' \in 0 .. MaxSteps /\ steps' \in {steps, steps + 1} /\ quiet' \in BOOLEAN
      BY <1>11, LogFits DEF Crash
    <2>3. reopened' \in BOOLEAN /\ (reopened => reopened')
      BY <2>1
    <2>4. ~reopened' => Undisturbed'
      BY <2>1, <2>2, <2>3
    <2>5. status \in Terminal /\ ~reopened' => OnlyLastStep
      BY <2>1
    <2>6. /\ status' \in Raw /\ had' \subseteq Terminal /\ had \subseteq had'
          /\ status' \in Terminal => status' \in had'
      BY <2>1
    <2>7. /\ steps' \in 0 .. MaxSteps /\ artifacts' \in 0 .. MaxArtifacts
          /\ steps <= steps' /\ artifacts <= artifacts'
      BY <1>0, <2>1, <2>2
    <2>8. again' \in BOOLEAN /\ quiet' \in BOOLEAN /\ wpc' # "doomed"
      BY <2>1, <2>2
    <2> HIDE DEF Undisturbed, OnlyLastStep, Pending, Raw, Terminal
    <2>9. QED
      BY <2>1, <2>3, <2>4, <2>5, <2>6, <2>7, <2>8
  <1>12. CASE Reconcile
    <2>1. /\ letter = "written" /\ letter' \in {"written", "reconciled"}
          /\ wpc \notin {"artifacts", "doomed", "log"}
          /\ status' = "error" /\ had' = had \cup {"error"}
          /\ UNCHANGED <<wpc, again, steps, artifacts, quiet, reopened>>
      BY <1>12 DEF Reconcile
    <2>2. QED
      BY <2>1
  <1>13. CASE Unlink
    <2>1. /\ letter = "reconciled" /\ letter' = "none"
          /\ UNCHANGED <<wpc, again, status, artifacts, had, reopened>>
      BY <1>13 DEF Unlink
    <2>2. steps' \in 0 .. MaxSteps /\ steps' \in {steps, steps + 1} /\ quiet' \in BOOLEAN
      BY <1>13, LogFits DEF Unlink
    <2>3. QED
      BY <1>0, <2>1, <2>2
  <1>14. CASE GoQuiet
    BY <1>14 DEF GoQuiet
  <1>15. QED
    BY <1>1, <1>2, <1>3, <1>4, <1>5, <1>6, <1>7, <1>8, <1>9, <1>10, <1>11, <1>12, <1>13, <1>14
       DEF Worker, Reconciler

\* What the stream relies on outlives every such step.
LEMMA StreamKept ==
    ASSUME WorkerFits, StreamFits, WorkerEffect, UNCHANGED streamVars
    PROVE  StreamFits'
  <1>1. /\ spc' = spc /\ run' = run /\ last' = last /\ seen' = seen /\ finished' = finished
    BY DEF streamVars
  <1>2. /\ steps \in Int /\ steps' \in Int /\ artifacts \in Int /\ artifacts' \in Int
        /\ seen.steps \in Int /\ seen.artifacts \in Int
    BY BoundTypes DEF WorkerEffect, WorkerFits, StreamFits, Counts
  <1>3. seen'.steps <= steps' /\ seen'.artifacts <= artifacts'
    BY <1>1, <1>2 DEF StreamFits, WorkerEffect
  <1>4. RoundFits'
    <2>1. CASE reopened'
      BY <1>1, <2>1 DEF StreamFits, RoundFits
    <2>2. CASE ~reopened' /\ run \in Terminal
      <3>1. ~reopened /\ status \in Terminal /\ run = status
        BY <2>2 DEF WorkerEffect, StreamFits, RoundFits
      <3>2. OnlyLastStep
        BY <2>2, <3>1 DEF WorkerEffect
      <3>3. AllButLast => AllButLast'
        BY <1>1, <1>2, <3>2 DEF AllButLast, OnlyLastStep
      <3>4. QED
        BY <1>1, <3>1, <3>2, <3>3 DEF StreamFits, RoundFits, OnlyLastStep
    <2>3. CASE ~reopened' /\ run \notin Terminal
      BY <1>1, <2>3 DEF WorkerEffect, StreamFits, RoundFits
    <2>4. QED
      BY <2>1, <2>2, <2>3
  <1>5. QED
    BY <1>1, <1>3, <1>4 DEF StreamFits

\* Such a step concerns nobody else.
LEMMA WorkerAlone ==
    ASSUME Worker \/ Crash \/ Reconciler \/ GoQuiet
    PROVE  UNCHANGED <<streamVars, wire, pageVars, drops>>
  BY DEF Worker, Start, Begin, LogStep, InstallFails, RecordArtifact, WriteStatus, WriteFails,
         Record, LogPersist, Leave, WorkerStep, Crash, Reconciler, Reconcile, Unlink, GoQuiet

LEMMA FaultsFit ==
    ASSUME faults \in 0 .. MaxFaults, Worker \/ Crash \/ Reconciler \/ GoQuiet
    PROVE  faults' \in 0 .. MaxFaults
  <1>1. UNCHANGED faults \/ Fault
    BY DEF Worker, Start, Begin, LogStep, InstallFails, RecordArtifact, WriteStatus, WriteFails,
           Record, LogPersist, Leave, Crash, Reconciler, Reconcile, Unlink, GoQuiet
  <1>2. QED
    BY <1>1, BoundTypes DEF Fault

LEMMA WorkerKeepsInvariant == IInv /\ (Worker \/ Crash \/ Reconciler \/ GoQuiet) => IInv'
  <1> SUFFICES ASSUME IInv, Worker \/ Crash \/ Reconciler \/ GoQuiet PROVE IInv'
    OBVIOUS
  <1>1. WorkerEffect
    BY WorkerSteps DEF IInv
  <1>2. UNCHANGED <<streamVars, wire, pageVars, drops>>
    BY WorkerAlone
  <1>3. StreamFits'
    BY <1>1, <1>2, StreamKept DEF IInv
  <1>4. faults' \in 0 .. MaxFaults
    BY FaultsFit DEF IInv
  <1>5. QED
    BY <1>1, <1>2, <1>3, <1>4 DEF IInv, WorkerEffect, WireFits, pageVars

-----------------------------------------------------------------------------
(* The event stream                                                        *)

\* What the stream sends are messages the page can handle.
LEMMA NewsFits ==
    ASSUME NEW from \in Nat, NEW to \in Nat, from <= to
    PROVE  /\ to <= MaxSteps => News("step", from, to) \in Seq(Message)
           /\ to <= MaxArtifacts => News("artifact", from, to) \in Seq(Message)
  <1>1. to - from \in Nat
    OBVIOUS
  <1>2. ASSUME NEW i \in 1 .. to - from PROVE from + i \in 1 .. to
    OBVIOUS
  <1>3. ASSUME to <= MaxSteps, NEW i \in 1 .. to - from
        PROVE  Event("step", "none", "none", from + i) \in Message
    <2>1. from + i \in 1 .. MaxSteps
      BY <1>2, <1>3, BoundTypes
    <2>2. QED
      BY <2>1 DEF Message, Event
  <1>4. ASSUME to <= MaxArtifacts, NEW i \in 1 .. to - from
        PROVE  Event("artifact", "none", "none", from + i) \in Message
    <2>1. from + i \in 1 .. MaxArtifacts
      BY <1>2, <1>4, BoundTypes
    <2>2. QED
      BY <2>1 DEF Message, Event
  <1>5. QED
    BY <1>1, <1>3, <1>4 DEF News

LEMMA StatusFits ==
    ASSUME NEW st \in Raw, NEW raw \in Raw, NEW kind \in {"status", "done"}
    PROVE  /\ Effective(st) \in Shown
           /\ Event(kind, st, raw, 0) \in Message
           /\ Event(kind, Effective(st), raw, 0) \in Message
  <1>1. st \in Shown /\ Effective(st) \in Shown
    BY DEF Effective, Shown
  <1>2. ASSUME NEW shown \in Shown PROVE Event(kind, shown, raw, 0) \in Message
    BY <1>2 DEF Event, Message
  <1>3. QED
    BY <1>1, <1>2

\* The three reads of a round.
LEMMA StreamSteps ==
    ASSUME IInv, Stream
    PROVE  StreamFits' /\ WireFits'
  <1>1. /\ WorkerFits /\ StreamFits /\ wire \in Seq(Message)
    BY DEF IInv, WireFits
  <1>2. /\ steps \in Nat /\ artifacts \in Nat /\ steps <= MaxSteps /\ artifacts <= MaxArtifacts
        /\ seen.steps \in Nat /\ seen.artifacts \in Nat
        /\ seen.steps <= steps /\ seen.artifacts <= artifacts
        /\ status \in Raw /\ run \in Raw
    BY <1>1, BoundTypes DEF WorkerFits, StreamFits, Counts
  <1>3. CASE ReadRun
    <2>1. /\ spc = "run" /\ spc' = "steps" /\ run' = status
          /\ UNCHANGED <<workerVars, last, seen, finished, wire>>
      BY <1>3 DEF ReadRun
    <2>2. RoundFits'
      BY <1>1, <2>1 DEF StreamFits, RoundFits, workerVars
    <2>3. QED
      BY <1>1, <1>2, <2>1, <2>2 DEF StreamFits, WireFits, workerVars
  <1>4. CASE ReadSteps
    <2>1. /\ spc = "steps" /\ spc' = "artifacts" /\ last' = Effective(run)
          /\ seen' = [seen EXCEPT !.steps = steps]
          /\ wire' = wire \o StatusEvents \o News("step", seen.steps, steps)
          /\ UNCHANGED <<workerVars, run, finished>>
      BY <1>4 DEF ReadSteps
    <2>2. StatusEvents \in Seq(Message)
      BY <1>2, StatusFits DEF StatusEvents
    <2>3. News("step", seen.steps, steps) \in Seq(Message)
      BY <1>2, NewsFits
    <2>4. wire' \in Seq(Message)
      BY <1>1, <2>1, <2>2, <2>3
    <2>5. seen' \in Counts /\ seen'.steps = steps /\ seen'.artifacts = seen.artifacts
      BY <1>1, <2>1 DEF Counts, WorkerFits, StreamFits
    <2>6. ~finished
      BY <1>1, <2>1 DEF StreamFits, RoundFits
    <2>7. RoundFits'
      BY <1>1, <2>1, <2>5, <2>6 DEF StreamFits, RoundFits, AllButLast, Pending, workerVars
    <2>8. Effective(run) \in Shown
      BY <1>2, StatusFits
    <2>9. QED
      BY <1>1, <1>2, <2>1, <2>4, <2>5, <2>7, <2>8 DEF StreamFits, WireFits, workerVars
  <1>5. CASE ReadArtifacts
    <2> DEFINE ends == run \in Terminal
               news == News("artifact", seen.artifacts, artifacts)
               bye  == IF ends THEN <<Event("done", run, run, 0)>> ELSE << >>
    <2>1. /\ spc = "artifacts" /\ spc' = (IF ends THEN "closed" ELSE "run")
          /\ finished' = ends
          /\ seen' = [seen EXCEPT !.artifacts = artifacts]
          /\ wire' = wire \o news \o bye
          /\ UNCHANGED <<workerVars, run, last>>
      BY <1>5 DEF ReadArtifacts
    <2>2. bye \in Seq(Message)
      BY <1>2, StatusFits
    <2>3. news \in Seq(Message)
      BY <1>2, NewsFits
    <2>4. wire' \in Seq(Message)
      <3> HIDE DEF news, bye
      <3> QED
        BY <1>1, <2>1, <2>2, <2>3
    <2>5. seen' \in Counts /\ seen'.artifacts = artifacts /\ seen'.steps = seen.steps
      BY <1>1, <2>1 DEF Counts, WorkerFits, StreamFits
    <2>6. RoundFits'
      BY <1>1, <2>1, <2>5 DEF StreamFits, RoundFits, AllButLast, Pending, workerVars
    <2>7. finished' \in BOOLEAN
      BY <2>1
    <2>8. QED
      BY <1>1, <1>2, <2>1, <2>4, <2>5, <2>6, <2>7 DEF StreamFits, WireFits, workerVars
  <1>6. QED
    BY <1>3, <1>4, <1>5 DEF Stream

LEMMA StreamKeepsInvariant == IInv /\ Stream => IInv'
  <1> SUFFICES ASSUME IInv, Stream PROVE IInv'
    OBVIOUS
  <1>1. UNCHANGED <<workerVars, pageVars, drops>>
    BY DEF Stream, ReadRun, ReadSteps, ReadArtifacts
  <1>2. WorkerFits'
    BY <1>1 DEF IInv, WorkerFits, Undisturbed, workerVars
  <1>3. faults' = faults
    BY <1>1 DEF workerVars
  <1>4. QED
    BY <1>1, <1>2, <1>3, StreamSteps DEF IInv, pageVars

-----------------------------------------------------------------------------
(* The page and its requests                                               *)

\* A new stream has read nothing, and sent only that it is there.
LEMMA OpenedFits == Opened \in Seq(Message) /\ << >> \in Seq(Message)
  BY DEF Opened, Event, Message

LEMMA OpenFits ==
    ASSUME WorkerFits, NEW place \in {"run", "closed"}, Open(place), UNCHANGED workerVars
    PROVE  StreamFits' /\ WireFits'
  <1>1. /\ spc' = place /\ run' = "queued" /\ last' = "none" /\ ~finished'
        /\ seen' = Nothing /\ wire' \in Seq(Message)
    BY OpenedFits DEF Open
  <1>2. /\ Nothing \in Counts /\ Nothing.steps = 0 /\ Nothing.artifacts = 0
    BY BoundTypes DEF Nothing, Counts
  <1>3. 0 <= steps' /\ 0 <= artifacts'
    BY BoundTypes DEF WorkerFits, workerVars
  <1>4. RoundFits'
    BY <1>1 DEF RoundFits, Terminal
  <1>5. finished' \in BOOLEAN
    BY DEF Open
  <1>6. QED
    BY <1>1, <1>2, <1>3, <1>4, <1>5 DEF StreamFits, WireFits, Raw

\* However the page's state changes, its stream is the one it had or a new one, and
\* it asks no more than its bound allows.
LEMMA RenderFits ==
    ASSUME IInv, UNCHANGED workerVars,
           NEW p \in Page, NEW more \in Nat, NEW rest \in Seq(Message), Render(p, more, rest),
           RequestsFit(asked, answers')
    PROVE  /\ page' \in Page /\ StreamFits' /\ WireFits'
           /\ RequestsFit(asked', answers') /\ ReadingFits(asked', reading)
  <1> DEFINE rerun == p.status # page.status \/ p.raw # page.raw
             sent  == more + (IF rerun THEN 1 ELSE 0)
  <1>1. /\ asked' = asked + sent
        /\ sent > 0 => asked' + Cardinality(answers') <= MaxFetches
        /\ page' = IF rerun /\ ~p.ended THEN [p EXCEPT !.stream = "connecting"] ELSE p
        /\ \/ Open(IF p.ended THEN "closed" ELSE "run")
           \/ wire' = rest /\ UNCHANGED streamVars
    BY DEF Render
  <1>2. WorkerFits /\ StreamFits
    BY DEF IInv
  <1>3. page' \in Page
    BY <1>1 DEF Page
  <1>4. StreamFits' /\ WireFits'
    <2>1. CASE Open(IF p.ended THEN "closed" ELSE "run")
      BY <1>2, <2>1, OpenFits
    <2>2. CASE wire' = rest /\ UNCHANGED streamVars
      <3>1. /\ UNCHANGED <<wpc, letter, status, steps, artifacts, reopened,
                         spc, run, last, seen, finished>>
        BY <2>2 DEF workerVars, streamVars
      <3>2. QED
        BY <1>2, <2>2, <3>1 DEF StreamFits, RoundFits, AllButLast, Pending, WireFits
    <2>3. QED
      BY <1>1, <2>1, <2>2
  <1>5. RequestsFit(asked', answers')
    <2>1. sent \in Nat
      OBVIOUS
    <2>2. asked \in Nat /\ Cardinality(answers') \in Nat
      BY FS_CardinalityType DEF RequestsFit
    <2>3. asked' \in Nat /\ asked' + Cardinality(answers') <= MaxFetches
      <3> HIDE DEF sent
      <3> QED
        BY <1>1, <2>1, <2>2, BoundTypes DEF RequestsFit
    <2>4. QED
      BY <2>3 DEF RequestsFit
  <1>6. ReadingFits(asked', reading)
    <2>1. sent \in Nat
      OBVIOUS
    <2>2. asked \in Nat /\ Cardinality(reading) \in Nat /\ Cardinality(reading) <= asked
      BY FS_CardinalityType DEF IInv, RequestsFit, ReadingFits
    <2>3. Cardinality(reading) <= asked'
      <3> HIDE DEF sent
      <3> QED
        BY <1>1, <2>1, <2>2
    <2>4. QED
      BY <2>3 DEF IInv, ReadingFits
  <1>7. QED
    BY <1>3, <1>4, <1>5, <1>6

\* An event changes what the page shows within its type.
LEMMA ReceiveFits == IInv /\ Receive => IInv'
  <1> SUFFICES ASSUME IInv, Receive PROVE IInv'
    OBVIOUS
  <1> DEFINE e == Head(wire)
  <1>1. /\ wire # << >> /\ UNCHANGED <<reading, answers, workerVars, drops>>
    BY DEF Receive
  <1>2. e \in Message /\ Tail(wire) \in Seq(Message) /\ page \in Page
    BY <1>1 DEF IInv, WireFits
  <1>3. RequestsFit(asked, answers')
    BY <1>1 DEF IInv
  <1>4. \E p \in Page, more \in Nat, rest \in Seq(Message) : Render(p, more, rest)
    <2>1. CASE e.kind = "status" /\ Render([Show(e.st, e.raw) EXCEPT !.stale = e.st = "stale"],
                                           0, Tail(wire))
      <3>1. e.st \in Shown /\ e.raw \in Raw
        BY <1>2, <2>1 DEF Message
      <3>2. [Show(e.st, e.raw) EXCEPT !.stale = e.st = "stale"] \in Page
        BY <1>2, <3>1 DEF Show, Page
      <3>3. QED
        BY <1>2, <2>1, <3>2
    <2>2. CASE e.kind = "step" /\ Render([page EXCEPT !.steps = @ \cup {e.id}], 0, Tail(wire))
      <3>1. e.id \in 1 .. MaxSteps
        BY <1>2, <2>2 DEF Message
      <3>2. [page EXCEPT !.steps = @ \cup {e.id}] \in Page
        BY <1>2, <3>1 DEF Page
      <3>3. QED
        BY <1>2, <2>2, <3>2
    <2>3. CASE e.kind = "artifact" /\ Render(page, 0, Tail(wire))
      BY <1>2, <2>3
    <2>4. CASE e.kind = "done" /\ Render([Show(e.st, e.raw) EXCEPT !.stream = "done",
                                                                   !.ended = TRUE], 1, << >>)
      <3>1. e.st \in Shown /\ e.raw \in Raw
        BY <1>2, <2>4 DEF Message
      <3>2. [Show(e.st, e.raw) EXCEPT !.stream = "done", !.ended = TRUE] \in Page
        BY <1>2, <3>1 DEF Show, Page
      <3>3. << >> \in Seq(Message)
        OBVIOUS
      <3>4. QED
        BY <2>4, <3>2, <3>3
    <2>5. CASE e.kind = "open" /\ Render([page EXCEPT !.stream = "live"], 0, Tail(wire))
      <3>1. [page EXCEPT !.stream = "live"] \in Page
        BY <1>2 DEF Page
      <3>2. QED
        BY <1>2, <2>5, <3>1
    <2>6. QED
      BY <2>1, <2>2, <2>3, <2>4, <2>5 DEF Receive
  <1>5. /\ page' \in Page /\ StreamFits' /\ WireFits'
        /\ RequestsFit(asked', answers') /\ ReadingFits(asked', reading)
    BY <1>1, <1>3, <1>4, RenderFits
  <1>6. WorkerFits'
    BY <1>1 DEF IInv, WorkerFits, Undisturbed, workerVars
  <1>7. faults' = faults
    BY <1>1 DEF workerVars
  <1>8. QED
    BY <1>1, <1>5, <1>6, <1>7 DEF IInv

\* The API reads the row for a request that it has not read it for, then the steps.
LEMMA APIAlone ==
    ASSUME IInv, API
    PROVE  /\ UNCHANGED <<workerVars, streamVars, wire, page, drops>>
           /\ WorkerFits' /\ StreamFits' /\ WireFits'
  <1>1. UNCHANGED <<workerVars, streamVars, wire, page, drops>>
    BY DEF API, AnswerRow, AnswerSteps
  <1>2. UNCHANGED <<wpc, again, letter, status, steps, artifacts, quiet, had, reopened,
                    spc, run, last, seen, finished, wire>>
    BY <1>1 DEF workerVars, streamVars
  <1>3. WorkerFits'
    BY <1>2 DEF IInv, WorkerFits, Undisturbed
  <1>4. StreamFits' /\ WireFits'
    BY <1>2 DEF IInv, StreamFits, RoundFits, AllButLast, Pending, WireFits
  <1>5. QED
    BY <1>1, <1>3, <1>4

LEMMA AddedFits ==
    ASSUME NEW bag, IsFiniteSet(bag), NEW x, NEW more \in Added(bag, x)
    PROVE  /\ \E copy \in 1 .. MaxFetches : more = bag \cup {<<x, copy>>}
           /\ IsFiniteSet(more) /\ Cardinality(more) = Cardinality(bag) + 1
           /\ Cardinality(bag) \in Nat
  <1>1. PICK copy \in 1 .. MaxFetches : <<x, copy>> \notin bag /\ more = bag \cup {<<x, copy>>}
    BY DEF Added
  <1>2. QED
    BY <1>1, FS_AddElement, FS_CardinalityType

LEMMA AnswerRowFits == IInv /\ AnswerRow => IInv'
  <1> SUFFICES ASSUME IInv, AnswerRow PROVE IInv'
    OBVIOUS
  <1>1. /\ Cardinality(reading) < asked /\ reading' \in Added(reading, status)
        /\ UNCHANGED <<asked, answers, page, drops, faults>>
    BY DEF AnswerRow, workerVars
  <1>2. WorkerFits' /\ StreamFits' /\ WireFits'
    BY APIAlone DEF API
  <1>3. ReadingFits(asked', reading')
    <2>1. IsFiniteSet(reading) /\ asked \in Nat /\ status \in Raw
      BY DEF IInv, ReadingFits, RequestsFit, WorkerFits
    <2>2. /\ IsFiniteSet(reading') /\ Cardinality(reading') = Cardinality(reading) + 1
          /\ Cardinality(reading) \in Nat
      BY <1>1, <2>1, AddedFits
    <2>3. PICK copy \in 1 .. MaxFetches : reading' = reading \cup {<<status, copy>>}
      BY <1>1, <2>1, AddedFits
    <2>4. reading' \subseteq Raw \X (1 .. MaxFetches)
      BY <2>1, <2>3 DEF IInv, ReadingFits
    <2>5. QED
      BY <1>1, <2>1, <2>2, <2>4 DEF ReadingFits
  <1>4. QED
    BY <1>1, <1>2, <1>3 DEF IInv

\* What the API answers when it reads the steps for a request.
AnswerTo(read) == [st |-> Effective(read[1]), raw |-> read[1], steps |-> steps]

LEMMA AnswerStepsFits == IInv /\ AnswerSteps => IInv'
  <1> SUFFICES ASSUME IInv, AnswerSteps PROVE IInv'
    OBVIOUS
  <1>1. PICK read \in reading : /\ reading' = reading \ {read}
                                /\ answers' \in Added(answers, AnswerTo(read))
    BY DEF AnswerSteps, AnswerTo
  <1>2. asked' = asked - 1 /\ UNCHANGED <<page, drops, faults>>
    BY DEF AnswerSteps, workerVars
  <1>3. WorkerFits' /\ StreamFits' /\ WireFits'
    BY APIAlone DEF API
  <1>4. /\ IsFiniteSet(reading) /\ IsFiniteSet(answers) /\ asked \in Nat
        /\ read \in Raw \X (1 .. MaxFetches) /\ steps \in 0 .. MaxSteps
        /\ Cardinality(reading) <= asked /\ asked + Cardinality(answers) <= MaxFetches
    BY DEF IInv, ReadingFits, RequestsFit, WorkerFits
  <1>5. AnswerTo(read) \in Contents
    <2>1. read[1] \in Raw
      BY <1>4
    <2>2. Effective(read[1]) \in Shown
      BY <2>1, StatusFits
    <2>3. QED
      BY <1>4, <2>1, <2>2 DEF AnswerTo, Contents
  <1>6. /\ IsFiniteSet(reading') /\ Cardinality(reading') = Cardinality(reading) - 1
        /\ Cardinality(reading) \in Nat /\ Cardinality(reading') \in Nat
    BY <1>1, <1>4, FS_RemoveElement, FS_CardinalityType
  <1>7. /\ IsFiniteSet(answers') /\ Cardinality(answers') = Cardinality(answers) + 1
        /\ Cardinality(answers) \in Nat
    BY <1>1, <1>4, AddedFits
  <1>8. PICK copy \in 1 .. MaxFetches : answers' = answers \cup {<<AnswerTo(read), copy>>}
    BY <1>1, <1>4, AddedFits
  <1>9. ReadingFits(asked', reading')
    <2>1. reading' \subseteq Raw \X (1 .. MaxFetches)
      BY <1>1 DEF IInv, ReadingFits
    <2>2. Cardinality(reading') <= asked'
      BY <1>2, <1>4, <1>6
    <2>3. QED
      BY <1>6, <2>1, <2>2 DEF ReadingFits
  <1>10. RequestsFit(asked', answers')
    <2>1. answers' \subseteq Contents \X (1 .. MaxFetches)
      BY <1>5, <1>8 DEF IInv, RequestsFit
    <2>2. asked' \in Nat /\ asked' + Cardinality(answers') <= MaxFetches
      BY <1>2, <1>4, <1>6, <1>7, BoundTypes
    <2>3. QED
      BY <1>7, <2>1, <2>2 DEF RequestsFit
  <1>11. QED
    BY <1>2, <1>3, <1>9, <1>10 DEF IInv

LEMMA HandleAnswerFits == IInv /\ HandleAnswer => IInv'
  <1> SUFFICES ASSUME IInv, HandleAnswer PROVE IInv'
    OBVIOUS
  <1>1. PICK answer \in answers :
          LET a == answer[1]
              p == [Show(a.st, a.raw) EXCEPT
                       !.stale = a.st = "stale",
                       !.steps = IF a.steps > 0 THEN 1 .. a.steps ELSE @]
          IN  /\ answers' = answers \ {answer}
              /\ Render(IF a.raw \in PageTerminal
                        THEN [p EXCEPT !.stream = "done", !.ended = TRUE] ELSE p, 0, wire)
    BY DEF HandleAnswer
  <1> DEFINE a == answer[1]
             p == [Show(a.st, a.raw) EXCEPT
                      !.stale = a.st = "stale",
                      !.steps = IF a.steps > 0 THEN 1 .. a.steps ELSE @]
             q == IF a.raw \in PageTerminal
                  THEN [p EXCEPT !.stream = "done", !.ended = TRUE] ELSE p
  <1>2. UNCHANGED <<workerVars, reading, drops>>
    BY DEF HandleAnswer
  <1>3. a \in Contents /\ page \in Page /\ wire \in Seq(Message)
    BY DEF IInv, RequestsFit, WireFits
  <1>4. p \in Page
    <2>1. a.st \in Shown /\ a.raw \in Raw /\ a.steps \in 0 .. MaxSteps
      BY <1>3 DEF Contents
    <2>2. (IF a.steps > 0 THEN 1 .. a.steps ELSE page.steps) \in SUBSET (1 .. MaxSteps)
      BY <1>3, <2>1, BoundTypes DEF Page
    <2>3. QED
      BY <1>3, <2>1, <2>2 DEF Page, Show
  <1>5. q \in Page
    BY <1>4 DEF Page
  <1>6. RequestsFit(asked, answers')
    <2>1. IsFiniteSet(answers) /\ Cardinality(answers) \in Nat
      BY FS_CardinalityType DEF IInv, RequestsFit
    <2>2. IsFiniteSet(answers') /\ Cardinality(answers') = Cardinality(answers) - 1
      BY <1>1, <2>1, FS_RemoveElement
    <2>3. answers' \subseteq answers
      BY <1>1
    <2>4. QED
      BY <2>1, <2>2, <2>3, BoundTypes DEF IInv, RequestsFit
  <1>7. /\ page' \in Page /\ StreamFits' /\ WireFits'
        /\ RequestsFit(asked', answers') /\ ReadingFits(asked', reading)
    <2>1. Render(q, 0, wire)
      BY <1>1
    <2> HIDE DEF q
    <2>2. QED
      BY <1>2, <1>3, <1>5, <1>6, <2>1, RenderFits
  <1>8. WorkerFits'
    BY <1>2 DEF IInv, WorkerFits, Undisturbed, workerVars
  <1>9. faults' = faults
    BY <1>2 DEF workerVars
  <1>10. QED
    BY <1>2, <1>7, <1>8, <1>9 DEF IInv

\* A lost connection and a new one.
LEMMA ConnectionFits == IInv /\ (Drop \/ Reconnect) => IInv'
  <1> SUFFICES ASSUME IInv, Drop \/ Reconnect PROVE IInv'
    OBVIOUS
  <1>1. /\ UNCHANGED <<workerVars, asked, reading, answers>>
        /\ \E place \in {"run", "closed"} : Open(place)
    BY DEF Drop, Reconnect
  <1>2. WorkerFits'
    BY <1>1 DEF IInv, WorkerFits, Undisturbed, workerVars
  <1>3. StreamFits' /\ WireFits'
    BY <1>1, OpenFits DEF IInv
  <1>4. page' \in Page
    BY DEF IInv, Drop, Reconnect, Page
  <1>5. drops' \in 0 .. MaxDrops
    BY BoundTypes DEF IInv, Drop, Reconnect
  <1>6. faults' = faults
    BY <1>1 DEF workerVars
  <1>7. QED
    BY <1>1, <1>2, <1>3, <1>4, <1>5, <1>6 DEF IInv

-----------------------------------------------------------------------------
(* What is under way and what is shown is true                             *)

\* The statuses that may be told of: an outcome the row has had, and the very one it
\* has until work is left on a run that has an outcome.
Tellable == {raw \in Raw : raw \in Terminal => raw \in had /\ (raw = status \/ reopened)}

Tells(st, raw, known) ==
    /\ raw \in known
    /\ st \in {raw, "stale"}
    /\ raw \in Terminal => st = raw

\* Events and answers tell of what the rows said; done tells of the outcome.
EventTrue(e, known, n) ==
    /\ e.kind \in {"status", "done"} => Tells(e.st, e.raw, known)
    /\ e.kind = "done" => e.raw \in Terminal
    /\ e.kind = "step" => e.id \in 1 .. n

WireTrue(w, known, n)     == \A i \in 1 .. Len(w) : EventTrue(w[i], known, n)
ReadingTrue(rs, known)    == \A x \in rs : x[1] \in known
AnswersTrue(as, known, n) == \A x \in as : Tells(x[1].st, x[1].raw, known) /\ x[1].steps <= n

PageTrue(p, known, n) ==
    /\ Tells(p.status, p.raw, known)
    /\ p.steps \subseteq 1 .. n
    /\ p.ended => known \cap Terminal # {} /\ p.stream # "disconnected"

\* The stream says nothing after done.
DoneCloses(w, place) == (\E i \in 1 .. Len(w) : w[i].kind = "done") => place = "closed"

\* A page that has ended hears no more of its stream, or shows why a broken
\* connection is nothing to tell of.
EndKept(p, place, w) ==
    p.ended => \/ place = "closed" /\ w = << >>
               \/ {p.status, p.raw} \cap PageTerminal # {}

Truth ==
    /\ run \in Tellable
    /\ WireTrue(wire, Tellable, steps) /\ DoneCloses(wire, spc)
    /\ ReadingTrue(reading, Tellable) /\ AnswersTrue(answers, Tellable, steps)
    /\ PageTrue(page, Tellable, steps) /\ EndKept(page, spc, wire)

LEMMA TruthIsTold == Truth => PageIsTruthful
  <1> SUFFICES ASSUME PageTrue(page, Tellable, steps) PROVE PageIsTruthful
    BY DEF Truth
  <1>1. /\ page.raw \in Tellable /\ page.status \in {page.raw, "stale"}
        /\ page.raw \in Terminal => page.status = page.raw
        /\ page.steps \subseteq 1 .. steps
        /\ page.ended => Tellable \cap Terminal # {} /\ page.stream # "disconnected"
    BY DEF PageTrue, Tells
  <1>2. Tellable \cap Terminal # {} => had # {}
    BY DEF Tellable
  <1>3. page.raw \in Terminal => page.raw \in had /\ (page.raw = status \/ reopened)
    BY <1>1 DEF Tellable
  <1>4. QED
    BY <1>1, <1>2, <1>3 DEF PageIsTruthful

\* What is true stays true: steps are not taken back, nor what may be told.
LEMMA TruthLasts ==
    ASSUME NEW known, NEW later, known \subseteq later, NEW n \in Nat, NEW m \in Nat, n <= m
    PROVE  /\ \A w \in Seq(Message) : WireTrue(w, known, n) => WireTrue(w, later, m)
           /\ \A rs : ReadingTrue(rs, known) => ReadingTrue(rs, later)
           /\ \A as \in SUBSET (Contents \X (1 .. MaxFetches)) :
                 AnswersTrue(as, known, n) => AnswersTrue(as, later, m)
           /\ \A p \in Page : PageTrue(p, known, n) => PageTrue(p, later, m)
  <1>1. \A st, raw : Tells(st, raw, known) => Tells(st, raw, later)
    BY DEF Tells
  <1>2. 1 .. n \subseteq 1 .. m
    OBVIOUS
  <1>3. \A e : EventTrue(e, known, n) => EventTrue(e, later, m)
    BY <1>1, <1>2 DEF EventTrue
  <1>4. \A w \in Seq(Message) : WireTrue(w, known, n) => WireTrue(w, later, m)
    BY <1>3 DEF WireTrue
  <1>5. ASSUME NEW as \in SUBSET (Contents \X (1 .. MaxFetches)), AnswersTrue(as, known, n)
        PROVE  AnswersTrue(as, later, m)
    <2> SUFFICES ASSUME NEW x \in as
                 PROVE  Tells(x[1].st, x[1].raw, later) /\ x[1].steps <= m
      BY DEF AnswersTrue
    <2>1. x \in Contents \X (1 .. MaxFetches)
      OBVIOUS
    <2>2. x[1] \in Contents
      BY <2>1
    <2>3. x[1].steps \in Nat
      BY <2>2, BoundTypes DEF Contents
    <2>4. Tells(x[1].st, x[1].raw, known) /\ x[1].steps <= n
      BY <1>5 DEF AnswersTrue
    <2>5. QED
      BY <1>1, <2>3, <2>4
  <1>6. \A p \in Page : PageTrue(p, known, n) => PageTrue(p, later, m)
    BY <1>1, <1>2 DEF PageTrue
  <1>7. \A rs : ReadingTrue(rs, known) => ReadingTrue(rs, later)
    BY DEF ReadingTrue
  <1>8. QED
    BY <1>4, <1>5, <1>6, <1>7

LEMMA TellableLasts ==
    ASSUME WorkerEffect
    PROVE  Tellable \subseteq Tellable'
  <1> SUFFICES ASSUME NEW raw \in Tellable, raw \in Terminal
               PROVE  raw \in had' /\ (raw = status' \/ reopened')
    BY DEF Tellable
  <1>1. raw \in had /\ (raw = status \/ reopened)
    BY DEF Tellable
  <1>2. raw \in had' /\ (reopened => reopened')
    BY <1>1 DEF WorkerEffect
  <1>3. raw = status /\ ~reopened' => status' = status
    BY DEF WorkerEffect, OnlyLastStep
  <1>4. QED
    BY <1>1, <1>2, <1>3

LEMMA WorkerKeepsTruth == IInv /\ Truth /\ (Worker \/ Crash \/ Reconciler \/ GoQuiet) => Truth'
  <1> SUFFICES ASSUME IInv, Truth, Worker \/ Crash \/ Reconciler \/ GoQuiet PROVE Truth'
    OBVIOUS
  <1>1. WorkerEffect
    BY WorkerSteps DEF IInv
  <1>2. UNCHANGED <<streamVars, wire, pageVars, drops>>
    BY WorkerAlone
  <1>3. /\ steps \in Nat /\ steps' \in Nat /\ steps <= steps'
        /\ Tellable \subseteq Tellable'
    BY <1>1, BoundTypes, TellableLasts DEF WorkerEffect, WorkerFits, IInv
  <1>4. /\ wire \in Seq(Message) /\ page \in Page
        /\ answers \in SUBSET (Contents \X (1 .. MaxFetches))
    BY DEF IInv, WireFits, RequestsFit
  <1>5. /\ WireTrue(wire, Tellable', steps') /\ AnswersTrue(answers, Tellable', steps')
        /\ PageTrue(page, Tellable', steps') /\ ReadingTrue(reading, Tellable')
        /\ run \in Tellable'
    BY <1>3, <1>4, TruthLasts DEF Truth
  <1>6. QED
    BY <1>2, <1>5 DEF Truth, streamVars, pageVars

\* What may be told of is the same for all the steps that are not the worker's.
LEMMA TellableKept ==
    ASSUME UNCHANGED workerVars
    PROVE  Tellable' = Tellable /\ steps' = steps
  BY DEF Tellable, workerVars

LEMMA RowIsTellable == IInv => status \in Tellable
  BY DEF IInv, WorkerFits, Tellable

\* A status that may be told of, effective or not.
LEMMA ReadTells ==
    ASSUME NEW raw \in Tellable
    PROVE  Tells(Effective(raw), raw, Tellable)
  BY DEF Tells, Effective

\* More can be sent after what was sent before.
LEMMA MoreIsTrue ==
    ASSUME NEW v \in Seq(Message), NEW w \in Seq(Message),
           WireTrue(v, Tellable, steps), WireTrue(w, Tellable, steps)
    PROVE  /\ v \o w \in Seq(Message) /\ WireTrue(v \o w, Tellable, steps)
           /\ \A i \in 1 .. Len(v \o w) : (v \o w)[i].kind = "done" =>
                 \/ \E j \in 1 .. Len(v) : v[j].kind = "done"
                 \/ \E j \in 1 .. Len(w) : w[j].kind = "done"
  <1>1. v \o w \in Seq(Message) /\ Len(v \o w) = Len(v) + Len(w)
    OBVIOUS
  <1>2. ASSUME NEW i \in 1 .. Len(v \o w)
        PROVE  \/ \E j \in 1 .. Len(v) : (v \o w)[i] = v[j]
               \/ \E j \in 1 .. Len(w) : (v \o w)[i] = w[j]
    <2>1. CASE i <= Len(v)
      BY <1>1, <2>1
    <2>2. CASE i > Len(v)
      <3>1. i - Len(v) \in 1 .. Len(w) /\ (v \o w)[i] = w[i - Len(v)]
        BY <1>1, <2>2
      <3>2. QED
        BY <3>1
    <2>3. QED
      BY <1>1, <2>1, <2>2
  <1>3. QED
    BY <1>1, <1>2 DEF WireTrue

\* What the stream sends of steps and artifacts is there.
LEMMA NewsIsTrue ==
    ASSUME NEW from \in Nat, NEW to \in Nat, NEW kind \in {"step", "artifact"},
           kind = "step" => to <= steps, steps \in Nat
    PROVE  /\ WireTrue(News(kind, from, to), Tellable, steps)
           /\ ~ \E i \in 1 .. Len(News(kind, from, to)) : News(kind, from, to)[i].kind = "done"
  <1> DEFINE news == News(kind, from, to)
  <1>1. CASE to - from \in Nat
    <2>1. Len(news) = to - from
      BY <1>1 DEF News
    <2>2. ASSUME NEW i \in 1 .. Len(news)
          PROVE  news[i].kind = kind /\ news[i].id = from + i /\ from + i \in 1 .. to
      BY <1>1, <2>1, <2>2 DEF News, Event
    <2>3. QED
      BY <2>2 DEF WireTrue, EventTrue
  <1>2. CASE ~(to - from \in Nat)
    <2>1. 1 .. to - from = {}
      BY <1>2
    <2>2. news = << >>
      BY <2>1 DEF News
    <2>3. QED
      BY <2>2 DEF WireTrue
  <1>3. QED
    BY <1>1, <1>2

LEMMA StepsAreTrue ==
    ASSUME NEW from \in Nat, steps \in Nat
    PROVE  /\ WireTrue(News("step", from, steps), Tellable, steps)
           /\ ~ \E i \in 1 .. Len(News("step", from, steps)) :
                   News("step", from, steps)[i].kind = "done"
  <1>1. steps <= steps /\ "step" \in {"step", "artifact"}
    OBVIOUS
  <1>2. QED
    BY <1>1, NewsIsTrue

LEMMA StreamKeepsTruth == IInv /\ Truth /\ Stream => Truth'
  <1> SUFFICES ASSUME IInv, Truth, Stream PROVE Truth'
    OBVIOUS
  <1>1. /\ WorkerFits /\ StreamFits /\ wire \in Seq(Message) /\ WireFits'
    BY StreamSteps DEF IInv, WireFits
  <1>2. /\ steps \in Nat /\ artifacts \in Nat /\ seen.steps \in Nat /\ seen.artifacts \in Nat
        /\ seen.steps <= steps /\ seen.artifacts <= artifacts /\ run \in Raw
        /\ steps <= MaxSteps /\ artifacts <= MaxArtifacts
        /\ run \in Tellable /\ status \in Tellable
    BY <1>1, BoundTypes, RowIsTellable DEF WorkerFits, StreamFits, Counts, Truth
  <1>3. /\ UNCHANGED <<status, steps, page, reading, answers>> /\ spc # "closed"
        /\ UNCHANGED workerVars
    BY DEF Stream, ReadRun, ReadSteps, ReadArtifacts, workerVars, pageVars
  <1>4. Tellable' = Tellable /\ run' \in Tellable
    BY <1>2, <1>3, TellableKept DEF Stream, ReadRun, ReadSteps, ReadArtifacts
  <1>5. /\ AnswersTrue(answers', Tellable, steps') /\ PageTrue(page', Tellable, steps')
        /\ ReadingTrue(reading', Tellable)
    BY <1>3 DEF Truth
  <1>6. EndKept(page', spc', wire')
    <2>1. ~(spc = "closed" /\ wire = << >>)
      BY <1>3
    <2>2. page' = page /\ EndKept(page, spc, wire)
      BY <1>3 DEF Truth
    <2>3. QED
      BY <2>1, <2>2 DEF EndKept
  <1>7. WireTrue(wire, Tellable, steps) /\ ~ \E i \in 1 .. Len(wire) : wire[i].kind = "done"
    BY <1>3 DEF Truth, DoneCloses
  <1>8. WireTrue(wire', Tellable, steps') /\ DoneCloses(wire', spc')
    <2>1. CASE ReadRun
      <3>1. wire' = wire
        BY <2>1 DEF ReadRun
      <3>2. QED
        BY <1>3, <1>7, <3>1 DEF DoneCloses
    <2>2. CASE ReadSteps
      <3> DEFINE news == News("step", seen.steps, steps)
      <3>1. wire' = wire \o StatusEvents \o news
        BY <2>2 DEF ReadSteps
      <3>2. news \in Seq(Message)
        BY <1>2, NewsFits
      <3>3. /\ WireTrue(news, Tellable, steps)
            /\ ~ \E i \in 1 .. Len(news) : news[i].kind = "done"
        BY <1>2, StepsAreTrue
      <3>4. StatusEvents \in Seq(Message)
        BY <1>2, StatusFits DEF StatusEvents
      <3>5. /\ WireTrue(StatusEvents, Tellable, steps)
            /\ ~ \E i \in 1 .. Len(StatusEvents) : StatusEvents[i].kind = "done"
        <4>1. Tells(Effective(run), run, Tellable)
          BY <1>2, ReadTells
        <4>2. EventTrue(Event("status", Effective(run), run, 0), Tellable, steps)
          BY <4>1 DEF EventTrue, Event
        <4>3. Event("status", Effective(run), run, 0).kind = "status"
          BY DEF Event
        <4>4. QED
          BY <4>2, <4>3 DEF WireTrue, StatusEvents
      <3> HIDE DEF news
      <3> DEFINE first == wire \o StatusEvents
      <3>6. /\ first \in Seq(Message) /\ WireTrue(first, Tellable, steps)
            /\ ~ \E i \in 1 .. Len(first) : first[i].kind = "done"
        BY <1>1, <1>7, <3>4, <3>5, MoreIsTrue
      <3> HIDE DEF first
      <3>7. /\ WireTrue(first \o news, Tellable, steps)
            /\ ~ \E i \in 1 .. Len(first \o news) : (first \o news)[i].kind = "done"
        BY <3>2, <3>3, <3>6, MoreIsTrue
      <3>8. wire' = first \o news
        BY <3>1 DEF first
      <3>9. QED
        BY <1>3, <3>7, <3>8 DEF DoneCloses
    <2>3. CASE ReadArtifacts
      <3> DEFINE news == News("artifact", seen.artifacts, artifacts)
                 bye  == IF run \in Terminal THEN <<Event("done", run, run, 0)>> ELSE << >>
      <3>1. wire' = wire \o news \o bye /\ spc' = (IF run \in Terminal THEN "closed" ELSE "run")
        BY <2>3 DEF ReadArtifacts
      <3>2. news \in Seq(Message)
        BY <1>2, NewsFits
      <3>3. /\ WireTrue(news, Tellable, steps)
            /\ ~ \E i \in 1 .. Len(news) : news[i].kind = "done"
        BY <1>2, NewsIsTrue
      <3>4. bye \in Seq(Message)
        BY <1>2, StatusFits
      <3>5. /\ WireTrue(bye, Tellable, steps)
            /\ (\E i \in 1 .. Len(bye) : bye[i].kind = "done") => run \in Terminal
        <4>1. run \in Terminal => Tells(run, run, Tellable)
          BY <1>2 DEF Tells
        <4>2. run \in Terminal => EventTrue(Event("done", run, run, 0), Tellable, steps)
          BY <4>1 DEF EventTrue, Event
        <4>3. QED
          BY <4>2 DEF WireTrue
      <3> HIDE DEF news, bye
      <3> DEFINE first == wire \o news
      <3>6. /\ first \in Seq(Message) /\ WireTrue(first, Tellable, steps)
            /\ ~ \E i \in 1 .. Len(first) : first[i].kind = "done"
        BY <1>1, <1>7, <3>2, <3>3, MoreIsTrue
      <3> HIDE DEF first
      <3>7. /\ WireTrue(first \o bye, Tellable, steps)
            /\ (\E i \in 1 .. Len(first \o bye) : (first \o bye)[i].kind = "done")
                  => run \in Terminal
        BY <3>4, <3>5, <3>6, MoreIsTrue
      <3>8. wire' = first \o bye
        BY <3>1 DEF first
      <3>9. QED
        BY <1>3, <3>1, <3>7, <3>8 DEF DoneCloses
    <2>4. QED
      BY <2>1, <2>2, <2>3 DEF Stream
  <1>9. QED
    BY <1>4, <1>5, <1>6, <1>8 DEF Truth

-----------------------------------------------------------------------------
(* The page keeps what it shows true                                       *)

LEMMA OpenSilences ==
    ASSUME NEW place \in {"run", "closed"}, Open(place), NEW known, NEW n
    PROVE  /\ spc' = place /\ (place = "closed" => wire' = << >>)
           /\ WireTrue(wire', known, n) /\ DoneCloses(wire', spc')
           /\ run' = "queued"
  <1>1. /\ spc' = place /\ wire' = (IF place = "run" THEN Opened ELSE << >>) /\ run' = "queued"
    BY DEF Open
  <1>2. Len(Opened) = 1 /\ Opened[1].kind = "open"
    BY DEF Opened, Event
  <1>3. WireTrue(Opened, known, n) /\ DoneCloses(Opened, spc')
    BY <1>2 DEF WireTrue, EventTrue, DoneCloses
  <1>4. WireTrue(<< >>, known, n) /\ DoneCloses(<< >>, spc')
    BY DEF WireTrue, DoneCloses
  <1>5. QED
    BY <1>1, <1>3, <1>4

\* A stream that is opened, or kept, has read nothing that may not be told of.
LEMMA QueuedIsTellable == "queued" \in Tellable
  BY DEF Tellable, Raw, Terminal

\* Rendering: either a new stream begins, or the page keeps the one it had.
LEMMA RenderKeepsTruth ==
    ASSUME NEW p \in Page, NEW more, NEW rest \in Seq(Message), Render(p, more, rest),
           PageTrue(p, Tellable, steps), WireTrue(rest, Tellable, steps), DoneCloses(rest, spc),
           p.status = page.status /\ p.raw = page.raw => EndKept(p, spc, rest),
           run \in Tellable
    PROVE  /\ WireTrue(wire', Tellable, steps) /\ DoneCloses(wire', spc')
           /\ PageTrue(page', Tellable, steps) /\ EndKept(page', spc', wire')
           /\ run' \in Tellable
  <1> DEFINE rerun == p.status # page.status \/ p.raw # page.raw
  <1>1. /\ page' = IF rerun /\ ~p.ended THEN [p EXCEPT !.stream = "connecting"] ELSE p
        /\ \/ rerun /\ Open(IF p.ended THEN "closed" ELSE "run")
           \/ ~rerun /\ wire' = rest /\ UNCHANGED streamVars
    BY DEF Render
  <1>2. /\ page'.status = p.status /\ page'.raw = p.raw /\ page'.steps = p.steps
        /\ page'.ended = p.ended /\ (p.ended => page'.stream = p.stream)
    BY <1>1 DEF Page
  <1>3. PageTrue(page', Tellable, steps)
    BY <1>2 DEF PageTrue
  <1>4. CASE rerun /\ Open(IF p.ended THEN "closed" ELSE "run")
    <2>1. /\ p.ended => spc' = "closed" /\ wire' = << >>
          /\ WireTrue(wire', Tellable, steps) /\ DoneCloses(wire', spc')
          /\ run' \in Tellable
      BY <1>4, OpenSilences, QueuedIsTellable
    <2>2. EndKept(page', spc', wire')
      BY <1>2, <2>1 DEF EndKept
    <2>3. QED
      BY <1>3, <2>1, <2>2
  <1>5. CASE ~rerun /\ wire' = rest /\ UNCHANGED streamVars
    BY <1>2, <1>3, <1>5 DEF EndKept, streamVars
  <1>6. QED
    BY <1>1, <1>4, <1>5

\* The first event is handled, the others wait.
LEMMA ReceiveKeepsTruth == IInv /\ Truth /\ Receive => Truth'
  <1> SUFFICES ASSUME IInv, Truth, Receive PROVE Truth'
    OBVIOUS
  <1> DEFINE e == Head(wire)
  <1>1. wire # << >> /\ UNCHANGED <<reading, answers, workerVars>>
    BY DEF Receive
  <1>2. /\ e \in Message /\ Tail(wire) \in Seq(Message) /\ page \in Page
        /\ wire \in Seq(Message) /\ e = wire[1] /\ 1 \in 1 .. Len(wire)
    BY <1>1 DEF IInv, WireFits
  <1>3. EventTrue(e, Tellable, steps) /\ (e.kind = "done" => spc = "closed")
    BY <1>2 DEF Truth, WireTrue, DoneCloses
  <1>4. WireTrue(Tail(wire), Tellable, steps) /\ DoneCloses(Tail(wire), spc)
    <2>1. ASSUME NEW i \in 1 .. Len(Tail(wire))
          PROVE  i + 1 \in 1 .. Len(wire) /\ Tail(wire)[i] = wire[i + 1]
      BY <1>1, <1>2, <2>1
    <2>2. QED
      BY <2>1 DEF Truth, WireTrue, DoneCloses
  <1>5. /\ PageTrue(page, Tellable, steps) /\ run \in Tellable
        /\ page.ended => {page.status, page.raw} \cap PageTerminal # {}
    BY <1>1 DEF Truth, EndKept
  <1>6. /\ WireTrue(wire', Tellable, steps) /\ DoneCloses(wire', spc')
        /\ PageTrue(page', Tellable, steps) /\ EndKept(page', spc', wire')
        /\ run' \in Tellable
    <2>1. CASE e.kind = "status" /\ Render([Show(e.st, e.raw) EXCEPT !.stale = e.st = "stale"],
                                           0, Tail(wire))
      <3> DEFINE p == [Show(e.st, e.raw) EXCEPT !.stale = e.st = "stale"]
      <3>1. e.st \in Shown /\ e.raw \in Raw
        BY <1>2, <2>1 DEF Message
      <3>2. /\ p \in Page /\ p.status = e.st /\ p.raw = e.raw
            /\ p.steps = page.steps /\ p.ended = page.ended /\ p.stream = page.stream
        BY <1>2, <3>1 DEF Show, Page
      <3> HIDE DEF p
      <3>3. Tells(e.st, e.raw, Tellable)
        BY <1>3, <2>1 DEF EventTrue
      <3>4. PageTrue(p, Tellable, steps)
        BY <1>5, <3>2, <3>3 DEF PageTrue
      <3>5. p.status = page.status /\ p.raw = page.raw => EndKept(p, spc, Tail(wire))
        BY <1>5, <3>2 DEF EndKept
      <3>6. Render(p, 0, Tail(wire))
        BY <2>1 DEF p
      <3>7. QED
        BY <1>2, <1>4, <1>5, <3>2, <3>4, <3>5, <3>6, RenderKeepsTruth
    <2>2. CASE e.kind = "step" /\ Render([page EXCEPT !.steps = @ \cup {e.id}], 0, Tail(wire))
      <3> DEFINE p == [page EXCEPT !.steps = @ \cup {e.id}]
      <3>1. e.id \in 1 .. MaxSteps /\ e.id \in 1 .. steps
        BY <1>2, <1>3, <2>2 DEF Message, EventTrue
      <3>2. /\ p \in Page /\ p.status = page.status /\ p.raw = page.raw
            /\ p.steps = page.steps \cup {e.id}
            /\ p.ended = page.ended /\ p.stream = page.stream
        BY <1>2, <3>1 DEF Page
      <3> HIDE DEF p
      <3>3. PageTrue(p, Tellable, steps)
        BY <1>5, <3>1, <3>2 DEF PageTrue
      <3>4. EndKept(p, spc, Tail(wire))
        BY <1>5, <3>2 DEF EndKept
      <3>5. Render(p, 0, Tail(wire))
        BY <2>2 DEF p
      <3>6. QED
        BY <1>2, <1>4, <1>5, <3>2, <3>3, <3>4, <3>5, RenderKeepsTruth
    <2>3. CASE e.kind = "artifact" /\ Render(page, 0, Tail(wire))
      <3>1. EndKept(page, spc, Tail(wire))
        BY <1>5 DEF EndKept
      <3>2. QED
        BY <1>2, <1>4, <1>5, <2>3, <3>1, RenderKeepsTruth
    <2>4. CASE e.kind = "done" /\ Render([Show(e.st, e.raw) EXCEPT !.stream = "done",
                                                                   !.ended = TRUE], 1, << >>)
      <3> DEFINE p == [Show(e.st, e.raw) EXCEPT !.stream = "done", !.ended = TRUE]
      <3>1. /\ e.st \in Shown /\ e.raw \in Raw /\ e.raw \in Terminal
            /\ Tells(e.st, e.raw, Tellable) /\ spc = "closed"
        BY <1>2, <1>3, <2>4 DEF Message, EventTrue
      <3>2. /\ p \in Page /\ p.status = e.st /\ p.raw = e.raw
            /\ p.steps = page.steps /\ p.stream = "done"
        BY <1>2, <3>1 DEF Show, Page
      <3> HIDE DEF p
      <3>3. PageTrue(p, Tellable, steps)
        BY <1>5, <3>1, <3>2 DEF PageTrue, Tells
      <3>4. EndKept(p, spc, << >>)
        BY <3>1 DEF EndKept
      <3>5. /\ << >> \in Seq(Message) /\ WireTrue(<< >>, Tellable, steps)
            /\ DoneCloses(<< >>, spc)
        BY DEF WireTrue, DoneCloses
      <3>6. Render(p, 1, << >>)
        BY <2>4 DEF p
      <3>7. QED
        BY <1>5, <3>2, <3>3, <3>4, <3>5, <3>6, RenderKeepsTruth
    <2>5. CASE e.kind = "open" /\ Render([page EXCEPT !.stream = "live"], 0, Tail(wire))
      <3> DEFINE p == [page EXCEPT !.stream = "live"]
      <3>1. /\ p \in Page /\ p.status = page.status /\ p.raw = page.raw
            /\ p.steps = page.steps /\ p.ended = page.ended /\ p.stream = "live"
        BY <1>2 DEF Page
      <3> HIDE DEF p
      <3>2. PageTrue(p, Tellable, steps)
        BY <1>5, <3>1 DEF PageTrue
      <3>3. EndKept(p, spc, Tail(wire))
        BY <1>5, <3>1 DEF EndKept
      <3>4. Render(p, 0, Tail(wire))
        BY <2>5 DEF p
      <3>5. QED
        BY <1>2, <1>4, <1>5, <3>1, <3>2, <3>3, <3>4, RenderKeepsTruth
    <2>6. QED
      BY <2>1, <2>2, <2>3, <2>4, <2>5 DEF Receive
  <1>7. QED
    BY <1>1, <1>6, TellableKept DEF Truth

\* An answer tells what the row said when it was read, and how many steps there are
\* when they are read.
LEMMA APIKeepsTruth == IInv /\ Truth /\ API => Truth'
  <1> SUFFICES ASSUME IInv, Truth, API PROVE Truth'
    OBVIOUS
  <1>1. UNCHANGED <<workerVars, streamVars, wire, page, drops>>
    BY APIAlone
  <1>2. Tellable' = Tellable /\ steps' = steps /\ steps \in Nat
    BY <1>1, TellableKept, BoundTypes DEF IInv, WorkerFits
  <1>3. ReadingTrue(reading', Tellable) /\ AnswersTrue(answers', Tellable, steps)
    <2>1. CASE AnswerRow
      <3>1. PICK copy \in 1 .. MaxFetches : reading' = reading \cup {<<status, copy>>}
        BY <2>1 DEF AnswerRow, Added
      <3>2. answers' = answers
        BY <2>1 DEF AnswerRow
      <3>3. QED
        BY <3>1, <3>2, RowIsTellable DEF Truth, ReadingTrue
    <2>2. CASE AnswerSteps
      <3>1. PICK read \in reading : /\ reading' = reading \ {read}
                                    /\ answers' \in Added(answers, AnswerTo(read))
        BY <2>2 DEF AnswerSteps, AnswerTo
      <3>2. PICK copy \in 1 .. MaxFetches : answers' = answers \cup {<<AnswerTo(read), copy>>}
        BY <3>1 DEF Added
      <3>3. Tells(AnswerTo(read).st, AnswerTo(read).raw, Tellable) /\ AnswerTo(read).steps = steps
        <4>1. read[1] \in Tellable
          BY <3>1 DEF Truth, ReadingTrue
        <4>2. QED
          BY <4>1, ReadTells DEF AnswerTo
      <3>4. QED
        BY <1>2, <3>1, <3>2, <3>3 DEF Truth, ReadingTrue, AnswersTrue
    <2>3. QED
      BY <2>1, <2>2 DEF API
  <1>4. UNCHANGED <<run, spc, wire, page>>
    BY <1>1 DEF streamVars
  <1>5. QED
    BY <1>2, <1>3, <1>4 DEF Truth

\* It may be old when it is handled, but what it tells is still true.
LEMMA HandleAnswerKeepsTruth == IInv /\ Truth /\ HandleAnswer => Truth'
  <1> SUFFICES ASSUME IInv, Truth, HandleAnswer PROVE Truth'
    OBVIOUS
  <1>1. PICK answer \in answers :
          LET a == answer[1]
              p == [Show(a.st, a.raw) EXCEPT
                       !.stale = a.st = "stale",
                       !.steps = IF a.steps > 0 THEN 1 .. a.steps ELSE @]
          IN  /\ answers' = answers \ {answer}
              /\ Render(IF a.raw \in PageTerminal
                        THEN [p EXCEPT !.stream = "done", !.ended = TRUE] ELSE p, 0, wire)
    BY DEF HandleAnswer
  <1> DEFINE a == answer[1]
             shown == IF a.steps > 0 THEN 1 .. a.steps ELSE page.steps
             p == [Show(a.st, a.raw) EXCEPT
                      !.stale = a.st = "stale",
                      !.steps = IF a.steps > 0 THEN 1 .. a.steps ELSE @]
             q == IF a.raw \in PageTerminal
                  THEN [p EXCEPT !.stream = "done", !.ended = TRUE] ELSE p
  <1>2. /\ UNCHANGED <<workerVars, reading>> /\ answers' \subseteq answers
        /\ Render(q, 0, wire)
    BY <1>1 DEF HandleAnswer
  <1>3. a \in Contents /\ page \in Page /\ wire \in Seq(Message) /\ steps \in Nat
    BY BoundTypes DEF IInv, RequestsFit, WireFits, WorkerFits
  <1>4. /\ a.st \in Shown /\ a.raw \in Raw /\ a.steps \in 0 .. MaxSteps
        /\ Tells(a.st, a.raw, Tellable) /\ a.steps <= steps
    BY <1>3 DEF Contents, Truth, AnswersTrue
  <1>5. shown \in SUBSET (1 .. MaxSteps) /\ shown \subseteq 1 .. steps
    BY <1>3, <1>4, BoundTypes DEF Page, Truth, PageTrue
  <1>6. /\ q \in Page /\ q.status = a.st /\ q.raw = a.raw /\ q.steps = shown
        /\ a.raw \in PageTerminal => q.stream = "done"
        /\ a.raw \notin PageTerminal => q.stream = page.stream /\ q.ended = page.ended
    <2>1. /\ p \in Page /\ p.status = a.st /\ p.raw = a.raw /\ p.steps = shown
          /\ p.stream = page.stream /\ p.ended = page.ended
      BY <1>3, <1>4, <1>5 DEF Page, Show
    <2> HIDE DEF p, shown, a
    <2>2. QED
      BY <2>1 DEF Page
  <1> HIDE DEF q, p, shown, a
  <1>7. PageTrue(q, Tellable, steps)
    BY <1>4, <1>5, <1>6 DEF Truth, PageTrue, Tells, PageTerminal, Terminal
  <1>8. q.status = page.status /\ q.raw = page.raw => EndKept(q, spc, wire)
    BY <1>6 DEF Truth, EndKept
  <1>9. /\ WireTrue(wire', Tellable, steps) /\ DoneCloses(wire', spc')
        /\ PageTrue(page', Tellable, steps) /\ EndKept(page', spc', wire')
        /\ run' \in Tellable
    BY <1>2, <1>3, <1>6, <1>7, <1>8, RenderKeepsTruth DEF Truth
  <1>10. QED
    BY <1>2, <1>9, TellableKept DEF Truth, AnswersTrue

\* A broken connection ends the page only when it shows the run's outcome.
LEMMA ConnectionKeepsTruth == IInv /\ Truth /\ (Drop \/ Reconnect) => Truth'
  <1> SUFFICES ASSUME IInv, Truth, Drop \/ Reconnect PROVE Truth'
    OBVIOUS
  <1>1. UNCHANGED <<workerVars, reading, answers>>
    BY DEF Drop, Reconnect
  <1>2. /\ page \in Page /\ PageTrue(page, Tellable, steps)
        /\ EndKept(page, spc, wire) /\ AnswersTrue(answers, Tellable, steps)
        /\ ReadingTrue(reading, Tellable)
    BY DEF IInv, Truth
  <1>3. WireTrue(wire', Tellable, steps) /\ DoneCloses(wire', spc')
        /\ run' \in Tellable /\ (Drop => wire' = << >>)
    BY OpenSilences, QueuedIsTellable DEF Drop, Reconnect
  <1>4. PageTrue(page', Tellable, steps) /\ EndKept(page', spc', wire')
    <2>1. CASE Drop
      <3>1. spc' = "closed" /\ (spc # "closed" \/ wire # << >>)
        BY <2>1 DEF Drop, Open
      <3>2. CASE {page.status, page.raw} \cap PageTerminal # {}
        <4>1. page' = [page EXCEPT !.stream = "done", !.ended = TRUE]
          BY <2>1, <3>2 DEF Drop
        <4>2. Tellable \cap Terminal # {}
          BY <1>2, <3>2 DEF PageTrue, Tells, PageTerminal, Terminal
        <4>3. QED
          BY <1>2, <1>3, <2>1, <3>1, <4>1, <4>2 DEF Page, PageTrue, EndKept
      <3>3. CASE {page.status, page.raw} \cap PageTerminal = {}
        <4>1. page' = [page EXCEPT !.stream = "disconnected"]
          BY <2>1, <3>3 DEF Drop
        <4>2. ~page.ended
          BY <1>2, <3>1, <3>3 DEF EndKept
        <4>3. QED
          BY <1>2, <1>3, <2>1, <3>1, <4>1, <4>2 DEF Page, PageTrue, EndKept
      <3>4. QED
        BY <3>2, <3>3
    <2>2. CASE Reconnect
      <3>1. page' = [page EXCEPT !.stream = "connecting"] /\ ~page.ended
        BY <2>2 DEF Reconnect
      <3>2. QED
        BY <1>2, <3>1 DEF Page, PageTrue, EndKept
    <2>3. QED
      BY <2>1, <2>2
  <1>5. QED
    BY <1>1, <1>2, <1>3, <1>4, TellableKept DEF Truth

-----------------------------------------------------------------------------
(* The theorems                                                            *)

LEMMA InitInvariant == Init => IInv
  <1> SUFFICES ASSUME Init PROVE IInv
    OBVIOUS
  <1>1. WorkerFits
    <2>1. /\ wpc = "begin" /\ letter = "none" /\ status = "queued" /\ had = {}
          /\ steps = 0 /\ artifacts = 0
      BY DEF Init
    <2>2. again \in BOOLEAN /\ quiet \in BOOLEAN /\ reopened \in BOOLEAN
      BY DEF Init
    <2>3. QED
      BY <2>1, <2>2, BoundTypes DEF WorkerFits, Undisturbed, Raw, Terminal
  <1>2. StreamFits
    <2>1. /\ spc = "run" /\ run = "queued" /\ last = "none" /\ seen = Nothing
          /\ steps = 0 /\ artifacts = 0
      BY DEF Init
    <2>2. Nothing \in Counts /\ Nothing.steps = 0 /\ Nothing.artifacts = 0
      BY BoundTypes DEF Nothing, Counts
    <2>3. finished \in BOOLEAN /\ ~finished
      BY DEF Init
    <2>4. QED
      BY <2>1, <2>2, <2>3 DEF StreamFits, RoundFits, Raw, Terminal
  <1>3. WireFits
    BY OpenedFits DEF Init, WireFits
  <1>4. page \in Page
    BY DEF Init, Page, Shown, Raw
  <1>5. RequestsFit(asked, answers) /\ ReadingFits(asked, reading)
    BY BoundTypes, FS_EmptySet DEF Init, RequestsFit, ReadingFits
  <1>6. faults \in 0 .. MaxFaults /\ drops \in 0 .. MaxDrops
    BY BoundTypes DEF Init
  <1>7. QED
    BY <1>1, <1>2, <1>3, <1>4, <1>5, <1>6 DEF IInv

LEMMA InitTruth == Init => Truth
  <1> SUFFICES ASSUME Init PROVE Truth
    OBVIOUS
  <1>1. wire = Opened /\ reading = {} /\ answers = {} /\ run = "queued"
    BY DEF Init
  <1>2. /\ page.status = "queued" /\ page.raw = "queued" /\ page.steps = {}
        /\ page.ended = FALSE
    BY DEF Init
  <1>3. PageTrue(page, Tellable, steps) /\ EndKept(page, spc, wire)
    BY <1>2, QueuedIsTellable DEF PageTrue, EndKept, Tells, Terminal
  <1>4. WireTrue(Opened, Tellable, steps) /\ DoneCloses(Opened, spc)
    <2>1. Len(Opened) = 1 /\ Opened[1].kind = "open"
      BY DEF Opened, Event
    <2>2. QED
      BY <2>1 DEF WireTrue, EventTrue, DoneCloses
  <1>5. QED
    BY <1>1, <1>3, <1>4, QueuedIsTellable DEF Truth, ReadingTrue, AnswersTrue

LEMMA StutterFits == IInv /\ UNCHANGED vars => IInv'
  <1> SUFFICES ASSUME IInv, UNCHANGED vars PROVE IInv'
    OBVIOUS
  <1>1. UNCHANGED <<wpc, again, letter, status, steps, artifacts, quiet, had, reopened, faults,
                    spc, run, last, seen, finished, wire, page, asked, reading, answers, drops>>
    BY DEF vars, workerVars, streamVars, pageVars
  <1>2. WorkerFits'
    BY <1>1 DEF IInv, WorkerFits, Undisturbed
  <1>3. StreamFits' /\ WireFits'
    BY <1>1 DEF IInv, StreamFits, RoundFits, AllButLast, Pending, WireFits
  <1>4. QED
    BY <1>1, <1>2, <1>3 DEF IInv

THEOREM Invariant == Spec => []IInv
  <1>1. IInv /\ [Next]_vars => IInv'
    BY WorkerKeepsInvariant, StreamKeepsInvariant, AnswerRowFits, AnswerStepsFits, ReceiveFits,
       HandleAnswerFits, ConnectionFits, StutterFits DEF Next, API
  <1>2. QED
    BY <1>1, InitInvariant, PTL DEF Spec

\* The run, its stream and the page stay in their types, and the page's requests
\* within the browser's bound, however events and answers interleave.
THEOREM TypeCorrect == Spec => []TypeOK
  BY Invariant, InvariantTypes, PTL

\* A stream that has said "done" has sent every artifact, and every step but, at
\* most, the one that persist or the reconciler logs last; and the status it gave is
\* the row's, until work is left on a run whose row has its outcome: a redelivery,
\* or a failed write that Neon had committed.
THEOREM DoneIsComplete == Spec => []DoneMissesAtMostPersist
  BY Invariant, InvariantDone, PTL

LEMMA NextKeepsTruth == IInv /\ Truth /\ [Next]_vars => Truth'
  <1> SUFFICES ASSUME IInv, Truth, [Next]_vars PROVE Truth'
    OBVIOUS
  <1>1. CASE UNCHANGED vars
    <2>1. UNCHANGED <<workerVars, spc, run, wire, page, reading, answers>>
      BY <1>1 DEF vars, streamVars, pageVars
    <2>2. QED
      BY <2>1, TellableKept DEF Truth
  <1>2. CASE Next
    BY <1>2, WorkerKeepsTruth, StreamKeepsTruth, APIKeepsTruth, ReceiveKeepsTruth,
       HandleAnswerKeepsTruth, ConnectionKeepsTruth DEF Next
  <1>3. QED
    BY <1>1, <1>2

\* The page shows no outcome that the run's row has not had, no step that was not
\* logged, and takes the stream for ended only when the run had come to an outcome,
\* however late events and answers come, wherever connections break and however often
\* the worker dies or fails to write; and the outcome is the row's own until work is
\* left on a run that has one.
THEOREM PageTellsTruth == Spec => []PageIsTruthful
  <1>1. Init => Truth
    BY InitTruth
  <1>2. IInv /\ Truth /\ [Next]_vars => Truth'
    BY NextKeepsTruth
  <1>3. Truth => PageIsTruthful
    BY TruthIsTold
  <1>4. QED
    BY <1>1, <1>2, <1>3, Invariant, PTL DEF Spec
=============================================================================
