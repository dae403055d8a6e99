----------------------------- MODULE MCLiveView -----------------------------
(***************************************************************************)
(* LiveView for TLC: the bounds are in the configurations.                 *)
(***************************************************************************)
EXTENDS LiveView

BothOutcomes == {"succeeded", "infra_error"}

\* The page treats "succeeded" as it treats "error", which a failed installation
\* writes.
InfraOutcome == {"infra_error"}

\* A stream that reads the run has just been opened.
NewStream ==
    /\ letter = "none" /\ artifacts = 0 /\ quiet = FALSE
    /\ spc = "run" /\ run = "queued" /\ last = "none" /\ seen = Nothing
    /\ finished = FALSE
    /\ reading = {} /\ answers = {}

\* The page shows a run under way with the first step it has logged.
ShowsFirstStep ==
    /\ NewStream
    /\ steps = 1
    /\ wire = << >> /\ asked = 0
    /\ page = [status |-> "analyzing", raw |-> "analyzing", stale |-> FALSE,
               steps |-> {1}, stream |-> "live", ended |-> FALSE]

\* It does so and nothing has gone wrong yet; or it is opened when the job has failed
\* before it touched the row.
Midway ==
    /\ again = FALSE /\ had = {} /\ reopened = FALSE
    /\ \/ /\ ShowsFirstStep
          /\ wpc = "nodes" /\ status = "analyzing"
       \/ /\ NewStream
          /\ wpc = "over" /\ status = "queued" /\ steps \in {0, 1}
          /\ wire = Opened /\ asked = 1
          /\ page = [status |-> "queued", raw |-> "queued", stale |-> FALSE,
                     steps |-> {}, stream |-> "connecting", ended |-> FALSE]

OpenedMidway == Midway /\ faults = 0 /\ drops = 0

\* What a fault leaves behind, before the page has heard of anything since the first
\* step: the worker died, or the final write failed, and the row had been given its
\* outcome or not.
AfterFault ==
    /\ ShowsFirstStep
    /\ \/ wpc = "begin" /\ again = TRUE
       \/ wpc = "record" /\ again = FALSE
    /\ \/ status = "analyzing" /\ had = {} /\ reopened = FALSE
       \/ status \in Outcomes /\ had = {status} /\ reopened = TRUE

\* The connection may still break; or the worker's process or Neon has failed.
OneTrouble ==
    /\ faults = MaxFaults
    /\ \/ Midway /\ drops = 0
       \/ AfterFault /\ drops = MaxDrops

SpecOneTrouble == OneTrouble /\ [][Next]_vars /\ Fairness
=============================================================================
