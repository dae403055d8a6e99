----------------------------- MODULE Evaluation -----------------------------
(***************************************************************************)
(* How runs are evaluated: the benchmark driver, which submits one fixture *)
(* after the other, polls its run and stores a verdict                     *)
(* (eval/run_benchmark.py; src/api holds two copies of it), its summary,   *)
(* and the API's BRT metrics (api/app/api/metrics.py), which count the     *)
(* stored verdicts again by what the verdict node has logged.              *)
(*                                                                         *)
(* The worker goes on meanwhile.  Of a run only what the evaluation reads  *)
(* is here: its row, the verdict steps in its log, and whether somebody is *)
(* at it; how a run comes to its verdict is ReproGraph's matter, how it    *)
(* survives crashes RunLifecycle's.  Rates, texts and times are left out;  *)
(* one unit of time is one poll.                                           *)
(***************************************************************************)
EXTENDS Naturals, Sequences, FiniteSets

CONSTANTS
    N,               \* number of fixtures
    GroundTruth,     \* ground_truth_reproducible of each fixture
    MaxPolls,        \* max_wait_seconds over poll_interval
    MaxSteps,        \* bound: verdict steps of each fixture's run
    MaxRedeliveries  \* bound: jobs delivered again

Fixtures == 1 .. N

ASSUME EvaluationAssumption ==
    /\ N \in Nat
    /\ GroundTruth \in [Fixtures -> BOOLEAN]
    /\ MaxSteps \in [Fixtures -> Nat]
    /\ MaxPolls \in Nat /\ MaxRedeliveries \in Nat

VARIABLES
    pc,           \* where the driver is
    next,         \* the fixture it is at
    elapsed,      \* polls of that fixture so far
    data,         \* run_data, the last answer to a poll
    run,          \* the run of each fixture
    evals,        \* the row of evaluation_results of each fixture
    redelivered,  \* jobs delivered again so far
    view,         \* rows a request for the metrics has read
    seen          \* history: runs with a matched verdict step at that moment

driverVars == <<pc, next, elapsed, data>>
metricsVars == <<view, seen>>
vars == <<driverVars, run, evals, redelivered, metricsVars>>

Verdicts == {"matched", "no_match", "infra_error"}
Terminal == {"succeeded", "failed", "error", "infra_error"}

(* TERMINAL_STATUSES of the driver, which lacks one of them.               *)
DriverTerminal == {"succeeded", "failed", "error"}

Evaluations == {"true_positive", "false_positive", "false_negative"}

NoRun == [status |-> "absent", cand |-> FALSE, plaus |-> FALSE,
          steps |-> << >>, last |-> "none", live |-> FALSE]

NoData == [stale |-> FALSE, plaus |-> FALSE, known |-> FALSE]

Unevaluated == "none"

Init ==
    /\ pc = "submit"
    /\ next = 1
    /\ elapsed = 0
    /\ data = NoData
    /\ run = [f \in Fixtures |-> NoRun]
    /\ evals = [f \in Fixtures |-> Unevaluated]
    /\ redelivered = 0
    /\ view = << >>
    /\ seen = {}

Matched(f) == \E i \in DOMAIN run[f].steps : run[f].steps[i] = "matched"

-----------------------------------------------------------------------------
(* The worker                                                              *)

(* An attempt is judged, and verdict_node logs it or fails to.             *)
Judge(f) ==
    /\ run[f].live
    /\ run[f].last \in {"none", "no_match"}
    /\ Len(run[f].steps) < MaxSteps[f]
    /\ \E v \in Verdicts, logged \in BOOLEAN :
          run' = [run EXCEPT ![f].last = v,
                             ![f].steps = IF logged THEN Append(@, v) ELSE @]
    /\ UNCHANGED <<driverVars, evals, redelivered, metricsVars>>

(* The row persist writes: it tells the outcome, or that writing it failed *)
(* (the failure write leaves the outcome's columns alone, a reconciled     *)
(* dead letter sets them).                                                 *)
Rows(r) ==
    LET told == [r EXCEPT !.cand  = r.last # "none",
                          !.plaus = r.last = "matched"]
        status == CASE r.last = "matched"     -> {"succeeded"}
                    [] r.last = "no_match"    -> {"failed"}
                    [] r.last = "infra_error" -> {"infra_error"}
                    [] r.last = "none"        -> {"error", "infra_error"}
    IN  {[told EXCEPT !.status = s] : s \in status \cup {"error"}}
          \cup {[r EXCEPT !.status = "error"]}

(* The run ends: persist writes its row, or the job fails and leaves it.   *)
Conclude(f) ==
    /\ run[f].live
    /\ \E r \in Rows(run[f]) \cup {run[f]} :
          run' = [run EXCEPT ![f] = [r EXCEPT !.live = FALSE,
                                              !.last = "none"]]
    /\ UNCHANGED <<driverVars, evals, redelivered, metricsVars>>

(* After a crash the job is delivered again, also one whose row is already *)
(* terminal; the status write at its start may be lost.                    *)
Redeliver(f) ==
    /\ run[f].status # "absent"
    /\ redelivered < MaxRedeliveries
    /\ redelivered' = redelivered + 1
    /\ \E s \in {"executing", run[f].status} :
          run' = [run EXCEPT ![f].live = TRUE, ![f].last = "none",
                             ![f].status = s]
    /\ UNCHANGED <<driverVars, evals, metricsVars>>

-----------------------------------------------------------------------------
(* The benchmark driver                                                    *)

(* What belongs to one fixture is set anew for the next one.               *)
Forget == elapsed' = 0 /\ data' = NoData

(* The next fixture is submitted: accepted, refused (the fixture is        *)
(* skipped), or the request raises, which nothing catches.                 *)
Submit ==
    /\ pc = "submit"
    /\ next <= N
    /\ \/ /\ run' = [run EXCEPT ![next].status = "executing",
                                ![next].live = TRUE]
          /\ pc' = "poll"
          /\ UNCHANGED next
       \/ /\ next' = next + 1
          /\ UNCHANGED <<pc, run>>
       \/ /\ pc' = "aborted"
          /\ UNCHANGED <<next, run>>
    /\ Forget
    /\ UNCHANGED <<evals, redelivered, metricsVars>>

(* Mutant: the wait starts again with every answer.                        *)
ElapsedSinceAnswer(ok) == IF ok THEN 0 ELSE elapsed + 1

(* elapsed grows with every poll, also with one that fails.                *)
Elapsed(ok) == elapsed + 1

(* get_run_detail: a run that is not terminal may have become stale.       *)
Answers(r) ==
    [stale : IF r.status \in Terminal THEN {FALSE} ELSE BOOLEAN,
     plaus : {r.plaus}, known : {TRUE}]

(* One poll: no usable answer, or one that ends the wait when the run is   *)
(* stale or in a status the driver knows as terminal.                      *)
Poll ==
    /\ pc = "poll"
    /\ elapsed < MaxPolls
    /\ \/ /\ elapsed' = Elapsed(FALSE)
          /\ UNCHANGED <<pc, data>>
       \/ /\ elapsed' = Elapsed(TRUE)
          /\ data' \in Answers(run[next])
          /\ pc' = IF data'.stale \/ run[next].status \in DriverTerminal
                   THEN "record" ELSE "poll"
    /\ UNCHANGED <<next, run, evals, redelivered, metricsVars>>

(* The limit is reached: record what the last answer said, if there was    *)
(* one, and otherwise skip the fixture.                                    *)
WaitOver ==
    /\ pc = "poll"
    /\ elapsed >= MaxPolls
    /\ \/ /\ data.known
          /\ pc' = "record"
          /\ UNCHANGED next
          /\ UNCHANGED <<elapsed, data>>
       \/ /\ ~data.known
          /\ pc' = "submit"
          /\ next' = next + 1
          /\ Forget
    /\ UNCHANGED <<run, evals, redelivered, metricsVars>>

(* Mutant: a stale run is stored as such.                                  *)
StoredVerdictStale(f) ==
    CASE data.stale                   -> "stale"
      [] ~data.stale /\ data.plaus    -> IF GroundTruth[f] THEN "true_positive"
                                         ELSE "false_positive"
      [] ~data.stale /\ ~data.plaus   -> "false_negative"

(* The verdict against the ground truth.                                   *)
StoredVerdict(f) ==
    CASE data.stale                   -> "false_negative"
      [] ~data.stale /\ data.plaus    -> IF GroundTruth[f] THEN "true_positive"
                                         ELSE "false_positive"
      [] ~data.stale /\ ~data.plaus   -> "false_negative"

(* The row of evaluation_results is inserted, or the insert raises, with   *)
(* or without the row, and the whole benchmark ends.                       *)
Record ==
    /\ pc = "record"
    /\ \/ /\ evals' = [evals EXCEPT ![next] = StoredVerdict(next)]
          /\ \/ pc' = "submit" /\ next' = next + 1
             \/ pc' = "aborted" /\ UNCHANGED next
       \/ /\ pc' = "aborted"
          /\ UNCHANGED <<next, evals>>
    /\ Forget
    /\ UNCHANGED <<run, redelivered, metricsVars>>

Finish ==
    /\ pc = "submit"
    /\ next > N
    /\ pc' = "done"
    /\ UNCHANGED <<next, elapsed, data, run, evals, redelivered, metricsVars>>

-----------------------------------------------------------------------------
(* Counting                                                                *)

Item(class, cand, plaus) == [class |-> class, cand |-> cand, plaus |-> plaus]

(* Mutants: the last step decides; and a matching step leaves the row's    *)
(* candidate_produced as it is.                                            *)
MetricsItemLastStep(row, steps) ==
    IF steps # << >>
    THEN IF steps[Len(steps)] = "matched"
         THEN Item("true_positive", TRUE, TRUE)
         ELSE Item("false_negative", row.cand, FALSE)
    ELSE Item(IF row.status \in {"infra_error", "error"} THEN "infra"
              ELSE row.stored, row.cand, row.plaus)

MetricsItemRow(row, steps) ==
    IF steps # << >>
    THEN IF \E i \in DOMAIN steps : steps[i] = "matched"
         THEN Item("true_positive", row.cand, TRUE)
         ELSE Item("false_negative", row.cand, FALSE)
    ELSE Item(IF row.status \in {"infra_error", "error"} THEN "infra"
              ELSE row.stored, row.cand, row.plaus)

(* get_brt_metrics, for one row of its first query and the verdict steps   *)
(* of its second: a verdict step decides, else the row's status, else the  *)
(* stored verdict.                                                         *)
MetricsItem(row, steps) ==
    IF steps # << >>
    THEN IF \E i \in DOMAIN steps : steps[i] = "matched"
         THEN Item("true_positive", TRUE, TRUE)
         ELSE Item("false_negative", row.cand, FALSE)
    ELSE Item(IF row.status \in {"infra_error", "error"} THEN "infra"
              ELSE row.stored, row.cand, row.plaus)

(* summarize_benchmark: the same without infrastructure failures.          *)
SummaryItem(row, steps) ==
    IF steps # << >>
    THEN IF \E i \in DOMAIN steps : steps[i] = "matched"
         THEN Item("true_positive", TRUE, TRUE)
         ELSE Item("false_negative", row.cand, FALSE)
    ELSE Item(row.stored, row.cand, row.plaus)

Evaluated == {f \in Fixtures : evals[f] # Unevaluated}

(* A row of the join of evaluation_results and reproduction_runs.          *)
JoinedRow(f) == [stored |-> evals[f], status |-> run[f].status,
                 cand |-> run[f].cand, plaus |-> run[f].plaus]

(* The first query of the metrics; the steps are read in a second one.     *)
ReadRows ==
    /\ view' = [f \in Evaluated |-> JoinedRow(f)]
    /\ seen' = {f \in Evaluated : Matched(f)}
    /\ UNCHANGED <<driverVars, run, evals, redelivered>>

(* What the metrics answer when their second query comes now.              *)
Metrics == [f \in DOMAIN view |-> MetricsItem(view[f], run[f].steps)]

(* What the summary prints now: it has one query.                          *)
Summary == [f \in Evaluated |-> SummaryItem(JoinedRow(f), run[f].steps)]

-----------------------------------------------------------------------------

Next ==
    \/ \E f \in Fixtures : Judge(f) \/ Conclude(f) \/ Redeliver(f)
    \/ Submit \/ Poll \/ WaitOver \/ Record \/ Finish
    \/ ReadRows

(* The driver goes on; whether a run ever ends is not its concern.         *)
Spec ==
    /\ Init /\ [][Next]_vars
    /\ WF_vars(Submit \/ Poll \/ WaitOver \/ Record \/ Finish)

-----------------------------------------------------------------------------
(* Properties                                                              *)

(* The state stays in its type: the driver stores only verdicts the        *)
(* database's enumeration has, and only for fixtures it is through with.   *)
TypeOK ==
    /\ pc \in {"submit", "poll", "record", "done", "aborted"}
    /\ next \in 1 .. N + 1
    /\ pc \in {"poll", "record"} => next <= N
    /\ elapsed \in 0 .. MaxPolls
    /\ data \in [stale : BOOLEAN, plaus : BOOLEAN, known : BOOLEAN]
    /\ run \in [Fixtures -> [status : Terminal \cup {"absent", "executing"},
                             cand : BOOLEAN, plaus : BOOLEAN,
                             steps : Seq(Verdicts),
                             last : Verdicts \cup {"none"}, live : BOOLEAN]]
    /\ evals \in [Fixtures -> Evaluations \cup {Unevaluated}]
    /\ \A f \in Evaluated : f <= next /\ run[f].status # "absent"
    /\ redelivered \in 0 .. MaxRedeliveries
    /\ DOMAIN view \subseteq Evaluated
    /\ seen \subseteq DOMAIN view

(* An evaluated run whose log had a matching verdict when the rows were    *)
(* read counts as a reproduction in metrics and summary, whatever became   *)
(* of its row, and however later deliveries of it end ("so downstream      *)
(* persistence failures do not falsely penalize algorithmic reproduction   *)
(* outcomes").                                                             *)
MatchedIsNotPenalized ==
    /\ \A f \in seen : Metrics[f].class = "true_positive"
    /\ \A f \in Evaluated :
          Matched(f) => Summary[f].class = "true_positive"

(* The rates are rates of one population: a run counted as plausible is    *)
(* counted as a candidate too, in the metrics and in the summary, although *)
(* row and steps are written, and read, at different moments.              *)
RatesAreRates ==
    \A items \in {Metrics, Summary} : \A f \in DOMAIN items :
        items[f].plaus => items[f].cand

(* The benchmark ends although runs may never do: the wait is bounded      *)
(* whatever the polls come back with.                                      *)
BenchmarkEnds == <>(pc \in {"done", "aborted"})

=============================================================================
