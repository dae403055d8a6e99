--------------------------- MODULE EvaluationProofs ---------------------------
(***************************************************************************)
(* Proofs about Evaluation: its type, that a reproduction that was logged  *)
(* is counted whatever becomes of its row, and that plausible runs are     *)
(* counted as candidates, for every number of fixtures, polls, attempts    *)
(* and redeliveries.                                                       *)
(***************************************************************************)
EXTENDS Evaluation, TLAPS

RunRecord == [status : Terminal \cup {"absent", "executing"},
              cand : BOOLEAN, plaus : BOOLEAN,
              steps : Seq(Verdicts),
              last : Verdicts \cup {"none"}, live : BOOLEAN]

(* The driver waits for, and records, only a run that exists.              *)
WaitsForARun == pc \in {"poll", "record"} => run[next].status # "absent"

(* A row that claims a reproduction claims a candidate.                    *)
RowsFit == \A f \in Fixtures : run[f].plaus => run[f].cand

ViewFits == \A f \in DOMAIN view : view[f].plaus => view[f].cand

(* A step that was logged stays in the log.                                *)
SeenStays == \A f \in seen : Matched(f)

IInv ==
    /\ TypeOK
    /\ WaitsForARun
    /\ RowsFit
    /\ ViewFits
    /\ SeenStays

-----------------------------------------------------------------------------
(* Every row persist may write is a row, keeps the log, is not absent, and *)
(* claims a candidate when it claims a reproduction.                       *)
LEMMA RowsLemma ==
    ASSUME NEW r \in RunRecord, r.plaus => r.cand, NEW w \in Rows(r)
    PROVE  /\ w \in RunRecord
           /\ w.steps = r.steps
           /\ w.status # "absent"
           /\ w.plaus => w.cand
<1> DEFINE told == [r EXCEPT !.cand  = r.last # "none",
                             !.plaus = r.last = "matched"]
           status == CASE r.last = "matched"     -> {"succeeded"}
                       [] r.last = "no_match"    -> {"failed"}
                       [] r.last = "infra_error" -> {"infra_error"}
                       [] r.last = "none"        -> {"error", "infra_error"}
<1>1. status \subseteq Terminal
  BY DEF RunRecord, Verdicts, Terminal
<1>2. /\ told \in RunRecord
      /\ told.steps = r.steps
      /\ told.plaus => told.cand
  BY DEF RunRecord
<1>3. \/ \E s \in status \cup {"error"} : w = [told EXCEPT !.status = s]
      \/ w = [r EXCEPT !.status = "error"]
  BY DEF Rows
<1>4. ASSUME NEW s \in status \cup {"error"}, w = [told EXCEPT !.status = s]
      PROVE  /\ w \in RunRecord
             /\ w.steps = r.steps
             /\ w.status # "absent"
             /\ w.plaus => w.cand
  <2>1. s \in Terminal
    BY <1>1 DEF Terminal
  <2> HIDE DEF told, status
  <2> QED
    BY <1>2, <1>4, <2>1 DEF RunRecord, Terminal
<1>5. ASSUME w = [r EXCEPT !.status = "error"]
      PROVE  /\ w \in RunRecord
             /\ w.steps = r.steps
             /\ w.status # "absent"
             /\ w.plaus => w.cand
  BY <1>5 DEF RunRecord, Terminal
<1> QED
  BY <1>3, <1>4, <1>5

(* A step that changes one run only, and neither forgets what was logged   *)
(* nor takes the row away, keeps the invariant.                            *)
LEMMA RunStep ==
    ASSUME IInv, NEW f \in Fixtures, NEW r \in RunRecord,
           run' = [run EXCEPT ![f] = r],
           r.plaus => r.cand,
           r.status = "absent" => run[f].status = "absent",
           \A i \in DOMAIN run[f].steps :
              i \in DOMAIN r.steps /\ r.steps[i] = run[f].steps[i],
           redelivered' \in 0 .. MaxRedeliveries,
           UNCHANGED <<driverVars, evals, metricsVars>>
    PROVE  IInv'
<1>1. run' \in [Fixtures -> RunRecord]
  BY DEF IInv, TypeOK, RunRecord
<1>2. \A g \in Fixtures : run'[g] = IF g = f THEN r ELSE run[g]
  BY DEF IInv, TypeOK
<1>3. Evaluated' = Evaluated /\ Evaluated \subseteq Fixtures
  BY DEF Evaluated, Fixtures
<1>4. TypeOK'
  <2>1. \A g \in Evaluated : run'[g].status # "absent"
    BY <1>2, <1>3 DEF IInv, TypeOK
  <2> QED
    BY <1>1, <1>3, <2>1 DEF IInv, TypeOK, RunRecord, driverVars, metricsVars
<1>5. WaitsForARun'
  <2>1. pc \in {"poll", "record"} => next \in Fixtures
    BY EvaluationAssumption DEF IInv, TypeOK, Fixtures
  <2> QED
    BY <1>2, <2>1 DEF IInv, WaitsForARun, driverVars
<1>6. RowsFit'
  BY <1>2 DEF IInv, RowsFit, Fixtures
<1>7. ViewFits'
  BY DEF IInv, ViewFits, metricsVars
<1>8. SeenStays'
  <2>1. seen \subseteq Fixtures
    BY <1>3 DEF IInv, TypeOK
  <2>2. \A g \in Fixtures : Matched(g) => Matched(g)'
    BY <1>2 DEF Matched
  <2> QED
    BY <2>1, <2>2 DEF IInv, SeenStays, metricsVars
<1> QED
  BY <1>4, <1>5, <1>6, <1>7, <1>8 DEF IInv

-----------------------------------------------------------------------------

LEMMA InitInvariant == Init => IInv
<1> SUFFICES ASSUME Init PROVE IInv
  OBVIOUS
<1>1. Evaluated = {}
  BY DEF Init, Evaluated
<1>2. TypeOK
  BY <1>1, EvaluationAssumption
     DEF Init, TypeOK, NoRun, NoData, Unevaluated, Verdicts, Terminal
<1>3. WaitsForARun /\ RowsFit /\ ViewFits /\ SeenStays
  BY DEF Init, WaitsForARun, RowsFit, ViewFits, SeenStays, NoRun
<1> QED
  BY <1>2, <1>3 DEF IInv

(* A step of the driver that stores no verdict and touches no run.         *)
LEMMA DriverStep ==
    ASSUME IInv, UNCHANGED <<run, evals, redelivered, metricsVars>>,
           pc' \in {"submit", "poll", "record", "done", "aborted"},
           next' \in 1 .. N + 1, next' >= next,
           pc' \in {"poll", "record"} => pc = "poll" /\ next' = next,
           elapsed' \in 0 .. MaxPolls,
           data' \in [stale : BOOLEAN, plaus : BOOLEAN, known : BOOLEAN]
    PROVE  IInv'
<1>1. Evaluated' = Evaluated
  BY DEF Evaluated, Fixtures
<1>2. \A f \in Evaluated : f <= next'
  BY EvaluationAssumption DEF IInv, TypeOK, Evaluated, Fixtures
<1>3. TypeOK'
  BY <1>1, <1>2 DEF IInv, TypeOK, metricsVars
<1>4. WaitsForARun'
  BY DEF IInv, WaitsForARun
<1>5. RowsFit' /\ ViewFits' /\ SeenStays'
  BY DEF IInv, RowsFit, ViewFits, SeenStays, Matched, metricsVars
<1> QED
  BY <1>3, <1>4, <1>5 DEF IInv

LEMMA NextInvariant == IInv /\ [Next]_vars => IInv'
<1> SUFFICES ASSUME IInv, [Next]_vars PROVE IInv'
  OBVIOUS
<1> USE EvaluationAssumption
<1>t. TypeOK /\ run \in [Fixtures -> RunRecord]
  BY DEF IInv, TypeOK, RunRecord
<1>1. ASSUME NEW f \in Fixtures, Judge(f) PROVE IInv'
  <2>1. PICK v \in Verdicts, logged \in BOOLEAN :
            run' = [run EXCEPT ![f].last = v,
                               ![f].steps = IF logged THEN Append(@, v) ELSE @]
    BY <1>1 DEF Judge
  <2> DEFINE s == IF logged THEN Append(run[f].steps, v) ELSE run[f].steps
             r == [run[f] EXCEPT !.last = v, !.steps = s]
  <2>2. run[f].steps \in Seq(Verdicts)
    BY <1>t DEF RunRecord
  <2>3. /\ s \in Seq(Verdicts)
        /\ \A i \in DOMAIN run[f].steps :
              i \in DOMAIN s /\ s[i] = run[f].steps[i]
    BY <2>2
  <2>4. run' = [run EXCEPT ![f] = r]
    BY <2>1, <1>t
  <2>5. r \in RunRecord /\ r.plaus = run[f].plaus /\ r.cand = run[f].cand
        /\ r.status = run[f].status /\ r.steps = s
    <3> HIDE DEF s
    <3> QED
      BY <1>t, <2>3 DEF RunRecord
  <2>6. run[f].plaus => run[f].cand
    BY DEF IInv, RowsFit
  <2>7. UNCHANGED <<driverVars, evals, metricsVars>>
        /\ redelivered' \in 0 .. MaxRedeliveries
    BY <1>1, <1>t DEF Judge, TypeOK
  <2> HIDE DEF r, s
  <2> QED
    BY <2>3, <2>4, <2>5, <2>6, <2>7, RunStep
<1>2. ASSUME NEW f \in Fixtures, Conclude(f) PROVE IInv'
  <2>1. PICK w \in Rows(run[f]) \cup {run[f]} :
            run' = [run EXCEPT ![f] = [w EXCEPT !.live = FALSE,
                                                !.last = "none"]]
    BY <1>2 DEF Conclude
  <2> DEFINE r == [w EXCEPT !.live = FALSE, !.last = "none"]
  <2>2. run[f] \in RunRecord /\ (run[f].plaus => run[f].cand)
    BY <1>t DEF IInv, RowsFit
  <2>3. /\ w \in RunRecord
        /\ w.steps = run[f].steps
        /\ w.status = "absent" => run[f].status = "absent"
        /\ w.plaus => w.cand
    BY <2>2, RowsLemma
  <2>4. /\ r \in RunRecord /\ r.steps = w.steps /\ r.status = w.status
        /\ r.plaus = w.plaus /\ r.cand = w.cand
    BY <2>3 DEF RunRecord
  <2>5. UNCHANGED <<driverVars, evals, metricsVars>>
        /\ redelivered' \in 0 .. MaxRedeliveries
    BY <1>2, <1>t DEF Conclude, TypeOK
  <2>6. run' = [run EXCEPT ![f] = r]
    BY <2>1
  <2> HIDE DEF r
  <2> QED
    BY <2>3, <2>4, <2>5, <2>6, RunStep
<1>3. ASSUME NEW f \in Fixtures, Redeliver(f) PROVE IInv'
  <2>1. PICK s \in {"executing", run[f].status} :
            run' = [run EXCEPT ![f].live = TRUE, ![f].last = "none",
                               ![f].status = s]
    BY <1>3 DEF Redeliver
  <2> DEFINE r == [run[f] EXCEPT !.live = TRUE, !.last = "none", !.status = s]
  <2>2. /\ r \in RunRecord /\ r.steps = run[f].steps /\ r.status = s
        /\ r.plaus = run[f].plaus /\ r.cand = run[f].cand
    BY <1>t DEF RunRecord
  <2>3. run' = [run EXCEPT ![f] = r]
    BY <2>1, <1>t
  <2>4. run[f].plaus => run[f].cand
    BY DEF IInv, RowsFit
  <2>5. UNCHANGED <<driverVars, evals, metricsVars>>
        /\ redelivered' \in 0 .. MaxRedeliveries
    BY <1>3, <1>t DEF Redeliver, TypeOK
  <2> HIDE DEF r
  <2> QED
    BY <2>2, <2>3, <2>4, <2>5, RunStep
<1>4. CASE Submit
  <2>1. /\ elapsed' = 0 /\ data' = NoData
        /\ data' \in [stale : BOOLEAN, plaus : BOOLEAN, known : BOOLEAN]
    BY <1>4 DEF Submit, Forget, NoData
  <2>2. CASE /\ run' = [run EXCEPT ![next].status = "executing",
                                   ![next].live = TRUE]
             /\ pc' = "poll" /\ UNCHANGED next
    <3> DEFINE r == [run[next] EXCEPT !.status = "executing", !.live = TRUE]
    <3>1. next \in Fixtures
      BY <1>4, <1>t DEF Submit, TypeOK, Fixtures
    <3>2. /\ r \in RunRecord /\ r.steps = run[next].steps
          /\ r.status = "executing"
          /\ r.plaus = run[next].plaus /\ r.cand = run[next].cand
      BY <1>t, <3>1 DEF RunRecord
    <3>3. run' = [run EXCEPT ![next] = r]
      BY <2>2, <1>t, <3>1
    <3>4. \A g \in Fixtures : run'[g] = IF g = next THEN r ELSE run[g]
      BY <3>3, <1>t
    <3>5. Evaluated' = Evaluated
      BY <1>4 DEF Submit, Evaluated, Fixtures
    <3> HIDE DEF r
    <3>6. TypeOK'
      <4>1. run' \in [Fixtures -> RunRecord]
        BY <1>t, <3>1, <3>2, <3>3
      <4>2. \A g \in Evaluated : run'[g].status # "absent"
        BY <1>t, <3>2, <3>4 DEF TypeOK, Evaluated
      <4>3. \A g \in Evaluated : g <= next
        BY <1>t DEF TypeOK
      <4>4. /\ pc' = "poll" /\ next' = next /\ next <= N
            /\ elapsed' \in 0 .. MaxPolls
            /\ UNCHANGED <<evals, redelivered, view, seen>>
        BY <1>4, <2>1, <2>2 DEF Submit, metricsVars
      <4> QED
        BY <1>t, <2>1, <3>5, <4>1, <4>2, <4>3, <4>4 DEF TypeOK, RunRecord
    <3>7. WaitsForARun'
      BY <2>2, <3>1, <3>2, <3>4 DEF WaitsForARun
    <3>8. RowsFit' /\ ViewFits'
      BY <1>4, <3>1, <3>2, <3>4
         DEF Submit, IInv, RowsFit, ViewFits, metricsVars, Fixtures
    <3>9. SeenStays'
      <4>1. seen \subseteq Fixtures
        BY <1>t DEF TypeOK, Evaluated
      <4>2. \A g \in Fixtures : Matched(g) => Matched(g)'
        BY <3>2, <3>4 DEF Matched
      <4> QED
        BY <1>4, <4>1, <4>2 DEF Submit, IInv, SeenStays, metricsVars
    <3> QED
      BY <3>6, <3>7, <3>8, <3>9 DEF IInv
  <2>3. CASE next' = next + 1 /\ UNCHANGED <<pc, run>>
    <3>1. next' \in 1 .. N + 1 /\ next' >= next /\ pc' = "submit"
      BY <1>4, <1>t, <2>3 DEF Submit, TypeOK
    <3> QED
      BY <1>4, <1>t, <2>1, <2>3, <3>1, DriverStep DEF Submit
  <2>4. CASE pc' = "aborted" /\ UNCHANGED <<next, run>>
    <3>1. next' \in 1 .. N + 1 /\ next' >= next
      BY <1>t, <2>4 DEF TypeOK
    <3> QED
      BY <1>4, <1>t, <2>1, <2>4, <3>1, DriverStep DEF Submit
  <2> QED
    BY <1>4, <2>2, <2>3, <2>4 DEF Submit
<1>5. CASE Poll
  <2>1. next' = next /\ pc = "poll" /\ next' \in 1 .. N + 1 /\ next' >= next
        /\ elapsed' \in 0 .. MaxPolls
        /\ pc' \in {"record", "poll"}
    BY <1>5, <1>t DEF Poll, Elapsed, TypeOK
  <2>2. data' \in [stale : BOOLEAN, plaus : BOOLEAN, known : BOOLEAN]
    <3>1. next \in Fixtures
      BY <1>5, <1>t DEF Poll, TypeOK, Fixtures
    <3>2. run[next].plaus \in BOOLEAN
      BY <1>t, <3>1 DEF RunRecord
    <3>3. Answers(run[next]) \subseteq
             [stale : BOOLEAN, plaus : BOOLEAN, known : BOOLEAN]
      BY <3>2 DEF Answers
    <3> QED
      BY <1>5, <1>t, <3>3 DEF Poll, TypeOK
  <2> QED
    BY <1>5, <2>1, <2>2, DriverStep DEF Poll
<1>6. CASE WaitOver
  <2>1. /\ pc = "poll"
        /\ next' \in 1 .. N + 1 /\ next' >= next
        /\ elapsed' \in 0 .. MaxPolls
        /\ data' \in [stale : BOOLEAN, plaus : BOOLEAN, known : BOOLEAN]
        /\ pc' \in {"record", "submit"}
        /\ pc' = "record" => next' = next
    <3>1. pc = "poll" /\ next \in 1 .. N /\ elapsed \in 0 .. MaxPolls
      BY <1>6, <1>t DEF WaitOver, TypeOK
    <3>2. CASE pc' = "record" /\ UNCHANGED <<next, elapsed, data>>
      BY <1>t, <3>1, <3>2 DEF TypeOK
    <3>3. CASE pc' = "submit" /\ next' = next + 1 /\ Forget
      BY <3>1, <3>3 DEF Forget, NoData
    <3> QED
      BY <1>6, <3>2, <3>3 DEF WaitOver
  <2> QED
    BY <1>6, <2>1, DriverStep DEF WaitOver
<1>7. CASE Record
  <2>1. /\ elapsed' = 0
        /\ data' \in [stale : BOOLEAN, plaus : BOOLEAN, known : BOOLEAN]
        /\ next \in 1 .. N + 1 /\ next' \in 1 .. N + 1 /\ next' >= next
        /\ pc' \in {"submit", "aborted"}
    BY <1>7, <1>t DEF Record, Forget, NoData, TypeOK
  <2>2. CASE evals' = [evals EXCEPT ![next] = StoredVerdict(next)]
    <3>1. next \in Fixtures /\ run[next].status # "absent"
      BY <1>7, <1>t DEF Record, TypeOK, Fixtures, IInv, WaitsForARun
    <3>2. StoredVerdict(next) \in Evaluations
      <4>1. data.stale \in BOOLEAN /\ data.plaus \in BOOLEAN
        BY <1>t DEF TypeOK
      <4> QED
        BY <4>1 DEF StoredVerdict, Evaluations
    <3>3. evals' \in [Fixtures -> Evaluations \cup {Unevaluated}]
      BY <1>t, <2>2, <3>1, <3>2 DEF TypeOK
    <3>4. Evaluated' = Evaluated \cup {next}
      BY <1>t, <2>2, <3>1, <3>2
         DEF Evaluated, TypeOK, Fixtures, Evaluations, Unevaluated
    <3>5. \A f \in Evaluated' : f <= next' /\ run[f].status # "absent"
      <4>1. \A f \in Evaluated : f \in Nat /\ f <= next
                                 /\ run[f].status # "absent"
        BY <1>t DEF TypeOK, Evaluated, Fixtures
      <4> QED
        BY <2>1, <3>1, <3>4, <4>1 DEF Fixtures
    <3>6. TypeOK'
      BY <1>7, <1>t, <2>1, <3>3, <3>4, <3>5 DEF Record, TypeOK, metricsVars
    <3>7. WaitsForARun'
      BY <2>1 DEF WaitsForARun
    <3>8. RowsFit' /\ ViewFits' /\ SeenStays'
      BY <1>7 DEF Record, IInv, RowsFit, ViewFits, SeenStays, Matched,
                  metricsVars
    <3> QED
      BY <3>6, <3>7, <3>8 DEF IInv
  <2>3. CASE UNCHANGED evals
    BY <1>7, <1>t, <2>1, <2>3, DriverStep DEF Record
  <2> QED
    BY <1>7, <2>2, <2>3 DEF Record
<1>8. CASE Finish
  <2>1. /\ next' \in 1 .. N + 1 /\ next' >= next
        /\ elapsed' \in 0 .. MaxPolls
        /\ data' \in [stale : BOOLEAN, plaus : BOOLEAN, known : BOOLEAN]
        /\ pc' = "done"
    BY <1>8, <1>t DEF Finish, TypeOK
  <2> QED
    BY <1>8, <2>1, DriverStep DEF Finish
<1>9. CASE ReadRows
  <2>1. /\ view' = [f \in Evaluated |-> JoinedRow(f)]
        /\ seen' = {f \in Evaluated : Matched(f)}
        /\ UNCHANGED <<driverVars, run, evals, redelivered>>
    BY <1>9 DEF ReadRows
  <2>2. Evaluated' = Evaluated /\ DOMAIN view' = Evaluated
    BY <2>1 DEF Evaluated, Fixtures
  <2>3. TypeOK'
    BY <1>t, <2>1, <2>2 DEF TypeOK, driverVars
  <2>4. WaitsForARun' /\ RowsFit'
    BY <2>1 DEF IInv, WaitsForARun, RowsFit, driverVars, Fixtures
  <2>5. ViewFits'
    BY <2>1, <2>2 DEF ViewFits, JoinedRow, Evaluated, IInv, RowsFit
  <2>6. SeenStays'
    BY <2>1 DEF SeenStays, Matched
  <2> QED
    BY <2>3, <2>4, <2>5, <2>6 DEF IInv
<1>10. CASE UNCHANGED vars
  <2>1. Evaluated' = Evaluated
    BY <1>10 DEF vars, Evaluated, Fixtures
  <2>2. TypeOK'
    BY <1>10, <1>t, <2>1 DEF vars, driverVars, metricsVars, TypeOK
  <2> QED
    BY <1>10, <2>2 DEF vars, driverVars, metricsVars, IInv, WaitsForARun,
                       RowsFit, ViewFits, SeenStays, Matched, Fixtures
<1> QED
  BY <1>1, <1>2, <1>3, <1>4, <1>5, <1>6, <1>7, <1>8, <1>9, <1>10 DEF Next

(* The invariant holds in every reachable state of the evaluation.         *)
THEOREM Invariant == Spec => []IInv
BY InitInvariant, NextInvariant, PTL DEF Spec

(* The state stays in its type; the driver stores verdicts of the          *)
(* database's enumeration only, and only for runs that exist.              *)
THEOREM TypeCorrect == Spec => []TypeOK
<1>1. IInv => TypeOK
  BY DEF IInv
<1> QED
  BY <1>1, Invariant, PTL

(* A matching verdict that was in the log when the metrics read their rows *)
(* is counted, whatever persist and later deliveries have done since: a    *)
(* log only grows, and it decides before status and stored verdict do.     *)
THEOREM MatchedCounts == Spec => []MatchedIsNotPenalized
<1>1. ASSUME IInv PROVE MatchedIsNotPenalized
  <2>1. ASSUME NEW f \in seen PROVE Metrics[f].class = "true_positive"
    <3>1. Matched(f) /\ f \in DOMAIN view
      BY <1>1 DEF IInv, SeenStays, TypeOK
    <3>2. Metrics[f] = MetricsItem(view[f], run[f].steps)
      BY <3>1 DEF Metrics
    <3>3. run[f].steps # << >>
      BY <3>1 DEF Matched
    <3> QED
      BY <3>1, <3>2, <3>3 DEF MetricsItem, Item, Matched
  <2>2. ASSUME NEW f \in Evaluated, Matched(f)
        PROVE  Summary[f].class = "true_positive"
    <3>1. Summary[f] = SummaryItem(JoinedRow(f), run[f].steps)
      BY DEF Summary
    <3>2. run[f].steps # << >>
      BY <2>2 DEF Matched
    <3> QED
      BY <2>2, <3>1, <3>2 DEF SummaryItem, Item, Matched
  <2> QED
    BY <2>1, <2>2 DEF MatchedIsNotPenalized
<1> QED
  BY <1>1, Invariant, PTL

(* Every run counted as plausible is counted as a candidate: no rate the   *)
(* metrics or the summary report mixes two populations.                    *)
THEOREM RatesFit == Spec => []RatesAreRates
<1>1. ASSUME IInv PROVE RatesAreRates
  <2>1. ASSUME NEW f \in DOMAIN view
        PROVE  Metrics[f].plaus => Metrics[f].cand
    <3>1. view[f].plaus => view[f].cand
      BY <1>1 DEF IInv, ViewFits
    <3>2. Metrics[f] = MetricsItem(view[f], run[f].steps)
      BY DEF Metrics
    <3> QED
      BY <3>1, <3>2 DEF MetricsItem, Item
  <2>2. ASSUME NEW f \in Evaluated
        PROVE  Summary[f].plaus => Summary[f].cand
    <3>1. JoinedRow(f).plaus => JoinedRow(f).cand
      BY <1>1 DEF IInv, RowsFit, JoinedRow, Evaluated
    <3>2. Summary[f] = SummaryItem(JoinedRow(f), run[f].steps)
      BY DEF Summary
    <3> QED
      BY <3>1, <3>2 DEF SummaryItem, Item
  <2>3. DOMAIN Metrics = DOMAIN view /\ DOMAIN Summary = Evaluated
    BY DEF Metrics, Summary
  <2> QED
    BY <2>1, <2>2, <2>3 DEF RatesAreRates
<1> QED
  BY <1>1, Invariant, PTL

===============================================================================
