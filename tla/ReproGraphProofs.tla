-------------------------- MODULE ReproGraphProofs --------------------------
(***************************************************************************)
(* Proofs about ReproGraph for every payload, ceiling and set of sandbox   *)
(* outcomes.  None of the properties is inductive by itself: they follow   *)
(* from GraphInv, which says for each node what the state handed to it     *)
(* looks like.                                                             *)
(***************************************************************************)
EXTENDS ReproGraph, TLAPS

-----------------------------------------------------------------------------
(* What the nodes do to the state they are handed, for every state         *)

\* The number of attempts ingest grants.
Budget == Smaller(MaxHypotheses, Ceiling)

\* The number of attempts a run is entitled to is positive.
LEMMA BudgetType == Budget \in Nat \ {0}
  BY GraphAssumption DEF Budget, Smaller

\* What Len and indexing return for the two ways a history is built.
LEMMA EmptyHistory == ASSUME NEW h, h = << >> PROVE Len(h) = 0
  OBVIOUS

LEMMA LongerHistory ==
    ASSUME NEW h \in Seq(Record), NEW r \in Record
    PROVE  /\ Append(h, r) \in Seq(Record)
           /\ Len(Append(h, r)) = Len(h) + 1
           /\ Append(h, r)[Len(h) + 1] = r
           /\ \A i \in 1 .. Len(h) : Append(h, r)[i] = h[i]
  OBVIOUS

\* Every record gets one of the four verdicts.
LEMMA JudgeType == ASSUME NEW rec PROVE Judge(rec) \in Verdicts
  BY DEF Judge, Verdicts

\* Every state has a terminal verdict and one of the four terminal statuses.
LEMMA PersistType ==
    ASSUME NEW s \in State
    PROVE  TerminalVerdict(s) \in FinalVerdicts \ {"unset"} /\ RowStatus(s) \in TerminalStatuses
  <1>1. s.final_verdict \in FinalVerdicts
    BY DEF State
  <1>2. TerminalVerdict(s) \in FinalVerdicts \ {"unset"}
    BY <1>1 DEF TerminalVerdict, FinalVerdicts
  <1>3. RowStatus(s) \in TerminalStatuses
    BY DEF RowStatus, TerminalStatuses
  <1>4. QED
    BY <1>2, <1>3

\* Each node keeps the state's type.
LEMMA NodesType ==
    ASSUME NEW s \in State
    PROVE  /\ \A ok \in BOOLEAN : IngestNode(s, ok) \in State
           /\ \A t \in Trees : RepoAnalysisNode(s, t) \in State
           /\ \A ok \in BOOLEAN : DependencyInstallNode(s, ok) \in State
           /\ HypothesisGenNode(s) \in State
           /\ ScriptGenNode(s) \in State
           /\ \A out \in AllOutcomes : SandboxExecNode(s, out) \in State
           /\ MinimizationNode(s) \in State
  <1> USE DEF State
  <1>1. \A ok \in BOOLEAN : IngestNode(s, ok) \in State
    BY GraphAssumption DEF IngestNode, Smaller, FinalVerdicts
  <1>2. \A t \in Trees : RepoAnalysisNode(s, t) \in State
    BY DEF RepoAnalysisNode
  <1>3. \A ok \in BOOLEAN : DependencyInstallNode(s, ok) \in State
    BY DEF DependencyInstallNode, InstallFails
  <1>4. HypothesisGenNode(s) \in State /\ ScriptGenNode(s) \in State
    BY DEF HypothesisGenNode, ScriptGenNode
  <1>5. \A out \in AllOutcomes : SandboxExecNode(s, out) \in State
    BY DEF SandboxExecNode, Last, Verdicts, FinalVerdicts
  <1>6. MinimizationNode(s) \in State
    BY DEF MinimizationNode
  <1>7. QED
    BY <1>1, <1>2, <1>3, <1>4, <1>5, <1>6

\* verdict appends one record, whose verdict is its judgement of the last run.
LEMMA VerdictEffect ==
    ASSUME NEW s \in State
    PROVE  LET v == Judge(s.last)
               t == VerdictNode(s)
           IN  /\ t \in State
               /\ v \in Verdicts
               /\ t.history = Append(s.history, [idx |-> s.last.idx, verdict |-> v])
               /\ t.last.verdict = v
               /\ t.reproduced = (v = "matched")
               /\ t.final_verdict = IF v \in {"matched", "infra_error"} THEN v ELSE "unset"
               /\ t.error = (s.error \/ v = "infra_error")
               /\ t.idx = s.idx /\ t.max = s.max
               /\ t.script = s.script /\ t.minimized = s.minimized
  <1> DEFINE v == Judge(s.last)
             rec == [idx |-> s.last.idx, verdict |-> v]
  <1>1. v \in Verdicts
    BY JudgeType
  <1>2. s.last \in Last /\ s.history \in Seq(Record)
    BY DEF State
  <1>3. rec \in Record
    BY <1>1, <1>2 DEF Record, Last
  <1>4. Append(s.history, rec) \in Seq(Record)
    BY <1>2, <1>3
  <1>5. [s.last EXCEPT !.verdict = v] \in Last
    BY <1>1, <1>2 DEF Last
  <1> HIDE DEF v, rec
  <1>6. VerdictNode(s) = [s EXCEPT !.last          = [s.last EXCEPT !.verdict = v],
                                   !.history       = Append(s.history, rec),
                                   !.reproduced    = v = "matched",
                                   !.final_verdict = IF v \in {"infra_error", "matched"}
                                                     THEN v ELSE "unset",
                                   !.error         = s.error \/ v = "infra_error"]
    BY DEF VerdictNode, v, rec, State, Last
  <1>7. QED
    BY <1>1, <1>2, <1>4, <1>5, <1>6 DEF State, FinalVerdicts, Verdicts, Last, v, rec

\* The state a thread without a checkpoint starts from is well-typed.
LEMMA FreshType == FreshState \in State
  <1>1. NoLast \in Last
    BY DEF NoLast, Last
  <1>2. << >> \in Seq(Record)
    OBVIOUS
  <1>3. MaxHypotheses \in Nat /\ "absent" \in Trees /\ "unset" \in FinalVerdicts
    BY GraphAssumption DEF Trees, FinalVerdicts
  <1>4. QED
    BY <1>1, <1>2, <1>3 DEF FreshState, State

\* The first n attempts neither matched nor met an infrastructure failure.
Undecided(n) == \A i \in 1 .. n : state.history[i].verdict \in {"no_match", "error"}

Numbered ==
    /\ \A i \in 1 .. Len(state.history) : state.history[i].idx = i
    /\ Len(state.history) <= state.idx
    /\ state.idx <= Len(state.history) + 1
    /\ state.idx <= Budget
    /\ Undecided(state.idx - 1)

\* Nothing was attempted yet.
Untouched ==
    /\ state.idx = 0
    /\ state.history = << >>
    /\ state.last.verdict = "none"
    /\ ~state.reproduced

Clean == ~state.error /\ state.max = Budget

\* What a finished attempt left, by its verdict v.
Attempted(v) ==
    /\ state.idx \in Nat \ {0}
    /\ Len(state.history) = state.idx
    /\ state.history[state.idx].verdict = v
    /\ state.last.verdict = v
    /\ state.reproduced = (v = "matched")
    /\ state.final_verdict = IF v \in {"matched", "infra_error"} THEN v ELSE "unset"
    /\ state.error = (v = "infra_error")

\* What persist is handed, by the status it will write.
Concluded(st) ==
    \/ st = "succeeded"   /\ Attempted("matched") /\ state.minimized = state.idx
    \/ st = "infra_error" /\ Attempted("infra_error") /\ state.minimized = 0
    \/ /\ st = "failed"
       /\ Attempted("no_match") \/ Attempted("error")
       /\ state.idx = Budget
       /\ state.minimized = 0
    \/ /\ st = "error"
       /\ Untouched /\ state.error
       /\ state.final_verdict \in {"unset", "invalid_input"}
       /\ state.minimized = 0

\* What a finished run looks like; persist has overwritten the final verdict.
Finished(st) ==
    /\ st \in TerminalStatuses
    /\ st = "error" => state.history = << >>
    /\ st # "error" =>
         /\ state.idx \in Nat \ {0}
         /\ Len(state.history) = state.idx
         /\ state.history[state.idx].verdict \in
                CASE st = "succeeded"   -> {"matched"}
                  [] st = "infra_error" -> {"infra_error"}
                  [] OTHER              -> {"no_match", "error"}
         /\ st = "failed" => state.idx = Budget
    /\ state.minimized = IF st = "succeeded" THEN state.idx ELSE 0

AtNode ==
    /\ pc \notin {"minimization", "persist", "END", "out_of_steps"} => state.minimized = 0
    /\ pc = "ingest" => Untouched /\ ~state.error /\ state.final_verdict = "unset"
                        /\ state.max = MaxHypotheses
    /\ pc \in {"repo_analysis", "env_setup", "dependency_install"} =>
         /\ Untouched
         /\ valid  => Clean /\ state.final_verdict = "unset"
         /\ ~valid => state.error /\ state.final_verdict = "invalid_input"
    /\ pc = "hypothesis_gen" =>
         /\ Clean
         /\ Len(state.history) = state.idx
         /\ state.idx < Budget
         /\ Undecided(state.idx)
    /\ pc \in {"script_gen", "sandbox_exec", "verdict"} =>
         /\ state.idx \in Nat \ {0}
         /\ state.idx = Len(state.history) + 1
         /\ state.max = Budget
    /\ pc \in {"script_gen", "sandbox_exec"} => ~state.error
    /\ pc \in {"sandbox_exec", "verdict"} => state.script = state.idx
    /\ pc = "verdict" =>
         /\ state.last.idx = state.idx
         /\ state.last.verdict \in {"infra_error", "error"}
         /\ state.error = (state.last.verdict = "infra_error")
    /\ pc = "minimization" => Attempted("matched") /\ state.script = state.idx
                              /\ state.minimized = 0
    /\ pc = "persist" => \E st \in TerminalStatuses : Concluded(st)
    /\ pc = "END" => Finished(status)

GraphInv == TypeOK /\ Numbered /\ AtNode

-----------------------------------------------------------------------------
(* The invariant                                                           *)

\* Type correctness: no node hands on a state of the wrong shape.
THEOREM TypeCorrect == Spec => []TypeOK
  <1>1. Init => TypeOK
    BY FreshType, RecursionAssumption DEF Init, TypeOK, Nodes
  <1>2. TypeOK /\ [Next]_vars => TypeOK'
    <2> SUFFICES ASSUME TypeOK, [Next]_vars PROVE TypeOK'
      OBVIOUS
    <2>0. /\ state \in State /\ valid \in BOOLEAN
          /\ taken < RecursionLimit => taken + 1 \in 0 .. RecursionLimit
      BY RecursionAssumption DEF TypeOK
    <2> USE DEF TypeOK, Step, Nodes
    <2>1. CASE Ingest
      BY <2>0, <2>1, NodesType DEF Ingest
    <2>2. CASE RepoAnalysis
      BY <2>0, <2>2, NodesType DEF RepoAnalysis, CloneResults
    <2>3. CASE EnvSetup
      BY <2>0, <2>3 DEF EnvSetup
    <2>4. CASE DependencyInstall
      BY <2>0, <2>4, NodesType
      DEF DependencyInstall, RouteAfterDependencyInstall, TerminalStatuses
    <2>5. CASE HypothesisGen \/ ScriptGen
      BY <2>0, <2>5, NodesType DEF HypothesisGen, ScriptGen
    <2>6. CASE LLMGivesUp \/ OutOfSteps
      BY <2>6 DEF LLMGivesUp, OutOfSteps
    <2>7. CASE SandboxExec
      BY <2>0, <2>7, NodesType, GraphAssumption DEF SandboxExec
    <2>8. CASE Verdict
      BY <2>0, <2>8, VerdictEffect DEF Verdict, RouteAfterVerdict
    <2>9. CASE Minimization
      BY <2>0, <2>9, NodesType DEF Minimization
    <2>10. CASE Persist
      <3>1. state' \in State
        BY <2>0, <2>10, PersistType DEF Persist, State
      <3>2. QED
        BY <2>0, <2>10, <3>1, PersistType DEF Persist
    <2>11. CASE Terminated \/ UNCHANGED vars
      BY <2>11 DEF Terminated, vars
    <2>12. QED
      BY <2>1, <2>2, <2>3, <2>4, <2>5, <2>6, <2>7, <2>8, <2>9, <2>10, <2>11 DEF Next
  <1>3. QED
    BY <1>1, <1>2, PTL DEF Spec

\* What each node is handed, for every number of attempts: the invariant the
\* properties rest on.
THEOREM GraphInvariant == Spec => []GraphInv
  <1>1. Init => GraphInv
    <2> SUFFICES ASSUME Init PROVE GraphInv
      OBVIOUS
    <2>1. TypeOK
      BY FreshType, RecursionAssumption DEF Init, TypeOK, Nodes
    <2>2. /\ pc = "ingest" /\ state.idx = 0 /\ state.history = << >>
          /\ state.last.verdict = "none" /\ state.minimized = 0
          /\ ~state.reproduced /\ ~state.error /\ state.final_verdict = "unset"
          /\ state.max = MaxHypotheses
      BY DEF Init, FreshState, NoLast
    <2>3. Numbered
      <3>1. Len(state.history) = 0
        BY <2>2, EmptyHistory
      <3>2. Undecided(state.idx - 1)
        BY <2>2 DEF Undecided
      <3>3. QED
        BY <2>2, <3>1, <3>2, BudgetType DEF Numbered
    <2>4. AtNode
      BY <2>2 DEF AtNode, Untouched
    <2>5. QED
      BY <2>1, <2>3, <2>4 DEF GraphInv
  <1>2. GraphInv /\ TypeOK' /\ [Next]_vars => GraphInv'
    <2> SUFFICES ASSUME GraphInv, TypeOK', [Next]_vars PROVE Numbered' /\ AtNode'
      BY DEF GraphInv
    <2>0. /\ TypeOK /\ Numbered /\ AtNode
          /\ state \in State /\ valid \in BOOLEAN /\ Budget \in Nat \ {0}
      BY BudgetType DEF GraphInv, TypeOK
    <2>1. CASE Ingest
      <3>1. /\ pc = "ingest" /\ pc' = "repo_analysis" /\ valid' = valid
            /\ state' = IngestNode(state, valid)
        BY <2>1 DEF Ingest, Step
      <3>2. Untouched /\ ~state.error /\ state.final_verdict = "unset" /\ state.minimized = 0
            /\ state.max = MaxHypotheses
        BY <2>0, <3>1 DEF AtNode
      <3>3. /\ state'.idx = state.idx /\ state'.history = state.history
            /\ state'.last = state.last /\ state'.reproduced = state.reproduced
            /\ state'.minimized = state.minimized
            /\ valid => /\ state'.max = Budget /\ state'.error = state.error
                        /\ state'.final_verdict = state.final_verdict
            /\ ~valid => state'.error /\ state'.final_verdict = "invalid_input"
        BY <2>0, <3>1, <3>2 DEF IngestNode, Budget, State
      <3>4. QED
        BY <2>0, <3>1, <3>2, <3>3 DEF Numbered, AtNode, Undecided, Untouched, Clean
    <2>2. CASE RepoAnalysis \/ EnvSetup
      <3>1. /\ pc \in {"repo_analysis", "env_setup"}
            /\ pc' \in {"env_setup", "dependency_install"} /\ valid' = valid
            /\ \E t \in Trees : state' = [state EXCEPT !.tree = t]
        BY <2>0, <2>2 DEF RepoAnalysis, EnvSetup, Step, CloneResults, RepoAnalysisNode, State
      <3>2. /\ state'.idx = state.idx /\ state'.history = state.history
            /\ state'.last = state.last /\ state'.reproduced = state.reproduced
            /\ state'.minimized = state.minimized /\ state'.max = state.max
            /\ state'.error = state.error /\ state'.final_verdict = state.final_verdict
        BY <2>0, <3>1 DEF State
      <3>3. QED
        BY <2>0, <3>1, <3>2 DEF Numbered, AtNode, Undecided, Untouched, Clean
    <2>3. CASE DependencyInstall
      <3>1. PICK ok \in BOOLEAN :
              /\ pc = "dependency_install" /\ valid' = valid
              /\ state' = DependencyInstallNode(state, ok)
              /\ pc' = RouteAfterDependencyInstall(state')
        BY <2>3 DEF DependencyInstall, Step
      <3>2. /\ Untouched /\ state.minimized = 0
            /\ valid  => Clean /\ state.final_verdict = "unset"
            /\ ~valid => state.error /\ state.final_verdict = "invalid_input"
        BY <2>0, <3>1 DEF AtNode
      <3>3. /\ state'.idx = state.idx /\ state'.history = state.history
            /\ state'.last = state.last /\ state'.reproduced = state.reproduced
            /\ state'.minimized = state.minimized /\ state'.max = state.max
            /\ state'.final_verdict = state.final_verdict
            /\ state.error => state'.error
        BY <2>0, <3>1 DEF DependencyInstallNode, State
      <3>4. Numbered'
        BY <2>0, <3>2, <3>3 DEF Numbered, Undecided
      <3>5. CASE state'.error
        <4>1. pc' = "persist" /\ Concluded("error")'
          BY <3>1, <3>2, <3>3, <3>5 DEF RouteAfterDependencyInstall, Concluded, Untouched
        <4>2. QED
          BY <3>4, <4>1 DEF AtNode, TerminalStatuses
      <3>6. CASE ~state'.error
        <4>1. pc' = "hypothesis_gen" /\ Clean'
          BY <3>1, <3>2, <3>3, <3>6 DEF RouteAfterDependencyInstall, Clean
        <4>2. state'.idx = 0 /\ Len(state'.history) = 0 /\ state'.minimized = 0
          BY <3>2, <3>3, EmptyHistory DEF Untouched
        <4>3. Undecided(state.idx)'
          BY <4>2 DEF Undecided
        <4>4. QED
          BY <2>0, <3>4, <4>1, <4>2, <4>3 DEF AtNode
      <3>7. QED
        BY <3>5, <3>6
    <2>4. CASE HypothesisGen
      <3>1. /\ pc = "hypothesis_gen" /\ pc' = "script_gen"
            /\ state' = HypothesisGenNode(state)
        BY <2>4 DEF HypothesisGen, Step
      <3>2. /\ Clean /\ Len(state.history) = state.idx /\ state.idx < Budget
            /\ Undecided(state.idx) /\ state.minimized = 0
        BY <2>0, <3>1 DEF AtNode
      <3>3. /\ state'.idx = state.idx + 1 /\ state.idx \in Nat
            /\ state'.history = state.history /\ state'.minimized = state.minimized
            /\ state'.max = state.max /\ state'.error = state.error
        BY <2>0, <3>1 DEF HypothesisGenNode, State
      <3>4. QED
        BY <2>0, <3>1, <3>2, <3>3 DEF Numbered, AtNode, Undecided, Clean
    <2>5. CASE ScriptGen
      <3>1. /\ pc = "script_gen" /\ pc' = "sandbox_exec"
            /\ state' = ScriptGenNode(state)
        BY <2>5 DEF ScriptGen, Step
      <3>2. /\ state'.idx = state.idx /\ state'.script = state.idx
            /\ state'.history = state.history /\ state'.minimized = state.minimized
            /\ state'.max = state.max /\ state'.error = state.error
        BY <2>0, <3>1 DEF ScriptGenNode, State
      <3>3. QED
        BY <2>0, <3>1, <3>2 DEF Numbered, AtNode, Undecided
    <2>6. CASE LLMGivesUp \/ OutOfSteps
      <3>1. /\ pc \in Nodes /\ pc' \in {"raised", "out_of_steps"} /\ state' = state
            /\ valid' = valid
        BY <2>6 DEF LLMGivesUp, OutOfSteps, Nodes
      <3>2. pc' = "raised" => state.minimized = 0
        BY <2>0, <2>6 DEF LLMGivesUp, OutOfSteps, AtNode
      <3>3. QED
        BY <2>0, <3>1, <3>2 DEF Numbered, AtNode, Undecided
    <2>7. CASE SandboxExec
      <3>1. PICK out \in Outcomes :
              /\ pc = "sandbox_exec" /\ pc' = "verdict"
              /\ state' = SandboxExecNode(state, out)
        BY <2>7 DEF SandboxExec, Step
      <3>2. /\ state'.idx = state.idx /\ state'.script = state.script
            /\ state'.history = state.history /\ state'.minimized = state.minimized
            /\ state'.max = state.max
            /\ state'.last.idx = state.idx
            /\ state'.last.verdict = IF out = "infra" THEN "infra_error" ELSE "error"
            /\ state'.error = (state.error \/ out = "infra")
        BY <2>0, <3>1 DEF SandboxExecNode, State
      <3>3. QED
        BY <2>0, <3>1, <3>2 DEF Numbered, AtNode, Undecided
    <2>8. CASE Verdict
      <3>0. PICK v \in Verdicts : v = Judge(state.last)
        BY JudgeType
      <3>1. /\ pc = "verdict" /\ state' = VerdictNode(state)
            /\ pc' = RouteAfterVerdict(state')
        BY <2>8 DEF Verdict, Step
      <3>2. /\ state.idx \in Nat \ {0} /\ state.idx = Len(state.history) + 1
            /\ state.max = Budget /\ state.script = state.idx /\ state.minimized = 0
            /\ state.last.idx = state.idx
            /\ state.error = (state.last.verdict = "infra_error")
        BY <2>0, <3>1 DEF AtNode
      <3>3. /\ v \in Verdicts
            /\ state'.history = Append(state.history, [idx |-> state.idx, verdict |-> v])
            /\ state'.last.verdict = v
            /\ state'.reproduced = (v = "matched")
            /\ state'.final_verdict = IF v \in {"matched", "infra_error"} THEN v ELSE "unset"
            /\ state'.error = (state.error \/ v = "infra_error")
            /\ state'.idx = state.idx /\ state'.max = state.max
            /\ state'.script = state.script /\ state'.minimized = state.minimized
        BY <2>0, <3>0, <3>1, <3>2, VerdictEffect
      <3>4. state.last.verdict = "infra_error" => v = "infra_error"
        BY <3>0 DEF Judge
      <3>5. state.history \in Seq(Record)
        BY <2>0 DEF State
      <3>6. /\ Len(state'.history) = state'.idx
            /\ state'.history[state'.idx] = [idx |-> state.idx, verdict |-> v]
            /\ \A i \in 1 .. state.idx - 1 : state'.history[i] = state.history[i]
        <4>1. [idx |-> state.idx, verdict |-> v] \in Record
          BY <3>2 DEF Record
        <4>2. /\ Len(state'.history) = Len(state.history) + 1
              /\ state'.history[Len(state.history) + 1] = [idx |-> state.idx, verdict |-> v]
              /\ \A i \in 1 .. Len(state.history) : state'.history[i] = state.history[i]
          BY <3>3, <3>5, <4>1, LongerHistory
        <4>3. Len(state.history) = state.idx - 1 /\ state'.idx = Len(state.history) + 1
          BY <3>2, <3>3, <3>5
        <4>4. QED
          BY <4>2, <4>3
      <3>7. Attempted(v)'
        <4>1. state'.history[state'.idx].verdict = v
          BY <3>6
        <4>2. state'.error = (v = "infra_error")
          BY <3>2, <3>3, <3>4
        <4>3. QED
          BY <3>2, <3>3, <3>6, <4>1, <4>2 DEF Attempted
      <3>8. Numbered'
        BY <2>0, <3>2, <3>3, <3>6 DEF Numbered, Undecided
      <3>9. CASE v = "infra_error"
        <4>1. pc' = "persist" /\ Concluded("infra_error")'
          BY <3>1, <3>2, <3>3, <3>7, <3>9
          DEF RouteAfterVerdict, InfraError, Concluded
        <4>2. QED
          BY <3>8, <4>1 DEF AtNode, TerminalStatuses
      <3>10. CASE v = "matched"
        <4>1. pc' = "minimization"
          BY <3>1, <3>3, <3>10 DEF RouteAfterVerdict, InfraError
        <4>2. QED
          BY <3>2, <3>3, <3>7, <3>8, <3>10, <4>1 DEF AtNode
      <3>11. CASE v \in {"no_match", "error"} /\ state.idx < state.max
        <4>1. pc' = "hypothesis_gen"
          BY <3>1, <3>3, <3>11 DEF RouteAfterVerdict, InfraError
        <4>2. Undecided(state.idx)'
          BY <2>0, <3>2, <3>3, <3>6, <3>11 DEF Numbered, Undecided
        <4>3. QED
          BY <3>2, <3>3, <3>6, <3>7, <3>8, <3>11, <4>1, <4>2 DEF AtNode, Clean, Attempted
      <3>12. CASE v \in {"no_match", "error"} /\ ~(state.idx < state.max)
        <4>1. pc' = "persist"
          BY <3>1, <3>3, <3>12 DEF RouteAfterVerdict, InfraError
        <4>2. state'.idx = Budget
          BY <2>0, <3>2, <3>3, <3>12 DEF Numbered
        <4>3. Concluded("failed")'
          BY <3>2, <3>3, <3>7, <3>12, <4>2 DEF Concluded
        <4>4. QED
          BY <3>8, <4>1, <4>3 DEF AtNode, TerminalStatuses
      <3>13. QED
        BY <3>3, <3>9, <3>10, <3>11, <3>12 DEF Verdicts
    <2>9. CASE Minimization
      <3>1. /\ pc = "minimization" /\ pc' = "persist"
            /\ state' = [state EXCEPT !.minimized = state.script]
        BY <2>9 DEF Minimization, Step, MinimizationNode
      <3>2. Attempted("matched") /\ state.script = state.idx
        BY <2>0, <3>1 DEF AtNode
      <3>3. /\ state'.idx = state.idx /\ state'.history = state.history
            /\ state'.last = state.last /\ state'.reproduced = state.reproduced
            /\ state'.final_verdict = state.final_verdict /\ state'.error = state.error
            /\ state'.minimized = state.script
        BY <2>0, <3>1 DEF State
      <3>4. Concluded("succeeded")' /\ Numbered'
        BY <2>0, <3>2, <3>3 DEF Concluded, Attempted, Numbered, Undecided
      <3>5. QED
        BY <3>1, <3>4 DEF AtNode, TerminalStatuses
    <2>10. CASE Persist
      <3>1. /\ pc = "persist" /\ pc' = "END" /\ status' = RowStatus(state)
            /\ state'.idx = state.idx /\ state'.history = state.history
            /\ state'.minimized = state.minimized
        BY <2>0, <2>10 DEF Persist, Step, State
      <3>2. PICK st \in TerminalStatuses : Concluded(st)
        BY <2>0, <3>1 DEF AtNode
      <3>3. RowStatus(state) = st
        BY <3>2 DEF Concluded, TerminalStatuses, Attempted, Untouched, RowStatus, TerminalVerdict
      <3>4. Finished(st)'
        BY <3>1, <3>2 DEF Finished, Concluded, TerminalStatuses, Attempted, Untouched
      <3>5. Numbered'
        BY <2>0, <3>1 DEF Numbered, Undecided
      <3>6. QED
        BY <3>1, <3>3, <3>4, <3>5 DEF AtNode
    <2>11. CASE Terminated \/ UNCHANGED vars
      <3>1. UNCHANGED vars
        BY <2>11 DEF Terminated
      <3>2. QED
        BY <2>0, <3>1
        DEF vars, Numbered, AtNode, Undecided, Untouched, Clean, Attempted, Concluded, Finished
    <2>12. QED
      BY <2>1, <2>2, <2>3, <2>4, <2>5, <2>6, <2>7, <2>8, <2>9, <2>10, <2>11 DEF Next
  <1>3. QED
    BY <1>1, <1>2, TypeCorrect, PTL DEF Spec

-----------------------------------------------------------------------------
(* The properties                                                          *)

\* The history lists the attempts in order and never exceeds the budget.
THEOREM HistoryOrdered == Spec => []AttemptsInOrder
  <1>1. GraphInv => AttemptsInOrder
    BY DEF GraphInv, Numbered, AttemptsInOrder, Budget
  <1>2. QED
    BY <1>1, GraphInvariant, PTL

\* No attempt follows a match or an infrastructure failure.
THEOREM DecisiveIsLast == Spec => []NothingAfterDecisive
  <1>1. GraphInv => NothingAfterDecisive
    BY DEF GraphInv, Numbered, Undecided, NothingAfterDecisive
  <1>2. QED
    BY <1>1, GraphInvariant, PTL

\* The status of a finished run says what its attempts came to.
THEOREM StatusIsRight == Spec => []StatusTellsOutcome
  <1>1. GraphInv => StatusTellsOutcome
    <2> SUFFICES ASSUME GraphInv, pc = "END"
                 PROVE  /\ status = "succeeded"   => state.history # << >> /\ LastVerdict = "matched"
                        /\ status = "infra_error" => state.history # << >> /\ LastVerdict = "infra_error"
                        /\ status = "failed"      =>
                             /\ Len(state.history) = Smaller(MaxHypotheses, Ceiling)
                             /\ LastVerdict \in {"no_match", "error"}
                        /\ status = "error"       => state.history = << >>
      BY DEF StatusTellsOutcome
    <2>1. Finished(status)
      BY DEF GraphInv, AtNode
    <2>2. state.history # << >> \/ Len(state.history) = 0
      BY EmptyHistory
    <2>3. QED
      BY <2>1, <2>2 DEF Finished, LastVerdict, Budget
  <1>2. QED
    BY <1>1, GraphInvariant, PTL

\* A finished run keeps the minimized script of its matching attempt, or none.
THEOREM MinimizedIsRight == Spec => []MinimizedIsTheMatch
  <1>1. GraphInv => MinimizedIsTheMatch
    BY DEF GraphInv, AtNode, Finished, TerminalStatuses, MinimizedIsTheMatch
  <1>2. QED
    BY <1>1, GraphInvariant, PTL

-----------------------------------------------------------------------------
(* The recursion limit                                                     *)

\* How many nodes have run when a node is about to run: four before the first
\* attempt, four in each, and perhaps minimization.
Counted ==
    /\ pc = "ingest"             => taken = 0 /\ state.idx = 0
    /\ pc = "repo_analysis"      => taken = 1 /\ state.idx = 0
    /\ pc = "env_setup"          => taken = 2 /\ state.idx = 0
    /\ pc = "dependency_install" => taken = 3 /\ state.idx = 0
    /\ pc = "hypothesis_gen"     => taken = 4 * state.idx + 4
    /\ pc = "script_gen"         => taken = 4 * state.idx + 1
    /\ pc = "sandbox_exec"       => taken = 4 * state.idx + 2
    /\ pc = "verdict"            => taken = 4 * state.idx + 3
    /\ pc = "minimization"       => taken = 4 * state.idx + 4
    /\ pc = "persist"            => taken = 4 * state.idx + 4 \/ taken = 4 * state.idx + 5
    /\ pc = "out_of_steps"       => RecursionLimit <= 4 * state.idx + 5

\* What each node does to the count and the number of the attempt.
LEMMA NodesCount ==
    ASSUME TypeOK, Counted, [Next]_vars
    PROVE  Counted'
  <1>0. /\ state \in State /\ state.idx \in Nat /\ taken \in Nat /\ RecursionLimit \in Nat
    BY RecursionAssumption DEF TypeOK, State
  <1>1. CASE Ingest
    <2>1. pc = "ingest" /\ pc' = "repo_analysis" /\ taken' = taken + 1 /\ state'.idx = state.idx
      BY <1>0, <1>1 DEF Ingest, Step, IngestNode, State
    <2>2. QED
      BY <1>0, <2>1 DEF Counted
  <1>2. CASE RepoAnalysis
    <2>1. /\ pc = "repo_analysis" /\ pc' = "env_setup" /\ taken' = taken + 1
          /\ state'.idx = state.idx
      BY <1>0, <1>2 DEF RepoAnalysis, Step, RepoAnalysisNode, State
    <2>2. QED
      BY <1>0, <2>1 DEF Counted
  <1>3. CASE EnvSetup
    BY <1>0, <1>3 DEF EnvSetup, Step, Counted
  <1>4. CASE DependencyInstall
    <2>1. /\ pc = "dependency_install" /\ pc' \in {"persist", "hypothesis_gen"}
          /\ taken' = taken + 1 /\ state'.idx = state.idx
      BY <1>0, <1>4 DEF DependencyInstall, Step, DependencyInstallNode, State,
         RouteAfterDependencyInstall
    <2>2. taken' = 4 /\ state'.idx = 0
      BY <1>0, <2>1 DEF Counted
    <2>3. QED
      BY <2>1, <2>2 DEF Counted
  <1>5. CASE HypothesisGen
    <2>1. /\ pc = "hypothesis_gen" /\ pc' = "script_gen" /\ taken' = taken + 1
          /\ state'.idx = state.idx + 1
      BY <1>0, <1>5 DEF HypothesisGen, Step, HypothesisGenNode, State
    <2>2. QED
      BY <1>0, <2>1 DEF Counted
  <1>6. CASE ScriptGen
    <2>1. /\ pc = "script_gen" /\ pc' = "sandbox_exec" /\ taken' = taken + 1
          /\ state'.idx = state.idx
      BY <1>0, <1>6 DEF ScriptGen, Step, ScriptGenNode, State
    <2>2. QED
      BY <1>0, <2>1 DEF Counted
  <1>7. CASE SandboxExec
    <2>1. /\ pc = "sandbox_exec" /\ pc' = "verdict" /\ taken' = taken + 1
          /\ state'.idx = state.idx
      BY <1>0, <1>7 DEF SandboxExec, Step, SandboxExecNode, State
    <2>2. QED
      BY <1>0, <2>1 DEF Counted
  <1>8. CASE Verdict
    <2>1. /\ pc = "verdict" /\ taken' = taken + 1 /\ state'.idx = state.idx
          /\ pc' \in {"persist", "minimization", "hypothesis_gen"}
      BY <1>0, <1>8, VerdictEffect DEF Verdict, Step, RouteAfterVerdict
    <2>2. QED
      BY <1>0, <2>1 DEF Counted
  <1>9. CASE Minimization
    <2>1. /\ pc = "minimization" /\ pc' = "persist" /\ taken' = taken + 1
          /\ state'.idx = state.idx
      BY <1>0, <1>9 DEF Minimization, Step, MinimizationNode, State
    <2>2. taken' = 4 * state.idx + 5
      <3>1. taken = 4 * state.idx + 4
        BY <2>1 DEF Counted
      <3>2. QED
        BY <1>0, <2>1, <3>1
    <2>3. QED
      BY <2>1, <2>2 DEF Counted
  <1>10. CASE Persist \/ LLMGivesUp
    <2>1. pc' \in {"END", "raised"}
      BY <1>10 DEF Persist, Step, LLMGivesUp
    <2>2. QED
      BY <2>1 DEF Counted
  <1>11. CASE OutOfSteps
    <2>1. /\ pc \in Nodes /\ taken = RecursionLimit /\ pc' = "out_of_steps"
          /\ state'.idx = state.idx
      BY <1>11 DEF OutOfSteps
    <2>2. taken <= 4 * state.idx + 5
      BY <1>0, <2>1 DEF Counted, Nodes
    <2>3. QED
      BY <2>1, <2>2 DEF Counted
  <1>12. CASE Terminated \/ UNCHANGED vars
    BY <1>12 DEF Terminated, vars, Counted
  <1>13. QED
    BY <1>1, <1>2, <1>3, <1>4, <1>5, <1>6, <1>7, <1>8, <1>9, <1>10, <1>11, <1>12 DEF Next

THEOREM CountInvariant == Spec => []Counted
  <1>1. Init => Counted
    BY DEF Init, Counted, FreshState
  <1>2. TypeOK /\ Counted /\ [Next]_vars => Counted'
    BY NodesCount
  <1>3. QED
    BY <1>1, <1>2, TypeCorrect, PTL DEF Spec

\* The limit ends only a call that has made the attempts it leaves room for.
THEOREM LimitIsLate == Spec => []AttemptsBeforeLimit
  <1>1. Counted => AttemptsBeforeLimit
    BY DEF Counted, AttemptsBeforeLimit, CutShort
  <1>2. QED
    BY <1>1, CountInvariant, PTL

\* How large a limit the budget needs: four nodes, four for each attempt, and
\* minimization and persist.  With it no call is ever out of steps.
THEOREM LimitSuffices ==
    ASSUME RecursionLimit >= 4 * Budget + 6
    PROVE  Spec => [](pc # "out_of_steps")
  <1>1. GraphInv /\ Counted => pc # "out_of_steps"
    <2> SUFFICES ASSUME GraphInv, Counted, pc = "out_of_steps" PROVE FALSE
      OBVIOUS
    <2>1. RecursionLimit <= 4 * state.idx + 5
      BY DEF Counted
    <2>2. state.idx \in Nat /\ state.idx <= Budget /\ Budget \in Nat /\ RecursionLimit \in Nat
      BY BudgetType, RecursionAssumption DEF GraphInv, TypeOK, State, Numbered
    <2>3. QED
      BY <2>1, <2>2
  <1>2. QED
    BY <1>1, GraphInvariant, CountInvariant, PTL
=============================================================================
