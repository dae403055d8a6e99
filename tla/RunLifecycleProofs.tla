------------------------- MODULE RunLifecycleProofs -------------------------
(***************************************************************************)
(* Proofs about RunLifecycle for every set of runs, every budget and every *)
(* bound on deliveries, jobs, crashes and outages: its safety properties,  *)
(* and that its steps map to steps of RunPromise, the promise made to the  *)
(* readers of the rows, or to stutters.                                    *)
(***************************************************************************)
EXTENDS RunLifecycle, TLAPS

-----------------------------------------------------------------------------
(* What the nodes do to the state they are handed, for every state         *)

\* The number of attempts ingest grants.
Budget == Smaller(MaxHypotheses, Ceiling)

\* The number of attempts a run is entitled to is positive.
LEMMA BudgetType == Budget \in Nat \ {0}
  BY GraphAssumption DEF Budget, Smaller

\* Every state has a terminal verdict and one of the four terminal statuses.
LEMMA PersistType ==
    ASSUME NEW s \in State
    PROVE  TerminalVerdict(s) \in FinalVerdicts \ {"unset"} /\ RowStatus(s) \in TerminalStatuses
  <1>1. s.final_verdict \in FinalVerdicts
    BY DEF State
  <1>2. TerminalVerdict(s) \in FinalVerdicts \ {"unset"}
    BY <1>1 DEF TerminalVerdict, FinalVerdicts
  <1>3. RowStatus(s) \in TerminalStatuses
    BY DEF RowStatus, TerminalStatuses
  <1>4. QED
    BY <1>2, <1>3

\* Each node keeps the state's type.
LEMMA NodesType ==
    ASSUME NEW s \in State
    PROVE  /\ \A ok \in BOOLEAN : IngestNode(s, ok) \in State
           /\ \A t \in Trees : RepoAnalysisNode(s, t) \in State
           /\ \A ok \in BOOLEAN : DependencyInstallNode(s, ok) \in State
           /\ HypothesisGenNode(s) \in State
           /\ ScriptGenNode(s) \in State
           /\ \A out \in AllOutcomes : SandboxExecNode(s, out) \in State
           /\ MinimizationNode(s) \in State
  <1> USE DEF State
  <1>1. \A ok \in BOOLEAN : IngestNode(s, ok) \in State
    BY GraphAssumption DEF IngestNode, Smaller, FinalVerdicts
  <1>2. \A t \in Trees : RepoAnalysisNode(s, t) \in State
    BY DEF RepoAnalysisNode
  <1>3. \A ok \in BOOLEAN : DependencyInstallNode(s, ok) \in State
    BY DEF DependencyInstallNode, InstallFails
  <1>4. HypothesisGenNode(s) \in State /\ ScriptGenNode(s) \in State
    BY DEF HypothesisGenNode, ScriptGenNode
  <1>5. \A out \in AllOutcomes : SandboxExecNode(s, out) \in State
    BY DEF SandboxExecNode, Last, Verdicts, FinalVerdicts
  <1>6. MinimizationNode(s) \in State
    BY DEF MinimizationNode
  <1>7. QED
    BY <1>1, <1>2, <1>3, <1>4, <1>5, <1>6

\* verdict judges the last run, decides by its judgement, and keeps the budget.
LEMMA VerdictEffect ==
    ASSUME NEW s \in State
    PROVE  LET v == Judge(s.last)
               t == VerdictNode(s)
           IN  /\ t \in State
               /\ v \in Verdicts
               /\ t.last.verdict = v
               /\ t.final_verdict = IF v \in {"matched", "infra_error"} THEN v ELSE "unset"
               /\ t.error = (s.error \/ v = "infra_error")
               /\ t.idx = s.idx /\ t.max = s.max
  <1> DEFINE v == Judge(s.last)
             rec == [idx |-> s.last.idx, verdict |-> v]
  <1>1. v \in Verdicts
    BY DEF Judge, Verdicts
  <1>2. s.last \in Last /\ s.history \in Seq(Record)
    BY DEF State
  <1>3. rec \in Record
    BY <1>1, <1>2 DEF Record, Last
  <1>4. Append(s.history, rec) \in Seq(Record)
    BY <1>2, <1>3
  <1>5. [s.last EXCEPT !.verdict = v] \in Last
    BY <1>1, <1>2 DEF Last
  <1> HIDE DEF v, rec
  <1>6. VerdictNode(s) = [s EXCEPT !.last          = [s.last EXCEPT !.verdict = v],
                                   !.history       = Append(s.history, rec),
                                   !.reproduced    = v = "matched",
                                   !.final_verdict = IF v \in {"infra_error", "matched"}
                                                     THEN v ELSE "unset",
                                   !.error         = s.error \/ v = "infra_error"]
    BY DEF VerdictNode, v, rec, State, Last
  <1>7. QED
    BY <1>1, <1>2, <1>4, <1>5, <1>6 DEF State, FinalVerdicts, Verdicts, Last, v, rec

\* The state a thread without a checkpoint starts from is well-typed.
LEMMA FreshType == FreshState \in State
  <1>1. NoLast \in Last
    BY DEF NoLast, Last
  <1>2. << >> \in Seq(Record)
    OBVIOUS
  <1>3. MaxHypotheses \in Nat /\ "absent" \in Trees /\ "unset" \in FinalVerdicts
    BY GraphAssumption DEF Trees, FinalVerdicts
  <1>4. QED
    BY <1>1, <1>2, <1>3 DEF FreshState, State

-----------------------------------------------------------------------------
(* What the steps do                                                       *)

\* Replacing one value of a function keeps its type.
LEMMA ExceptType ==
    ASSUME NEW S, NEW T, NEW f \in [S -> T], NEW x \in S, NEW v \in T
    PROVE  /\ [f EXCEPT ![x] = v] \in [S -> T]
           /\ [f EXCEPT ![x] = v][x] = v
           /\ \A y \in S \ {x} : [f EXCEPT ![x] = v][y] = f[y]
  OBVIOUS

\* What remains of a task on disk is a state.
LEMMA OnDiskType ==
    /\ \A s \in State : OnDisk(s) \in State
    /\ [FreshState EXCEPT !.tree = "other_revision"] \in State
  BY FreshType DEF OnDisk, State, Trees

\* The route out of verdict and out of dependency_install is a node.
LEMMA RouteType ==
    \A s : RouteAfterVerdict(s) \in Pcs /\ RouteAfterDependencyInstall(s) \in Pcs
  BY DEF RouteAfterVerdict, RouteAfterDependencyInstall, Pcs

\* Going on at a node keeps the types of what it changes.
LEMMA NodeType ==
    ASSUME TypeOK, NEW r \in Runs, NEW place, NEW next \in Pcs, NEW s \in State,
           Node(r, place, next, s)
    PROVE  /\ pc' \in [Runs -> Pcs] /\ state' \in [Runs -> State]
           /\ checkpoint' \in [Runs -> State] /\ made' \in [Runs -> Nat]
           /\ valid' = valid /\ job' = job /\ tries' = tries
  <1>1. pc' = [pc EXCEPT ![r] = next] /\ state' = [state EXCEPT ![r] = s]
    BY DEF Node, Continue
  <1>2. checkpoint' = checkpoint \/ checkpoint' = [checkpoint EXCEPT ![r] = s]
    BY DEF Node, Save
  <1>3. made' \in [Runs -> Nat]
    BY DEF TypeOK, Node, Continue
  <1>4. QED
    BY <1>1, <1>2, <1>3, ExceptType DEF TypeOK, Node, Continue

\* Each way of setting a row keeps its type.
LEMMA RowType ==
    ASSUME TypeOK, NEW r \in Runs
    PROVE  /\ \A st \in Statuses, err \in BOOLEAN :
                TryStatus(r, st, err) => row' \in [Runs -> Row]
           /\ \A new \in Row : SetRow(r, new) => row' \in [Runs -> Row]
           /\ FinalRow(state[r]) \in Row
           /\ [row[r] EXCEPT !.status = "error", !.persist_error = TRUE] \in Row
  <1>0. row \in [Runs -> Row] /\ row[r] \in Row /\ state[r] \in State
    BY DEF TypeOK
  <1>1. \A new \in Row : SetRow(r, new) => row' \in [Runs -> Row]
    BY <1>0, ExceptType DEF SetRow
  <1>2. ASSUME NEW st \in Statuses, NEW err \in BOOLEAN
        PROVE  [row[r] EXCEPT !.status = st, !.persist_error = @ \/ err] \in Row
    BY <1>0 DEF Row
  <1>3. \A st \in Statuses, err \in BOOLEAN : TryStatus(r, st, err) => row' \in [Runs -> Row]
    BY <1>0, <1>1, <1>2 DEF TryStatus
  <1>4. RowStatus(state[r]) \in Statuses
    BY <1>0, PersistType DEF Statuses
  <1>5. state[r].reproduced \in BOOLEAN /\ state[r].persist_error \in BOOLEAN
        /\ state[r].error \in BOOLEAN
    BY <1>0 DEF State
  <1>6. FinalRow(state[r]) \in Row
    BY <1>4, <1>5 DEF FinalRow, Row
  <1>7. [row[r] EXCEPT !.status = "error", !.persist_error = TRUE] \in Row
    BY <1>0 DEF Row, Statuses, TerminalStatuses
  <1>8. QED
    BY <1>1, <1>3, <1>6, <1>7

\* A step of Work runs one node, which leads from a state to a state.
LEMMA WorkNode ==
    ASSUME NEW r \in Runs, state[r] \in State, Work(r)
    PROVE  \E place, next \in Pcs, s \in State : Node(r, place, next, s)
  <1> DEFINE s == state[r]
             Goal == \E place, next \in Pcs, t \in State : Node(r, place, next, t)
  <1>1. ASSUME NEW tree \in CloneResults(s),
               Node(r, "repo_analysis", "env_setup", RepoAnalysisNode(s, tree))
        PROVE  Goal
    <2>1. RepoAnalysisNode(s, tree) \in State
      BY NodesType DEF CloneResults
    <2>2. QED
      BY <1>1, <2>1 DEF Pcs
  <1>2. ASSUME Node(r, "env_setup", "dependency_install", s) PROVE Goal
    BY <1>2 DEF Pcs
  <1>3. ASSUME Node(r, "hypothesis_gen", "script_gen", HypothesisGenNode(s)) PROVE Goal
    BY <1>3, NodesType DEF Pcs
  <1>4. ASSUME Node(r, "script_gen", "sandbox_exec", ScriptGenNode(s)) PROVE Goal
    BY <1>4, NodesType DEF Pcs
  <1>5. ASSUME NEW out \in Outcomes,
               Node(r, "sandbox_exec", "verdict", SandboxExecNode(s, out))
        PROVE  Goal
    <2>1. SandboxExecNode(s, out) \in State
      BY NodesType, GraphAssumption
    <2>2. QED
      BY <1>5, <2>1 DEF Pcs
  <1>6. ASSUME Node(r, "verdict", RouteAfterVerdict(VerdictNode(s)), VerdictNode(s))
        PROVE  Goal
    <2>1. VerdictNode(s) \in State
      BY VerdictEffect
    <2>2. "verdict" \in Pcs
      BY DEF Pcs
    <2>3. QED
      BY <1>6, <2>1, <2>2, RouteType
  <1>7. ASSUME Node(r, "minimization", "persist", MinimizationNode(s)) PROVE Goal
    BY <1>7, NodesType DEF Pcs
  <1> HIDE DEF Goal
  <1>8. Goal
    BY <1>1, <1>2, <1>3, <1>4, <1>5, <1>6, <1>7 DEF Work
  <1>9. QED
    BY <1>8 DEF Goal

\* A bounded counter below its bound can grow by one.
LEMMA Counters ==
    ASSUME TypeOK
    PROVE  /\ crashes < MaxCrashes => crashes + 1 \in 0 .. MaxCrashes
           /\ outages < MaxOutages => outages + 1 \in 0 .. MaxOutages
  BY LifecycleAssumption DEF TypeOK

-----------------------------------------------------------------------------
(* Type correctness                                                        *)

\* The steps of tasks keep every variable in its type.
LEMMA TaskTypes ==
    ASSUME TypeOK, NEW r \in Runs, TaskStep(r) \/ PersistUnanswered(r)
    PROVE  TypeOK'
  <1>0. /\ state[r] \in State /\ pc \in [Runs -> Pcs] /\ state \in [Runs -> State]
        /\ job \in [Runs -> {"queued", "running", "complete", "failed"}]
        /\ tries \in [Runs -> 0 .. MaxTries] /\ checkpoint \in [Runs -> State]
        /\ valid[r] \in BOOLEAN /\ letter \in [Runs -> Letter] /\ row \in [Runs -> Row]
        /\ made \in [Runs -> Nat]
    BY DEF TypeOK
  <1>1. CASE Ingest(r)
    <2>1. IngestNode(state[r], valid[r]) \in State /\ "repo_analysis" \in Pcs
      BY <1>0, NodesType DEF Pcs
    <2>2. row' \in [Runs -> Row]
      BY <1>0, <1>1, RowType DEF Ingest, Statuses
    <2>3. QED
      BY <1>1, <2>1, <2>2, NodeType DEF Ingest, TypeOK, envVars
  <1>2. CASE DependencyInstall(r)
    <2>1. PICK ok \in BOOLEAN :
            LET s == DependencyInstallNode(state[r], ok)
            IN  /\ Node(r, "dependency_install", RouteAfterDependencyInstall(s), s)
                /\ IF InstallFails(state[r], ok) THEN TryStatus(r, "error", TRUE)
                                                 ELSE UNCHANGED row
                /\ UNCHANGED <<letter, pass, envVars>>
      BY <1>2 DEF DependencyInstall
    <2>2. DependencyInstallNode(state[r], ok) \in State
      BY <1>0, NodesType
    <2>3. row' \in [Runs -> Row]
      BY <1>0, <2>1, RowType DEF Statuses, TerminalStatuses
    <2>4. QED
      BY <2>1, <2>2, <2>3, NodeType, RouteType DEF TypeOK, envVars
  <1>3. CASE Work(r)
    <2>1. PICK place, next \in Pcs, s \in State : Node(r, place, next, s)
      BY <1>0, <1>3, WorkNode
    <2>2. QED
      BY <1>3, <2>1, NodeType DEF Work, TypeOK, storeVars, envVars
  <1>4. CASE PersistWrite(r) \/ PersistUnanswered(r)
    <2>1. row' \in [Runs -> Row]
      BY <1>0, <1>4, RowType DEF PersistWrite, PersistUnanswered
    <2>2. /\ pc' \in [Runs -> Pcs] /\ state' = state /\ checkpoint' = checkpoint
          /\ valid' = valid /\ job' = job /\ tries' = tries /\ made' \in [Runs -> Nat]
      <3>1. {"log", "record_failure_1"} \subseteq Pcs
        BY DEF Pcs, FailurePcs
      <3>2. \E next \in {"log", "record_failure_1"} : Proceed(r, next)
        BY <1>4 DEF PersistWrite, PersistUnanswered
      <3>3. QED
        BY <1>0, <3>1, <3>2 DEF Proceed, Continue
    <2>3. QED
      BY <1>4, <2>1, <2>2, Counters
         DEF PersistWrite, PersistUnanswered, TypeOK, envVars
  <1>5. CASE RecordFailure(r)
    <2>1. row' \in [Runs -> Row]
      BY <1>5, RowType DEF RecordFailure
    <2>2. /\ pc' \in [Runs -> Pcs] /\ state' = state /\ checkpoint' = checkpoint
          /\ valid' = valid /\ job' = job /\ tries' = tries /\ made' \in [Runs -> Nat]
      BY <1>0, <1>5 DEF RecordFailure, Proceed, Continue, Pcs
    <2>3. QED
      BY <1>5, <2>1, <2>2 DEF RecordFailure, TypeOK, envVars
  <1>6. CASE RetryRecord(r)
    <2>1. /\ pc' \in [Runs -> Pcs] /\ state' = state /\ checkpoint' = checkpoint
          /\ valid' = valid /\ job' = job /\ tries' = tries /\ made' \in [Runs -> Nat]
      BY <1>0, <1>6 DEF RetryRecord, Proceed, Continue, Pcs, FailurePcs
    <2>2. QED
      BY <1>6, <2>1 DEF RetryRecord, TypeOK, storeVars, envVars
  <1>7. CASE WriteDeadLetter(r)
    <2>1. /\ pc' \in [Runs -> Pcs] /\ state' = state /\ checkpoint' = checkpoint
          /\ valid' = valid /\ job' = job /\ tries' = tries /\ made' \in [Runs -> Nat]
      BY <1>0, <1>7 DEF WriteDeadLetter, Proceed, Continue, Pcs
    <2>2. letter' \in [Runs -> Letter]
      <3>1. [written |-> TRUE, reproduced |-> state[r].reproduced] \in Letter
        BY <1>0 DEF Letter, State
      <3>2. QED
        BY <1>0, <1>7, <3>1, ExceptType DEF WriteDeadLetter
    <2>3. QED
      BY <1>7, <2>1, <2>2 DEF WriteDeadLetter, TypeOK, envVars
  <1>8. CASE PersistReturn(r)
    <2>1. TerminalVerdict(state[r]) \in FinalVerdicts
      BY <1>0, PersistType
    <2>2. /\ [state[r] EXCEPT !.final_verdict = TerminalVerdict(state[r]),
                              !.persist_error = FALSE] \in State
          /\ [state[r] EXCEPT !.final_verdict = "error", !.persist_error = TRUE] \in State
      BY <1>0, <2>1 DEF State, FinalVerdicts
    <2>3. "return" \in Pcs
      BY DEF Pcs
    <2>4. QED
      BY <1>8, <2>2, <2>3, NodeType DEF PersistReturn, TypeOK, storeVars, envVars
  <1>9. CASE FinishJob(r)
    <2>1. OnDisk(state[r]) \in State
      BY <1>0, OnDiskType
    <2>2. /\ job' \in [Runs -> {"queued", "running", "complete", "failed"}]
          /\ pc' \in [Runs -> Pcs] /\ state' \in [Runs -> State] /\ made' \in [Runs -> Nat]
      BY <1>0, <1>9, <2>1 DEF FinishJob, Leave, Pcs
    <2>3. QED
      BY <1>9, <2>2 DEF FinishJob, Leave, TypeOK, storeVars, envVars
  <1>10. QED
    BY <1>1, <1>2, <1>3, <1>4, <1>5, <1>6, <1>7, <1>8, <1>9 DEF TaskStep

\* The steps of the queue and the reconciler that concern one run.
LEMMA JobTypes ==
    ASSUME TypeOK, NEW r \in Runs, Deliver(r) \/ GiveUp(r) \/ Abort(r) \/ Reconcile(r)
    PROVE  TypeOK'
  <1>0. /\ state[r] \in State /\ pc \in [Runs -> Pcs] /\ state \in [Runs -> State]
        /\ job \in [Runs -> {"queued", "running", "complete", "failed"}]
        /\ tries \in [Runs -> 0 .. MaxTries] /\ tries[r] \in Nat
        /\ checkpoint[r] \in State /\ letter \in [Runs -> Letter] /\ row \in [Runs -> Row]
        /\ letter[r] \in Letter /\ pass \in [Runs -> {"idle", "todo", "written"}]
        /\ made \in [Runs -> Nat]
    BY DEF TypeOK
  <1>1. CASE Deliver(r)
    <2>1. Resume(checkpoint[r]) \in State
      BY <1>0, GraphAssumption DEF Resume, State
    <2>2. \A s \in State : [s EXCEPT !.tree = state[r].tree] \in State
      BY <1>0 DEF State
    <2>3. [(IF durable THEN Resume(checkpoint[r]) ELSE FreshState)
              EXCEPT !.tree = state[r].tree] \in State
      BY <2>1, <2>2, FreshType
    <2>4. job' \in [Runs -> {"queued", "running", "complete", "failed"}]
          /\ pc' \in [Runs -> Pcs] /\ state' \in [Runs -> State] /\ made' \in [Runs -> Nat]
      BY <1>0, <1>1, <2>3 DEF Deliver, Pcs
    <2>5. tries' \in [Runs -> 0 .. MaxTries]
      BY <1>0, <1>1, LifecycleAssumption DEF Deliver
    <2>6. QED
      BY <1>1, <2>4, <2>5 DEF Deliver, TypeOK, storeVars, envVars
  <1>2. CASE GiveUp(r) \/ Abort(r)
    <2>1. OnDisk(state[r]) \in State
      BY <1>0, OnDiskType
    <2>2. /\ job' \in [Runs -> {"queued", "running", "complete", "failed"}]
          /\ pc' \in [Runs -> Pcs] /\ state' \in [Runs -> State] /\ made' \in [Runs -> Nat]
      BY <1>0, <1>2, <2>1 DEF GiveUp, Abort, Leave, Pcs
    <2>3. QED
      BY <1>2, <2>2 DEF GiveUp, Abort, Leave, TypeOK, storeVars, envVars
  <1>3. CASE ReconcileWrite(r)
    <2>1. [status |-> "error", plausible |-> letter[r].reproduced, persist_error |-> TRUE]
             \in Row
      BY <1>0 DEF Row, Letter, Statuses, TerminalStatuses
    <2>2. row' \in [Runs -> Row]
      BY <1>3, <2>1, RowType DEF ReconcileWrite
    <2>3. pass' \in [Runs -> {"idle", "todo", "written"}]
      BY <1>0, <1>3 DEF ReconcileWrite
    <2>4. QED
      BY <1>3, <2>2, <2>3 DEF ReconcileWrite, TypeOK, taskVars, envVars
  <1>4. CASE ReconcileSkip(r)
    BY <1>4 DEF ReconcileSkip, TypeOK, taskVars, envVars
  <1>5. CASE ReconcileUnlink(r)
    <2>1. letter' \in [Runs -> Letter]
      BY <1>0, <1>5 DEF ReconcileUnlink, NoLetter, Letter
    <2>2. QED
      BY <1>5, <2>1 DEF ReconcileUnlink, TypeOK, taskVars, envVars
  <1>6. QED
    BY <1>1, <1>2, <1>3, <1>4, <1>5 DEF Reconcile

\* The steps of the reconciler's passes and of the environment.
LEMMA GlobalTypes ==
    ASSUME TypeOK,
           StartReconciliation \/ Crash \/ Restart \/ NeonDown \/ NeonUp \/ Idle
           \/ UNCHANGED vars
    PROVE  TypeOK'
  <1>1. NewPass \in [Runs -> {"idle", "todo", "written"}]
    BY DEF NewPass
  <1>2. CASE StartReconciliation
    BY <1>1, <1>2 DEF StartReconciliation, TypeOK, taskVars, envVars
  <1>3. CASE Crash
    <2>1. \A s \in State : OnDisk(s) \in State
      BY OnDiskType
    <2>2. state' \in [Runs -> State]
      BY <1>3, <2>1, OnDiskType DEF Crash, TypeOK
    <2>3. /\ pc' \in [Runs -> Pcs] /\ pass' \in [Runs -> {"idle", "todo", "written"}]
          /\ job' \in [Runs -> {"queued", "running", "complete", "failed"}]
          /\ made' \in [Runs -> Nat]
      BY <1>3 DEF Crash, TypeOK, Pcs
    <2>4. QED
      BY <1>3, <2>2, <2>3, Counters DEF Crash, TypeOK
  <1>4. CASE Restart
    BY <1>1, <1>4 DEF Restart, TypeOK, taskVars
  <1>5. CASE NeonDown
    BY <1>5, Counters DEF NeonDown, TypeOK, taskVars, storeVars
  <1>6. CASE NeonUp
    BY <1>6 DEF NeonUp, TypeOK, taskVars, storeVars
  <1>7. CASE Idle \/ UNCHANGED vars
    BY <1>7 DEF Idle, vars, TypeOK, taskVars, storeVars, envVars
  <1>8. QED
    BY <1>2, <1>3, <1>4, <1>5, <1>6, <1>7

\* The system starts in its types.
LEMMA InitTypes == Init => TypeOK
  <1> SUFFICES ASSUME Init PROVE TypeOK
    OBVIOUS
  <1>1. row \in [Runs -> Row]
    BY DEF Init, Row, Statuses
  <1>2. letter \in [Runs -> Letter]
    BY DEF Init, Letter, NoLetter
  <1>3. state \in [Runs -> State] /\ checkpoint \in [Runs -> State]
    BY FreshType DEF Init
  <1>4. /\ job \in [Runs -> {"queued", "running", "complete", "failed"}]
        /\ tries \in [Runs -> 0 .. MaxTries] /\ pc \in [Runs -> Pcs]
        /\ made \in [Runs -> Nat]
        /\ pass \in [Runs -> {"idle", "todo", "written"}]
    BY LifecycleAssumption DEF Init, Pcs
  <1>5. QED
    BY <1>1, <1>2, <1>3, <1>4, LifecycleAssumption DEF Init, TypeOK

\* Every step keeps the types.
LEMMA StepTypes == TypeOK /\ [Next]_vars => TypeOK'
  BY TaskTypes, JobTypes, GlobalTypes DEF Next

\* Every variable of the life of runs stays in its type, for every set of runs.
THEOREM TypeCorrect == Spec => []TypeOK
  BY InitTypes, StepTypes, PTL DEF Spec

-----------------------------------------------------------------------------
(* The steps as one run sees them                                          *)

\* Parts of a run's local state that a step leaves alone.
KeepsTask(r) ==
    /\ job'[r] = job[r] /\ tries'[r] = tries[r] /\ pc'[r] = pc[r]
    /\ state'[r] = state[r] /\ checkpoint'[r] = checkpoint[r] /\ made'[r] = made[r]

KeepsStore(r) == row'[r] = row[r] /\ letter'[r] = letter[r] /\ pass'[r] = pass[r]

\* The attempts that reaching a place adds.
Adds(next) == IF next = "script_gen" THEN 1 ELSE 0

\* r's task moves from one place to the next, holding s, while no pass runs.
Moves(r, place, next, s) ==
    /\ pass[r] = "idle" /\ pass'[r] = "idle"
    /\ job[r] = "running" /\ job'[r] = "running" /\ tries'[r] = tries[r]
    /\ pc[r] = place /\ pc'[r] = next
    /\ state'[r] = s /\ made'[r] = made[r] + Adds(next)
    /\ checkpoint'[r] \in {checkpoint[r], s}

\* r's task ends with the given result.
Leaves(r, result) ==
    /\ job'[r] = result /\ tries'[r] = tries[r]
    /\ pc'[r] = "none" /\ state'[r] = OnDisk(state[r]) /\ made'[r] = 0
    /\ checkpoint'[r] = checkpoint[r] /\ KeepsStore(r)

\* The steps that belong to one run.
RunStep(r) ==
    Deliver(r) \/ GiveUp(r) \/ TaskStep(r) \/ Abort(r) \/ PersistUnanswered(r) \/ Reconcile(r)

\* No pass is under way while a task may run.
LEMMA LoopFreeIdle == ASSUME TypeOK, NEW r \in Runs, LoopFree(r) PROVE pass[r] = "idle"
  BY DEF TypeOK, LoopFree, Reconciling

\* Only the attempts of the run that goes on are counted.
LEMMA AttemptsMove ==
    ASSUME TypeOK, NEW r \in Runs, NEW next, NEW s, Continue(r, next, s)
    PROVE  /\ made'[r] = made[r] + Adds(next)
           /\ \A q \in Runs \ {r} : made'[q] = made[q]
  <1>1. made \in [Runs -> Nat]
    BY DEF TypeOK
  <1>2. CASE next = "script_gen"
    BY <1>1, <1>2 DEF Continue, Adds
  <1>3. CASE next # "script_gen"
    BY <1>1, <1>3 DEF Continue, Adds
  <1>4. QED
    BY <1>2, <1>3

\* Running a node moves its task and leaves the other tasks alone.
LEMMA NodeMoves ==
    ASSUME TypeOK, NEW r \in Runs, NEW place, NEW next \in Pcs, NEW s \in State,
           Node(r, place, next, s), pass' = pass
    PROVE  /\ Moves(r, place, next, s)
           /\ \A q \in Runs \ {r} : KeepsTask(q)
  <1>1. pass[r] = "idle" /\ job[r] = "running" /\ pc[r] = place
    BY LoopFreeIdle DEF Node, At
  <1>2. /\ pc' = [pc EXCEPT ![r] = next] /\ state' = [state EXCEPT ![r] = s]
        /\ valid' = valid /\ job' = job /\ tries' = tries
    BY DEF Node, Continue
  <1>3. checkpoint' = checkpoint \/ checkpoint' = [checkpoint EXCEPT ![r] = s]
    BY DEF Node, Save
  <1>4. /\ pc \in [Runs -> Pcs] /\ state \in [Runs -> State] /\ checkpoint \in [Runs -> State]
    BY DEF TypeOK
  <1>5. /\ made'[r] = made[r] + Adds(next)
        /\ \A q \in Runs \ {r} : made'[q] = made[q]
    BY AttemptsMove DEF Node
  <1>6. QED
    BY <1>1, <1>2, <1>3, <1>4, <1>5 DEF Moves, KeepsTask

\* A step within persist moves its task with the state it holds.
LEMMA ProceedMoves ==
    ASSUME TypeOK, NEW r \in Runs, NEW place, NEW next \in Pcs,
           At(r, place), Proceed(r, next), pass' = pass
    PROVE  /\ Moves(r, place, next, state[r])
           /\ \A q \in Runs \ {r} : KeepsTask(q)
  <1>1. pass[r] = "idle" /\ job[r] = "running" /\ pc[r] = place
    BY LoopFreeIdle DEF At
  <1>2. pc \in [Runs -> Pcs] /\ state \in [Runs -> State]
    BY DEF TypeOK
  <1>3. /\ pc' = [pc EXCEPT ![r] = next] /\ state' = [state EXCEPT ![r] = state[r]]
        /\ valid' = valid /\ job' = job /\ tries' = tries /\ checkpoint' = checkpoint
    BY DEF Proceed, Continue
  <1>4. /\ made'[r] = made[r] + Adds(next)
        /\ \A q \in Runs \ {r} : made'[q] = made[q]
    BY AttemptsMove DEF Proceed
  <1>5. QED
    BY <1>1, <1>2, <1>3, <1>4 DEF Moves, KeepsTask

\* A node of Work leads where its routes say, from the state it found.
WorkMoves(r) ==
    LET s == state[r]
    IN  \/ \E tree \in Trees :
             Moves(r, "repo_analysis", "env_setup", RepoAnalysisNode(s, tree))
        \/ Moves(r, "env_setup", "dependency_install", s)
        \/ Moves(r, "hypothesis_gen", "script_gen", HypothesisGenNode(s))
        \/ Moves(r, "script_gen", "sandbox_exec", ScriptGenNode(s))
        \/ \E out \in AllOutcomes :
             Moves(r, "sandbox_exec", "verdict", SandboxExecNode(s, out))
        \/ Moves(r, "verdict", RouteAfterVerdict(VerdictNode(s)), VerdictNode(s))
        \/ Moves(r, "minimization", "persist", MinimizationNode(s))

LEMMA WorkEffect ==
    ASSUME TypeOK, NEW r \in Runs, Work(r)
    PROVE  /\ WorkMoves(r)
           /\ row'[r] = row[r] /\ letter'[r] = letter[r]
           /\ \A q \in Runs \ {r} : KeepsTask(q) /\ KeepsStore(q)
  <1> DEFINE s == state[r]
             Rest == /\ WorkMoves(r)
                     /\ \A q \in Runs \ {r} : KeepsTask(q)
  <1>0. state[r] \in State /\ pass' = pass /\ row' = row /\ letter' = letter
    BY DEF TypeOK, Work, storeVars
  <1>1. ASSUME NEW tree \in CloneResults(s),
               Node(r, "repo_analysis", "env_setup", RepoAnalysisNode(s, tree))
        PROVE  Rest
    <2>1. tree \in Trees /\ RepoAnalysisNode(s, tree) \in State /\ "env_setup" \in Pcs
      BY <1>0, NodesType DEF CloneResults, Pcs
    <2>2. QED
      BY <1>0, <1>1, <2>1, NodeMoves DEF WorkMoves
  <1>2. ASSUME Node(r, "env_setup", "dependency_install", s) PROVE Rest
    <2>1. "dependency_install" \in Pcs
      BY DEF Pcs
    <2>2. QED
      BY <1>0, <1>2, <2>1, NodeMoves DEF WorkMoves
  <1>3. ASSUME Node(r, "hypothesis_gen", "script_gen", HypothesisGenNode(s)) PROVE Rest
    <2>1. "script_gen" \in Pcs /\ HypothesisGenNode(s) \in State
      BY <1>0, NodesType DEF Pcs
    <2>2. QED
      BY <1>0, <1>3, <2>1, NodeMoves DEF WorkMoves
  <1>4. ASSUME Node(r, "script_gen", "sandbox_exec", ScriptGenNode(s)) PROVE Rest
    <2>1. "sandbox_exec" \in Pcs /\ ScriptGenNode(s) \in State
      BY <1>0, NodesType DEF Pcs
    <2>2. QED
      BY <1>0, <1>4, <2>1, NodeMoves DEF WorkMoves
  <1>5. ASSUME NEW out \in Outcomes,
               Node(r, "sandbox_exec", "verdict", SandboxExecNode(s, out))
        PROVE  Rest
    <2>1. out \in AllOutcomes /\ SandboxExecNode(s, out) \in State /\ "verdict" \in Pcs
      BY <1>0, NodesType, GraphAssumption DEF Pcs
    <2>2. QED
      BY <1>0, <1>5, <2>1, NodeMoves DEF WorkMoves
  <1>6. ASSUME Node(r, "verdict", RouteAfterVerdict(VerdictNode(s)), VerdictNode(s))
        PROVE  Rest
    <2>1. VerdictNode(s) \in State /\ RouteAfterVerdict(VerdictNode(s)) \in Pcs
      BY <1>0, VerdictEffect, RouteType
    <2>2. QED
      BY <1>0, <1>6, <2>1, NodeMoves DEF WorkMoves
  <1>7. ASSUME Node(r, "minimization", "persist", MinimizationNode(s)) PROVE Rest
    <2>1. "persist" \in Pcs /\ MinimizationNode(s) \in State
      BY <1>0, NodesType DEF Pcs
    <2>2. QED
      BY <1>0, <1>7, <2>1, NodeMoves DEF WorkMoves
  <1> HIDE DEF Rest
  <1>8. Rest
    BY <1>1, <1>2, <1>3, <1>4, <1>5, <1>6, <1>7 DEF Work
  <1>9. QED
    BY <1>0, <1>8 DEF Rest, KeepsStore

\* What a step of r does to r's row, and that it does nothing to other runs.
OthersKept(r) == \A q \in Runs \ {r} : KeepsTask(q) /\ KeepsStore(q)

\* Setting one row or one letter leaves the others alone.
LEMMA SetRowEffect ==
    ASSUME TypeOK, NEW r \in Runs, NEW new \in Row, SetRow(r, new)
    PROVE  row'[r] = new /\ \A q \in Runs \ {r} : row'[q] = row[q]
  BY DEF TypeOK, SetRow

IngestEffect(r) ==
    /\ Moves(r, "ingest", "repo_analysis", IngestNode(state[r], valid[r]))
    /\ row'[r] \in {row[r], [row[r] EXCEPT !.status = "analyzing"]}
    /\ letter'[r] = letter[r]

LEMMA IngestMoves ==
    ASSUME TypeOK, NEW r \in Runs, Ingest(r)
    PROVE  IngestEffect(r) /\ OthersKept(r)
  <1>0. /\ state[r] \in State /\ valid[r] \in BOOLEAN /\ row[r] \in Row
        /\ pass' = pass /\ letter' = letter
    BY DEF TypeOK, Ingest
  <1>1. IngestNode(state[r], valid[r]) \in State /\ "repo_analysis" \in Pcs
    BY <1>0, NodesType DEF Pcs
  <1>2. /\ Moves(r, "ingest", "repo_analysis", IngestNode(state[r], valid[r]))
        /\ \A q \in Runs \ {r} : KeepsTask(q)
    BY <1>0, <1>1, NodeMoves DEF Ingest
  <1>3. row' = row \/ SetRow(r, [row[r] EXCEPT !.status = "analyzing"])
    <2>1. [row[r] EXCEPT !.status = "analyzing", !.persist_error = @ \/ FALSE]
            = [row[r] EXCEPT !.status = "analyzing"]
      BY <1>0 DEF Row
    <2>2. QED
      BY <2>1 DEF Ingest, TryStatus
  <1>4. [row[r] EXCEPT !.status = "analyzing"] \in Row
    BY <1>0 DEF Row, Statuses
  <1>5. QED
    BY <1>0, <1>2, <1>3, <1>4, SetRowEffect DEF IngestEffect, OthersKept, KeepsStore

InstallEffect(r) ==
    /\ \E ok \in BOOLEAN :
         LET s == DependencyInstallNode(state[r], ok)
         IN  /\ Moves(r, "dependency_install", RouteAfterDependencyInstall(s), s)
             /\ \/ row'[r] = row[r]
                \/ /\ InstallFails(state[r], ok)
                   /\ row'[r] = [row[r] EXCEPT !.status = "error", !.persist_error = TRUE]
    /\ letter'[r] = letter[r]

LEMMA InstallMoves ==
    ASSUME TypeOK, NEW r \in Runs, DependencyInstall(r)
    PROVE  InstallEffect(r) /\ OthersKept(r)
  <1>1. PICK ok \in BOOLEAN :
          LET s == DependencyInstallNode(state[r], ok)
          IN  /\ Node(r, "dependency_install", RouteAfterDependencyInstall(s), s)
              /\ IF InstallFails(state[r], ok) THEN TryStatus(r, "error", TRUE)
                                               ELSE UNCHANGED row
              /\ UNCHANGED <<letter, pass, envVars>>
    BY DEF DependencyInstall
  <1>2. state[r] \in State /\ row[r] \in Row /\ pass' = pass /\ letter' = letter
    BY <1>1 DEF TypeOK
  <1>3. PICK s : s = DependencyInstallNode(state[r], ok)
    OBVIOUS
  <1>4. s \in State /\ RouteAfterDependencyInstall(s) \in Pcs
    BY <1>2, <1>3, NodesType, RouteType
  <1>5. Moves(r, "dependency_install", RouteAfterDependencyInstall(s), s)
        /\ \A q \in Runs \ {r} : KeepsTask(q)
    BY <1>1, <1>2, <1>3, <1>4, NodeMoves
  <1>6. row' = row \/ /\ InstallFails(state[r], ok)
                      /\ SetRow(r, [row[r] EXCEPT !.status = "error", !.persist_error = TRUE])
    <2>1. [row[r] EXCEPT !.status = "error", !.persist_error = @ \/ TRUE]
            = [row[r] EXCEPT !.status = "error", !.persist_error = TRUE]
      BY <1>2 DEF Row
    <2>2. QED
      BY <1>1, <2>1 DEF TryStatus
  <1>7. QED
    BY <1>2, <1>3, <1>5, <1>6, RowType, SetRowEffect
       DEF InstallEffect, OthersKept, KeepsStore

\* persist's own steps.
WriteEffect(r) ==
    /\ letter'[r] = letter[r]
    /\ \/ row'[r] = FinalRow(state[r]) /\ Moves(r, "persist", "log", state[r])
       \/ /\ row'[r] \in {row[r], FinalRow(state[r])}
          /\ Moves(r, "persist", "record_failure_1", state[r])

RecordEffect(r) ==
    /\ letter'[r] = letter[r]
    /\ \E place \in FailurePcs :
         \/ /\ Moves(r, place, "log_failure", state[r])
            /\ row'[r] = [row[r] EXCEPT !.status = "error", !.persist_error = TRUE]
         \/ \E next \in FailurePcs : Moves(r, place, next, state[r]) /\ row'[r] = row[r]

SpillEffect(r) ==
    /\ row'[r] = row[r]
    /\ letter'[r] = [written |-> TRUE, reproduced |-> state[r].reproduced]
    /\ Moves(r, "record_failure_3", "log_failure", state[r])

ReturnEffect(r) ==
    /\ row'[r] = row[r] /\ letter'[r] = letter[r]
    /\ \/ Moves(r, "log", "return",
                [state[r] EXCEPT !.final_verdict = TerminalVerdict(state[r]),
                                 !.persist_error = FALSE])
       \/ Moves(r, "log_failure", "return",
                [state[r] EXCEPT !.final_verdict = "error", !.persist_error = TRUE])

LEMMA PersistMoves ==
    ASSUME TypeOK, NEW r \in Runs
    PROVE  /\ PersistWrite(r) \/ PersistUnanswered(r) => WriteEffect(r) /\ OthersKept(r)
           /\ RecordFailure(r) \/ RetryRecord(r) => RecordEffect(r) /\ OthersKept(r)
           /\ WriteDeadLetter(r) => SpillEffect(r) /\ OthersKept(r)
           /\ PersistReturn(r) => ReturnEffect(r) /\ OthersKept(r)
  <1>0. /\ state[r] \in State /\ row[r] \in Row /\ letter \in [Runs -> Letter]
        /\ FinalRow(state[r]) \in Row
        /\ [row[r] EXCEPT !.status = "error", !.persist_error = TRUE] \in Row
    BY RowType DEF TypeOK
  <1>1. FailurePcs \subseteq Pcs /\ {"persist", "log", "log_failure", "return"} \subseteq Pcs
    BY DEF Pcs
  <1>2. {"record_failure_1", "record_failure_2", "record_failure_3"} = FailurePcs
    BY DEF FailurePcs
  <1>3. ASSUME PersistWrite(r) \/ PersistUnanswered(r) PROVE WriteEffect(r) /\ OthersKept(r)
    <2>1. /\ At(r, "persist") /\ pass' = pass /\ letter' = letter
          /\ \/ SetRow(r, FinalRow(state[r])) /\ Proceed(r, "log")
             \/ /\ row' = row \/ SetRow(r, FinalRow(state[r]))
                /\ Proceed(r, "record_failure_1")
      BY <1>3 DEF PersistWrite, PersistUnanswered
    <2>2. \A next \in Pcs : Proceed(r, next) =>
             Moves(r, "persist", next, state[r]) /\ \A q \in Runs \ {r} : KeepsTask(q)
      BY <2>1, ProceedMoves
    <2>3. row' = row \/ SetRow(r, FinalRow(state[r])) =>
             row'[r] \in {row[r], FinalRow(state[r])}
             /\ \A q \in Runs \ {r} : row'[q] = row[q]
      BY <1>0, SetRowEffect
    <2>4. SetRow(r, FinalRow(state[r])) => row'[r] = FinalRow(state[r])
      BY <1>0, SetRowEffect
    <2>5. QED
      BY <1>1, <1>2, <2>1, <2>2, <2>3, <2>4 DEF WriteEffect, OthersKept, KeepsStore
  <1>4. ASSUME RecordFailure(r) PROVE RecordEffect(r) /\ OthersKept(r)
    <2>1. /\ pc[r] \in FailurePcs /\ At(r, pc[r]) /\ pass' = pass /\ letter' = letter
          /\ SetRow(r, [row[r] EXCEPT !.status = "error", !.persist_error = TRUE])
          /\ Proceed(r, "log_failure")
      BY <1>4 DEF RecordFailure
    <2>2. Moves(r, pc[r], "log_failure", state[r]) /\ \A q \in Runs \ {r} : KeepsTask(q)
      BY <1>1, <2>1, ProceedMoves
    <2>3. QED
      BY <1>0, <2>1, <2>2, SetRowEffect DEF RecordEffect, OthersKept, KeepsStore
  <1>5. ASSUME RetryRecord(r) PROVE RecordEffect(r) /\ OthersKept(r)
    <2>1. /\ pass' = pass /\ letter' = letter /\ row' = row
          /\ \E place, next \in FailurePcs : At(r, place) /\ Proceed(r, next)
      BY <1>2, <1>5 DEF RetryRecord, storeVars
    <2>2. \E place, next \in FailurePcs :
             Moves(r, place, next, state[r]) /\ \A q \in Runs \ {r} : KeepsTask(q)
      BY <1>1, <2>1, ProceedMoves
    <2>3. QED
      BY <2>1, <2>2 DEF RecordEffect, OthersKept, KeepsStore
  <1>6. ASSUME WriteDeadLetter(r) PROVE SpillEffect(r) /\ OthersKept(r)
    <2>1. /\ At(r, "record_failure_3") /\ Proceed(r, "log_failure")
          /\ pass' = pass /\ row' = row
          /\ letter' = [letter EXCEPT ![r] =
                          [written |-> TRUE, reproduced |-> state[r].reproduced]]
      BY <1>6 DEF WriteDeadLetter
    <2>2. Moves(r, "record_failure_3", "log_failure", state[r])
          /\ \A q \in Runs \ {r} : KeepsTask(q)
      BY <1>1, <2>1, ProceedMoves
    <2>3. QED
      BY <1>0, <2>1, <2>2 DEF SpillEffect, OthersKept, KeepsStore
  <1>7. ASSUME PersistReturn(r) PROVE ReturnEffect(r) /\ OthersKept(r)
    <2>1. TerminalVerdict(state[r]) \in FinalVerdicts
      BY <1>0, PersistType
    <2>2. /\ [state[r] EXCEPT !.final_verdict = TerminalVerdict(state[r]),
                              !.persist_error = FALSE] \in State
          /\ [state[r] EXCEPT !.final_verdict = "error", !.persist_error = TRUE] \in State
      BY <1>0, <2>1 DEF State, FinalVerdicts
    <2>3. pass' = pass /\ row' = row /\ letter' = letter
      BY <1>7 DEF PersistReturn, storeVars
    <2>4. QED
      BY <1>1, <1>7, <2>2, <2>3, NodeMoves
         DEF PersistReturn, ReturnEffect, OthersKept, KeepsStore
  <1>8. QED
    BY <1>3, <1>4, <1>5, <1>6, <1>7

\* The queue's steps.
DeliverEffect(r) ==
    /\ job[r] = "queued" /\ job'[r] = "running" /\ tries'[r] = tries[r] + 1
    /\ pc'[r] = "ingest" /\ made'[r] = 0
    /\ \/ state'[r] = [Resume(checkpoint[r]) EXCEPT !.tree = state[r].tree]
       \/ state'[r] = [FreshState EXCEPT !.tree = state[r].tree]
    /\ checkpoint'[r] = checkpoint[r]
    /\ KeepsStore(r) /\ pass[r] = "idle"

EndEffect(r) ==
    \/ job[r] \in {"queued", "running"} /\ Leaves(r, "failed")
    \/ job[r] = "running" /\ pc[r] = "return" /\ Leaves(r, "complete")

LEMMA JobMoves ==
    ASSUME TypeOK, NEW r \in Runs
    PROVE  /\ Deliver(r) => DeliverEffect(r) /\ OthersKept(r)
           /\ GiveUp(r) \/ Abort(r) \/ FinishJob(r) => EndEffect(r) /\ OthersKept(r)
  <1>0. /\ pc \in [Runs -> Pcs] /\ state \in [Runs -> State] /\ checkpoint \in [Runs -> State]
        /\ job \in [Runs -> {"queued", "running", "complete", "failed"}]
        /\ tries \in [Runs -> 0 .. MaxTries] /\ made \in [Runs -> Nat]
    BY DEF TypeOK
  <1>1. ASSUME Deliver(r) PROVE DeliverEffect(r) /\ OthersKept(r)
    <2>1. pass[r] = "idle" /\ pass' = pass /\ row' = row /\ letter' = letter
      BY <1>1, LoopFreeIdle DEF Deliver, storeVars
    <2>2. QED
      BY <1>0, <1>1, <2>1 DEF Deliver, DeliverEffect, OthersKept, KeepsTask, KeepsStore
  <1>2. ASSUME NEW result, Leave(r, result) PROVE Leaves(r, result) /\ OthersKept(r)
    BY <1>0, <1>2 DEF Leave, Leaves, OthersKept, KeepsTask, KeepsStore, storeVars
  <1>3. QED
    BY <1>1, <1>2 DEF GiveUp, Abort, FinishJob, At, EndEffect

\* The reconciler's steps.
ReconcileEffect(r) ==
    /\ KeepsTask(r)
    /\ \/ /\ pass[r] = "todo" /\ pass'[r] = "written" /\ letter'[r] = letter[r]
          /\ row'[r] = [status |-> "error", plausible |-> letter[r].reproduced,
                        persist_error |-> TRUE]
       \/ /\ pass[r] = "todo" /\ pass'[r] = "idle"
          /\ letter'[r] = letter[r] /\ row'[r] = row[r]
       \/ /\ pass[r] = "written" /\ pass'[r] = "idle"
          /\ letter'[r] = NoLetter /\ row'[r] = row[r]

LEMMA ReconcileMoves ==
    ASSUME TypeOK, NEW r \in Runs, Reconcile(r)
    PROVE  ReconcileEffect(r) /\ OthersKept(r)
  <1>0. /\ pass \in [Runs -> {"idle", "todo", "written"}] /\ letter \in [Runs -> Letter]
        /\ row \in [Runs -> Row]
    BY DEF TypeOK
  <1>1. \A q \in Runs : KeepsTask(q)
    BY DEF Reconcile, ReconcileWrite, ReconcileSkip, ReconcileUnlink, taskVars, KeepsTask
  <1>2. CASE ReconcileWrite(r)
    <2>1. [status |-> "error", plausible |-> letter[r].reproduced, persist_error |-> TRUE]
             \in Row
      BY <1>0 DEF Row, Letter, Statuses, TerminalStatuses
    <2>2. QED
      BY <1>0, <1>1, <1>2, <2>1, SetRowEffect
         DEF ReconcileWrite, ReconcileEffect, OthersKept, KeepsStore
  <1>3. CASE ReconcileSkip(r)
    BY <1>0, <1>1, <1>3 DEF ReconcileSkip, ReconcileEffect, OthersKept, KeepsStore
  <1>4. CASE ReconcileUnlink(r)
    BY <1>0, <1>1, <1>4 DEF ReconcileUnlink, ReconcileEffect, OthersKept, KeepsStore
  <1>5. QED
    BY <1>2, <1>3, <1>4 DEF Reconcile

\* The steps that concern all runs: a pass begins (the task is not in the middle of
\* a log step, or there is no task), the worker dies, or nothing the run can see.
PassEffect(r) ==
    /\ KeepsTask(r) /\ row'[r] = row[r] /\ letter'[r] = letter[r]
    /\ pass'[r] = IF letter[r].written THEN "todo" ELSE "idle"

CrashEffect(r) ==
    /\ job'[r] = IF job[r] = "running" THEN "queued" ELSE job[r]
    /\ tries'[r] = tries[r] /\ pc'[r] = "none" /\ made'[r] = 0
    /\ state'[r] \in {OnDisk(state[r]), [FreshState EXCEPT !.tree = "other_revision"]}
    /\ checkpoint'[r] = checkpoint[r] /\ row'[r] = row[r] /\ letter'[r] = letter[r]
    /\ pass'[r] = "idle"

LEMMA GlobalMoves ==
    ASSUME TypeOK, NEW r \in Runs
    PROVE  /\ StartReconciliation \/ Restart => PassEffect(r)
           /\ Crash => CrashEffect(r)
           /\ NeonDown \/ NeonUp \/ Idle \/ UNCHANGED vars => KeepsTask(r) /\ KeepsStore(r)
  <1>1. ASSUME StartReconciliation \/ Restart PROVE PassEffect(r)
    BY <1>1 DEF StartReconciliation, Restart, NewPass, PassEffect, taskVars, KeepsTask
  <1>2. ASSUME Crash PROVE CrashEffect(r)
    BY <1>2 DEF Crash, CrashEffect
  <1>3. ASSUME NeonDown \/ NeonUp \/ Idle \/ UNCHANGED vars
        PROVE  KeepsTask(r) /\ KeepsStore(r)
    BY <1>3 DEF NeonDown, NeonUp, Idle, vars, taskVars, storeVars, KeepsTask, KeepsStore
  <1>4. QED
    BY <1>1, <1>2, <1>3

\* The effect of a step that belongs to r, and every step as r sees it.
RunEffect(r) ==
    \/ DeliverEffect(r)
    \/ EndEffect(r)
    \/ ReconcileEffect(r)
    \/ IngestEffect(r)
    \/ InstallEffect(r)
    \/ WorkMoves(r) /\ row'[r] = row[r] /\ letter'[r] = letter[r]
    \/ WriteEffect(r)
    \/ RecordEffect(r)
    \/ SpillEffect(r)
    \/ ReturnEffect(r)

LocalStep(r) ==
    \/ KeepsTask(r) /\ KeepsStore(r)
    \/ PassEffect(r)
    \/ CrashEffect(r)
    \/ RunEffect(r)

LEMMA RunStepEffect ==
    ASSUME TypeOK, NEW r \in Runs, RunStep(r)
    PROVE  RunEffect(r) /\ OthersKept(r)
  BY JobMoves, ReconcileMoves, IngestMoves, InstallMoves, WorkEffect, PersistMoves
     DEF RunStep, TaskStep, RunEffect, OthersKept

LEMMA LocalSteps ==
    ASSUME TypeOK, [Next]_vars, NEW r \in Runs
    PROVE  LocalStep(r)
  <1>1. ASSUME NEW q \in Runs, RunStep(q) PROVE LocalStep(r)
    <2>1. CASE q = r
      BY <1>1, <2>1, RunStepEffect DEF LocalStep
    <2>2. CASE q # r
      BY <1>1, <2>2, RunStepEffect DEF OthersKept, LocalStep
    <2>3. QED
      BY <2>1, <2>2
  <1>2. CASE StartReconciliation \/ Restart
    BY <1>2, GlobalMoves DEF LocalStep
  <1>3. CASE Crash
    BY <1>3, GlobalMoves DEF LocalStep
  <1>4. CASE NeonDown \/ NeonUp \/ Idle \/ UNCHANGED vars
    BY <1>4, GlobalMoves DEF LocalStep
  <1>5. QED
    BY <1>1, <1>2, <1>3, <1>4 DEF Next, RunStep

-----------------------------------------------------------------------------
(* No outcome is lost                                                      *)

\* A task that has passed its write, or its last failure to write, has a row or a
\* letter to show for it, and a pass works on letters that exist and whose content
\* is in the row before the letter goes.
LettersInv(r) ==
    /\ pc[r] # "none" => job[r] = "running"
    /\ (job[r] = "complete" \/ pc[r] \in {"log", "log_failure", "return"})
         => row[r].status \in TerminalStatuses \/ letter[r].written
    /\ pass[r] # "idle" => letter[r].written
    /\ pass[r] = "written" => /\ row[r].status = "error" /\ row[r].persist_error
                              /\ row[r].plausible = letter[r].reproduced

\* Each local step keeps the invariant.
LEMMA LettersStep ==
    ASSUME TypeOK, NEW r \in Runs, LettersInv(r), LocalStep(r)
    PROVE  LettersInv(r)'
  <1>0. /\ state[r] \in State /\ row[r] \in Row /\ letter[r] \in Letter
        /\ job[r] \in {"queued", "running", "complete", "failed"}
        /\ pass[r] \in {"idle", "todo", "written"}
    BY DEF TypeOK
  <1>1. CASE KeepsTask(r) /\ KeepsStore(r)
    BY <1>1 DEF LettersInv, KeepsTask, KeepsStore
  <1>2. CASE PassEffect(r)
    BY <1>0, <1>2 DEF LettersInv, PassEffect, KeepsTask
  <1>3. CASE CrashEffect(r)
    BY <1>0, <1>3 DEF LettersInv, CrashEffect
  <1>4. CASE DeliverEffect(r)
    BY <1>0, <1>4 DEF LettersInv, DeliverEffect, KeepsStore
  <1>5. CASE EndEffect(r)
    BY <1>0, <1>5 DEF LettersInv, EndEffect, Leaves, KeepsStore
  <1>6. CASE ReconcileEffect(r)
    <2>1. "error" \in TerminalStatuses
      BY DEF TerminalStatuses
    <2>2. QED
      BY <1>0, <1>6, <2>1 DEF LettersInv, ReconcileEffect, KeepsTask
  <1>7. CASE IngestEffect(r)
    BY <1>7 DEF LettersInv, IngestEffect, Moves
  <1>8. CASE InstallEffect(r)
    <2>1. \A s : RouteAfterDependencyInstall(s) \in {"persist", "hypothesis_gen"}
      BY DEF RouteAfterDependencyInstall
    <2>2. /\ pass'[r] = "idle" /\ job'[r] = "running"
          /\ pc'[r] \in {"persist", "hypothesis_gen"}
      BY <1>8, <2>1 DEF InstallEffect, Moves
    <2>3. QED
      BY <2>2 DEF LettersInv
  <1>9. CASE WorkMoves(r) /\ row'[r] = row[r] /\ letter'[r] = letter[r]
    <2>1. \A s : RouteAfterVerdict(s) \in {"persist", "minimization", "hypothesis_gen"}
      BY DEF RouteAfterVerdict
    <2>2. /\ pass'[r] = "idle" /\ job'[r] = "running"
          /\ pc'[r] \notin {"log", "log_failure", "return"}
      BY <1>9, <2>1 DEF WorkMoves, Moves
    <2>3. QED
      BY <2>2 DEF LettersInv
  <1>10. CASE WriteEffect(r)
    <2>1. FinalRow(state[r]).status \in TerminalStatuses
      BY <1>0, PersistType DEF FinalRow
    <2>2. QED
      BY <1>10, <2>1 DEF LettersInv, WriteEffect, Moves
  <1>11. CASE RecordEffect(r)
    <2>1. [row[r] EXCEPT !.status = "error", !.persist_error = TRUE].status
             \in TerminalStatuses
      BY <1>0 DEF Row, TerminalStatuses
    <2>2. QED
      BY <1>11, <2>1 DEF LettersInv, RecordEffect, Moves, FailurePcs
  <1>12. CASE SpillEffect(r)
    BY <1>12 DEF LettersInv, SpillEffect, Moves
  <1>13. CASE ReturnEffect(r)
    BY <1>13 DEF LettersInv, ReturnEffect, Moves
  <1>14. QED
    BY <1>1, <1>2, <1>3, <1>4, <1>5, <1>6, <1>7, <1>8, <1>9, <1>10, <1>11, <1>12, <1>13
       DEF LocalStep, RunEffect

\* The letters invariant holds in every reachable state.
LEMMA LettersHold == Spec => [](TypeOK /\ \A r \in Runs : LettersInv(r))
  <1>1. Init => \A r \in Runs : LettersInv(r)
    BY DEF Init, LettersInv
  <1>2. TypeOK /\ (\A r \in Runs : LettersInv(r)) /\ [Next]_vars
          => (\A r \in Runs : LettersInv(r))'
    <2> SUFFICES ASSUME TypeOK, \A r \in Runs : LettersInv(r), [Next]_vars, NEW r \in Runs
                 PROVE  LettersInv(r)'
      OBVIOUS
    <2>1. LocalStep(r)
      BY LocalSteps
    <2>2. QED
      BY <2>1, LettersStep
  <1>3. QED
    BY <1>1, <1>2, InitTypes, StepTypes, PTL DEF Spec

\* No outcome is lost: a job the queue counts as complete has a terminal row or a
\* dead letter that waits, for any number of runs, crashes and outages.
THEOREM NothingLost == Spec => []CompletedRunIsAccounted
  <1>1. (\A r \in Runs : LettersInv(r)) => CompletedRunIsAccounted
    BY DEF LettersInv, CompletedRunIsAccounted, Terminal
  <1>2. QED
    BY <1>1, LettersHold, PTL

\* A dead letter goes only when the row carries its failure and its flag.
THEOREM LettersArrive == Spec => LettersAreDelivered
  <1> DEFINE Good(r) == (letter[r].written /\ ~letter'[r].written) =>
                             /\ row[r].status = "error"
                             /\ row[r].plausible = letter[r].reproduced
                             /\ row[r].persist_error
  <1>1. TypeOK /\ (\A r \in Runs : LettersInv(r)) /\ [Next]_vars => \A r \in Runs : Good(r)
    <2> SUFFICES ASSUME TypeOK, \A r \in Runs : LettersInv(r), [Next]_vars,
                        NEW r \in Runs, letter[r].written, ~letter'[r].written
                 PROVE  /\ row[r].status = "error"
                        /\ row[r].plausible = letter[r].reproduced
                        /\ row[r].persist_error
      OBVIOUS
    <2>1. LocalStep(r)
      BY LocalSteps
    <2>2. pass[r] = "written"
      <3>1. letter'[r] # letter[r]
        OBVIOUS
      <3>2. ~SpillEffect(r)
        BY DEF SpillEffect
      <3>3. ReconcileEffect(r)
        BY <2>1, <3>1, <3>2 DEF LocalStep, RunEffect, KeepsStore, PassEffect, CrashEffect,
             DeliverEffect, EndEffect, Leaves, IngestEffect, InstallEffect, WriteEffect,
             RecordEffect, ReturnEffect
      <3>4. QED
        BY <3>1, <3>3 DEF ReconcileEffect
    <2>3. QED
      BY <2>2 DEF LettersInv
  <1>2. TypeOK /\ (\A r \in Runs : LettersInv(r)) /\ [Next]_vars
          => [\A r \in Runs : (letter[r].written /\ ~letter'[r].written) =>
                 /\ row[r].status = "error"
                 /\ row[r].plausible = letter[r].reproduced
                 /\ row[r].persist_error]_vars
    BY <1>1
  <1>3. QED
    BY <1>2, LettersHold, PTL DEF Spec, LettersAreDelivered

LettersOK == TypeOK /\ \A r \in Runs : LettersInv(r)

\* The queue is done with the run, and no dead letter waits for it.
Settled(r) == job[r] \in {"complete", "failed"} /\ ~letter[r].written

\* The row of a settled run never changes again, whatever becomes of other runs, the
\* worker and Neon: OutcomesReachTheRow, once it has come about, lasts.  The same holds
\* of a run whose job failed: an analyzing row then stays so, and only its readers can
\* call it stale.
THEOREM SettledRowsStay ==
    ASSUME NEW r \in Runs, NEW v
    PROVE  Spec => [](Settled(r) /\ row[r] = v => [](Settled(r) /\ row[r] = v))
  <1> DEFINE Holds == Settled(r) /\ row[r] = v
  <1>1. LettersOK /\ Holds /\ [Next]_vars => Holds'
    <2> SUFFICES ASSUME TypeOK, LettersInv(r), Settled(r), [Next]_vars
                 PROVE  Settled(r)' /\ row'[r] = row[r]
      BY DEF LettersOK
    <2>1. LocalStep(r)
      BY LocalSteps
    <2>2. job[r] \notin {"queued", "running"} /\ pass[r] = "idle"
      BY DEF Settled, LettersInv
    <2>3. CASE (KeepsTask(r) /\ KeepsStore(r)) \/ PassEffect(r) \/ CrashEffect(r)
      BY <2>2, <2>3 DEF Settled, KeepsTask, KeepsStore, PassEffect, CrashEffect
    <2>4. ~RunEffect(r)
      BY <2>2 DEF RunEffect, DeliverEffect, EndEffect, ReconcileEffect, IngestEffect,
         InstallEffect, WorkMoves, WriteEffect, RecordEffect, SpillEffect, ReturnEffect, Moves
    <2>5. QED
      BY <2>1, <2>3, <2>4 DEF LocalStep
  <1>2. Spec => []LettersOK
    BY LettersHold DEF LettersOK
  <1> HIDE DEF Holds
  <1>3. Spec => [](Holds => []Holds)
    BY <1>1, <1>2, PTL DEF Spec
  <1>4. QED
    BY <1>3 DEF Holds

-----------------------------------------------------------------------------
(* Errors are explained                                                    *)

\* What a thread's state remembers of its failures, in memory and checkpointed:
\* an infrastructure failure is in "error", an error verdict in one of the two.
Remembers(s) ==
    /\ (s.final_verdict = "infra_error" \/ s.last.verdict = "infra_error") => s.error
    /\ s.final_verdict = "error" => s.error \/ s.persist_error

\* The places from which persist's write is still ahead or just done, after which
\* an error verdict of an earlier delivery is known to be in "error".
Concluding == {"minimization", "persist", "log"} \cup FailurePcs

ExplainedInv(r) ==
    /\ row[r].status \in {"error", "infra_error"} => row[r].persist_error
    /\ Remembers(state[r]) /\ Remembers(checkpoint[r])
    /\ pc[r] \in Concluding => (state[r].final_verdict = "error" => state[r].error)

\* The nodes keep what the state remembers.
LEMMA NodesRemember ==
    ASSUME NEW s \in State, Remembers(s)
    PROVE  /\ \A ok \in BOOLEAN : Remembers(IngestNode(s, ok))
           /\ \A t \in Trees : Remembers(RepoAnalysisNode(s, t))
           /\ \A ok \in BOOLEAN : Remembers(DependencyInstallNode(s, ok))
           /\ Remembers(HypothesisGenNode(s)) /\ Remembers(ScriptGenNode(s))
           /\ \A out \in AllOutcomes : Remembers(SandboxExecNode(s, out))
           /\ Remembers(VerdictNode(s)) /\ VerdictNode(s).final_verdict # "error"
           /\ Remembers(MinimizationNode(s))
           /\ Remembers(Resume(s))
           /\ \A t \in Trees : Remembers([s EXCEPT !.tree = t])
  <1>1. \A ok \in BOOLEAN : Remembers(IngestNode(s, ok))
    BY DEF IngestNode, Remembers, State
  <1>2. \A t \in Trees : Remembers(RepoAnalysisNode(s, t)) /\ Remembers([s EXCEPT !.tree = t])
    BY DEF RepoAnalysisNode, Remembers, State
  <1>3. \A ok \in BOOLEAN : Remembers(DependencyInstallNode(s, ok))
    BY DEF DependencyInstallNode, Remembers, State
  <1>4. Remembers(HypothesisGenNode(s)) /\ Remembers(ScriptGenNode(s))
        /\ Remembers(MinimizationNode(s)) /\ Remembers(Resume(s))
    BY DEF HypothesisGenNode, ScriptGenNode, MinimizationNode, Resume, Remembers, State
  <1>5. \A out \in AllOutcomes : Remembers(SandboxExecNode(s, out))
    BY DEF SandboxExecNode, Remembers, State, Last
  <1>6. Remembers(VerdictNode(s)) /\ VerdictNode(s).final_verdict # "error"
    BY VerdictEffect DEF Remembers, Verdicts
  <1>7. QED
    BY <1>1, <1>2, <1>3, <1>4, <1>5, <1>6

\* A fresh state remembers nothing, whatever is on disk.
LEMMA FreshRemembers ==
    /\ Remembers(FreshState)
    /\ \A t : Remembers([FreshState EXCEPT !.tree = t])
    /\ \A s : Remembers(OnDisk(s))
  BY DEF FreshState, NoLast, Remembers, OnDisk

\* What persist writes is explained, and what it returns remembers.
LEMMA FinalRowExplained ==
    ASSUME NEW s \in State, Remembers(s), s.final_verdict = "error" => s.error
    PROVE  /\ FinalRow(s).status \in {"error", "infra_error"} => FinalRow(s).persist_error
           /\ Remembers([s EXCEPT !.final_verdict = TerminalVerdict(s),
                                  !.persist_error = FALSE])
  <1>1. /\ TerminalVerdict(s) = "infra_error" => s.error
        /\ TerminalVerdict(s) = "error" => s.error
    BY DEF TerminalVerdict, Remembers
  <1>2. RowStatus(s) \in {"error", "infra_error"} => s.error
    BY <1>1 DEF RowStatus
  <1>3. QED
    BY <1>1, <1>2 DEF FinalRow, Remembers, State

\* Each local step keeps the invariant.
LEMMA ExplainedStep ==
    ASSUME TypeOK, NEW r \in Runs, ExplainedInv(r), LocalStep(r)
    PROVE  ExplainedInv(r)'
  <1>0. /\ state[r] \in State /\ checkpoint[r] \in State /\ row[r] \in Row
        /\ Remembers(state[r]) /\ Remembers(checkpoint[r])
        /\ state[r].tree \in Trees /\ valid[r] \in BOOLEAN
    BY DEF TypeOK, ExplainedInv, State
  <1>1. CASE KeepsTask(r) /\ KeepsStore(r)
    BY <1>1 DEF ExplainedInv, KeepsTask, KeepsStore
  <1>2. CASE PassEffect(r)
    BY <1>2 DEF ExplainedInv, PassEffect, KeepsTask
  <1>3. "none" \notin Concluding /\ "ingest" \notin Concluding /\ "return" \notin Concluding
        /\ "log_failure" \notin Concluding
    BY DEF Concluding, FailurePcs
  <1>4. CASE CrashEffect(r)
    BY <1>3, <1>4, FreshRemembers DEF ExplainedInv, CrashEffect
  <1>5. CASE DeliverEffect(r)
    <2>1. Resume(checkpoint[r]) \in State
      BY <1>0, GraphAssumption DEF Resume, State
    <2>2. Remembers([Resume(checkpoint[r]) EXCEPT !.tree = state[r].tree])
      BY <1>0, <2>1, NodesRemember
    <2>3. Remembers(state'[r])
      BY <1>5, <2>2, FreshRemembers DEF DeliverEffect
    <2>4. QED
      BY <1>3, <1>5, <2>3 DEF ExplainedInv, DeliverEffect, KeepsStore
  <1>6. CASE EndEffect(r)
    BY <1>3, <1>6, FreshRemembers DEF ExplainedInv, EndEffect, Leaves, KeepsStore
  <1>7. CASE ReconcileEffect(r)
    BY <1>7 DEF ExplainedInv, ReconcileEffect, KeepsTask
  <1>8. ASSUME NEW place, NEW next, NEW s, Remembers(s), Moves(r, place, next, s),
               next \in Concluding => (s.final_verdict = "error" => s.error),
               row'[r].status \in {"error", "infra_error"} => row'[r].persist_error
        PROVE  ExplainedInv(r)'
    BY <1>0, <1>8 DEF ExplainedInv, Moves
  <1>9. CASE IngestEffect(r)
    <2>1. "repo_analysis" \notin Concluding
      BY DEF Concluding, FailurePcs
    <2>2. row'[r].status \in {"error", "infra_error"} => row'[r].persist_error
      BY <1>0, <1>9 DEF IngestEffect, ExplainedInv, Row
    <2>3. Remembers(IngestNode(state[r], valid[r]))
      BY <1>0, NodesRemember
    <2>4. QED
      BY <1>8, <1>9, <2>1, <2>2, <2>3 DEF IngestEffect
  <1>10. CASE InstallEffect(r)
    <2>1. PICK ok \in BOOLEAN :
            LET s == DependencyInstallNode(state[r], ok)
            IN  /\ Moves(r, "dependency_install", RouteAfterDependencyInstall(s), s)
                /\ \/ row'[r] = row[r]
                   \/ /\ InstallFails(state[r], ok)
                      /\ row'[r] = [row[r] EXCEPT !.status = "error",
                                                  !.persist_error = TRUE]
      BY <1>10 DEF InstallEffect
    <2>2. PICK s : s = DependencyInstallNode(state[r], ok)
      OBVIOUS
    <2>3. RouteAfterDependencyInstall(s) \in Concluding => s.error
      BY DEF RouteAfterDependencyInstall, Concluding, FailurePcs
    <2>4. row'[r].status \in {"error", "infra_error"} => row'[r].persist_error
      BY <1>0, <2>1 DEF ExplainedInv, Row
    <2>5. QED
      BY <1>0, <1>8, <2>1, <2>2, <2>3, <2>4, NodesRemember
  <1>11. CASE WorkMoves(r) /\ row'[r] = row[r] /\ letter'[r] = letter[r]
    <2>1. row'[r].status \in {"error", "infra_error"} => row'[r].persist_error
      BY <1>11 DEF ExplainedInv
    <2>2. /\ "env_setup" \notin Concluding /\ "dependency_install" \notin Concluding
          /\ "script_gen" \notin Concluding /\ "sandbox_exec" \notin Concluding
          /\ "verdict" \notin Concluding /\ "minimization" \in Concluding
      BY DEF Concluding, FailurePcs
    <2>3. CASE \E tree \in Trees :
                 Moves(r, "repo_analysis", "env_setup", RepoAnalysisNode(state[r], tree))
      BY <1>0, <1>8, <2>1, <2>2, <2>3, NodesRemember
    <2>4. CASE Moves(r, "env_setup", "dependency_install", state[r])
      BY <1>0, <1>8, <2>1, <2>2, <2>4
    <2>5. CASE Moves(r, "hypothesis_gen", "script_gen", HypothesisGenNode(state[r]))
      BY <1>0, <1>8, <2>1, <2>2, <2>5, NodesRemember
    <2>6. CASE Moves(r, "script_gen", "sandbox_exec", ScriptGenNode(state[r]))
      BY <1>0, <1>8, <2>1, <2>2, <2>6, NodesRemember
    <2>7. CASE \E out \in AllOutcomes :
                 Moves(r, "sandbox_exec", "verdict", SandboxExecNode(state[r], out))
      BY <1>0, <1>8, <2>1, <2>2, <2>7, NodesRemember
    <2>8. CASE Moves(r, "verdict", RouteAfterVerdict(VerdictNode(state[r])),
                     VerdictNode(state[r]))
      BY <1>0, <1>8, <2>1, <2>8, NodesRemember
    <2>9. CASE Moves(r, "minimization", "persist", MinimizationNode(state[r]))
      <3>1. state[r].final_verdict = "error" => state[r].error
        BY <2>2, <2>9 DEF ExplainedInv, Moves
      <3>2. /\ MinimizationNode(state[r]).final_verdict = state[r].final_verdict
            /\ MinimizationNode(state[r]).error = state[r].error
        BY <1>0 DEF MinimizationNode, State
      <3>3. QED
        BY <1>0, <1>8, <2>1, <2>9, <3>1, <3>2, NodesRemember
    <2>10. QED
      BY <1>11, <2>3, <2>4, <2>5, <2>6, <2>7, <2>8, <2>9 DEF WorkMoves
  <1>12. /\ "persist" \in Concluding /\ "log" \in Concluding /\ FailurePcs \subseteq Concluding
         /\ "record_failure_1" \in FailurePcs /\ "record_failure_3" \in FailurePcs
    BY DEF Concluding, FailurePcs
  <1>13. ASSUME pc[r] \in Concluding
         PROVE  state[r].final_verdict = "error" => state[r].error
    BY <1>13 DEF ExplainedInv
  <1>14. CASE WriteEffect(r)
    <2>1. pc[r] = "persist"
      BY <1>14 DEF WriteEffect, Moves
    <2>2. row'[r].status \in {"error", "infra_error"} => row'[r].persist_error
      BY <1>0, <1>12, <1>13, <1>14, <2>1, FinalRowExplained DEF WriteEffect, ExplainedInv
    <2>3. QED
      BY <1>0, <1>8, <1>12, <1>13, <1>14, <2>1, <2>2 DEF WriteEffect
  <1>15. CASE RecordEffect(r)
    <2>1. row'[r].status \in {"error", "infra_error"} => row'[r].persist_error
      BY <1>0, <1>15 DEF RecordEffect, ExplainedInv, Row
    <2>2. PICK place \in FailurePcs :
            \/ Moves(r, place, "log_failure", state[r])
            \/ \E next \in FailurePcs : Moves(r, place, next, state[r])
      BY <1>15 DEF RecordEffect
    <2>3. state[r].final_verdict = "error" => state[r].error
      BY <1>12, <1>13, <2>2 DEF Moves
    <2>4. QED
      BY <1>0, <1>8, <2>1, <2>2, <2>3
  <1>16. CASE SpillEffect(r)
    BY <1>0, <1>3, <1>8, <1>16 DEF SpillEffect, ExplainedInv
  <1>17. CASE ReturnEffect(r)
    <2>1. row'[r].status \in {"error", "infra_error"} => row'[r].persist_error
      BY <1>17 DEF ReturnEffect, ExplainedInv
    <2>2. CASE Moves(r, "log", "return",
                     [state[r] EXCEPT !.final_verdict = TerminalVerdict(state[r]),
                                      !.persist_error = FALSE])
      <3>1. pc[r] = "log"
        BY <2>2 DEF Moves
      <3>2. Remembers([state[r] EXCEPT !.final_verdict = TerminalVerdict(state[r]),
                                       !.persist_error = FALSE])
        BY <1>0, <1>12, <1>13, <3>1, FinalRowExplained
      <3>3. QED
        BY <1>3, <1>8, <2>1, <2>2, <3>2
    <2>3. CASE Moves(r, "log_failure", "return",
                     [state[r] EXCEPT !.final_verdict = "error", !.persist_error = TRUE])
      <3>1. Remembers([state[r] EXCEPT !.final_verdict = "error", !.persist_error = TRUE])
        BY <1>0 DEF Remembers, State
      <3>2. QED
        BY <1>3, <1>8, <2>1, <2>3, <3>1
    <2>4. QED
      BY <1>17, <2>2, <2>3 DEF ReturnEffect
  <1>18. QED
    BY <1>1, <1>2, <1>4, <1>5, <1>6, <1>7, <1>9, <1>10, <1>11, <1>14, <1>15, <1>16, <1>17
       DEF LocalStep, RunEffect

\* A row that ends in an error carries the flag that explains it, whichever of its
\* writers wrote it and whatever the thread kept of earlier deliveries.
THEOREM ErrorsExplained == Spec => []ErrorsAreExplained
  <1>1. Init => \A r \in Runs : ExplainedInv(r)
    BY FreshRemembers DEF Init, ExplainedInv, Concluding, FailurePcs
  <1>2. TypeOK /\ (\A r \in Runs : ExplainedInv(r)) /\ [Next]_vars
          => (\A r \in Runs : ExplainedInv(r))'
    <2> SUFFICES ASSUME TypeOK, \A r \in Runs : ExplainedInv(r), [Next]_vars, NEW r \in Runs
                 PROVE  ExplainedInv(r)'
      OBVIOUS
    <2>1. LocalStep(r)
      BY LocalSteps
    <2>2. QED
      BY <2>1, ExplainedStep
  <1>3. (\A r \in Runs : ExplainedInv(r)) => ErrorsAreExplained
    BY DEF ExplainedInv, ErrorsAreExplained
  <1>4. QED
    BY <1>1, <1>2, <1>3, InitTypes, StepTypes, PTL DEF Spec

-----------------------------------------------------------------------------
(* Attempts are bounded                                                    *)

\* A delivery that holds index i may have made n attempts.
Within(i, n) ==
    /\ n <= Budget /\ n <= i
    /\ i > Budget => n <= 1

\* What a delivery that has made n attempts knows at a place: none before the loop of
\* attempts, room for one more where the loop begins again, and ingest has clamped the
\* budget (or refused the payload) by the time the loop looks at it.
Fits(place, s, n) ==
    /\ Within(s.idx, n)
    /\ place \in {"ingest", "repo_analysis", "env_setup", "dependency_install"} => n = 0
    /\ place = "hypothesis_gen" => n = 0 \/ s.idx < Budget
    /\ place = "ingest" => s.max = MaxHypotheses
    /\ place \in {"repo_analysis", "env_setup", "dependency_install"}
         => s.max = Budget \/ s.error
    /\ place \in {"hypothesis_gen", "script_gen", "sandbox_exec", "verdict"}
         => s.max = Budget

BudgetInv(r) == Fits(pc[r], state[r], made[r])

\* Past the loop of attempts only the bound matters.
Past == {"none", "minimization", "persist", "log", "log_failure", "return"} \cup FailurePcs

LEMMA PastFits ==
    ASSUME NEW place \in Past, NEW s, NEW n, Within(s.idx, n)
    PROVE  Fits(place, s, n)
  BY DEF Past, FailurePcs, Fits

\* Each node hands on a state that fits the next place.
LEMMA NodesFit ==
    ASSUME NEW s \in State, NEW n \in Nat
    PROVE  /\ Fits("ingest", s, n) =>
                \A ok \in BOOLEAN : Fits("repo_analysis", IngestNode(s, ok), n)
           /\ Fits("repo_analysis", s, n) =>
                \A t \in Trees : Fits("env_setup", RepoAnalysisNode(s, t), n)
           /\ Fits("env_setup", s, n) => Fits("dependency_install", s, n)
           /\ Fits("dependency_install", s, n) => \A ok \in BOOLEAN :
                LET t == DependencyInstallNode(s, ok)
                IN  Fits(RouteAfterDependencyInstall(t), t, n)
           /\ Fits("hypothesis_gen", s, n) => Fits("script_gen", HypothesisGenNode(s), n + 1)
           /\ Fits("script_gen", s, n) => Fits("sandbox_exec", ScriptGenNode(s), n)
           /\ Fits("sandbox_exec", s, n) =>
                \A out \in AllOutcomes : Fits("verdict", SandboxExecNode(s, out), n)
           /\ Fits("verdict", s, n) =>
                Fits(RouteAfterVerdict(VerdictNode(s)), VerdictNode(s), n)
           /\ Within(s.idx, n) => Within(MinimizationNode(s).idx, n)
  <1>0. s.idx \in Nat /\ Budget \in Nat \ {0} /\ s.max \in Nat
    BY BudgetType DEF State
  <1>1. ASSUME Fits("ingest", s, n), NEW ok \in BOOLEAN
        PROVE  Fits("repo_analysis", IngestNode(s, ok), n)
    BY <1>1 DEF Fits, IngestNode, State, Budget, Within
  <1>2. ASSUME Fits("repo_analysis", s, n), NEW t \in Trees
        PROVE  Fits("env_setup", RepoAnalysisNode(s, t), n)
    BY <1>2 DEF Fits, RepoAnalysisNode, State, Within
  <1>3. Fits("env_setup", s, n) => Fits("dependency_install", s, n)
    BY DEF Fits
  <1>4. ASSUME Fits("dependency_install", s, n), NEW ok \in BOOLEAN, NEW t,
               t = DependencyInstallNode(s, ok)
        PROVE  Fits(RouteAfterDependencyInstall(t), t, n)
    <2>1. t.idx = s.idx /\ t.max = s.max /\ (s.error => t.error)
      BY <1>4 DEF DependencyInstallNode, State
    <2>2. CASE t.error
      BY <1>4, <2>1, <2>2 DEF RouteAfterDependencyInstall, Fits, Within
    <2>3. CASE ~t.error
      BY <1>4, <2>1, <2>3 DEF RouteAfterDependencyInstall, Fits, Within
    <2>4. QED
      BY <2>2, <2>3
  <1>5. ASSUME Fits("hypothesis_gen", s, n)
        PROVE  Fits("script_gen", HypothesisGenNode(s), n + 1)
    <2>1. /\ HypothesisGenNode(s).idx = s.idx + 1
          /\ HypothesisGenNode(s).max = s.max
      BY DEF HypothesisGenNode, State
    <2>2. s.max = Budget /\ (n = 0 \/ s.idx < Budget) /\ n <= s.idx
      BY <1>5 DEF Fits, Within
    <2>3. Within(s.idx + 1, n + 1)
      BY <1>0, <2>2 DEF Within
    <2>4. QED
      BY <2>1, <2>2, <2>3 DEF Fits
  <1>6. ASSUME Fits("script_gen", s, n) PROVE Fits("sandbox_exec", ScriptGenNode(s), n)
    BY <1>6 DEF Fits, ScriptGenNode, State, Within
  <1>7. ASSUME Fits("sandbox_exec", s, n), NEW out \in AllOutcomes
        PROVE  Fits("verdict", SandboxExecNode(s, out), n)
    BY <1>7 DEF Fits, SandboxExecNode, State, Within
  <1>8. ASSUME Fits("verdict", s, n)
        PROVE  Fits(RouteAfterVerdict(VerdictNode(s)), VerdictNode(s), n)
    <2>1. PICK t : t = VerdictNode(s)
      OBVIOUS
    <2>2. t.idx = s.idx /\ t.max = s.max
      BY <2>1, VerdictEffect
    <2>3. Within(t.idx, n) /\ t.max = Budget
      BY <1>8, <2>2 DEF Fits
    <2>4. CASE RouteAfterVerdict(t) = "hypothesis_gen"
      <3>1. t.idx < t.max
        BY <2>4 DEF RouteAfterVerdict
      <3>2. QED
        BY <2>1, <2>3, <2>4, <3>1 DEF Fits
    <2>5. CASE RouteAfterVerdict(t) # "hypothesis_gen"
      <3>1. RouteAfterVerdict(t) \in Past
        BY <2>5 DEF RouteAfterVerdict, Past
      <3>2. QED
        BY <2>1, <2>3, <3>1, PastFits
    <2>6. QED
      BY <2>4, <2>5
  <1>9. Within(s.idx, n) => Within(MinimizationNode(s).idx, n)
    BY DEF MinimizationNode, State
  <1>10. QED
    BY <1>1, <1>2, <1>3, <1>4, <1>5, <1>6, <1>7, <1>8, <1>9

\* Each local step keeps the invariant.
LEMMA BudgetStep ==
    ASSUME TypeOK, NEW r \in Runs, BudgetInv(r), LocalStep(r)
    PROVE  BudgetInv(r)'
  <1> DEFINE n == made[r]
  <1>0. /\ state[r] \in State /\ checkpoint[r] \in State /\ valid[r] \in BOOLEAN
        /\ n \in Nat /\ Budget \in Nat \ {0}
    BY BudgetType DEF TypeOK
  <1>1. CASE KeepsTask(r) /\ (KeepsStore(r) \/ PassEffect(r) \/ ReconcileEffect(r))
    BY <1>1 DEF BudgetInv, KeepsTask
  \* A task that begins or ends has made no attempt yet.
  <1>2. ASSUME NEW s \in State PROVE Within(s.idx, 0)
    BY <1>0, <1>2 DEF Within, State
  <1>3. CASE CrashEffect(r) \/ EndEffect(r)
    <2>1. state'[r] \in State /\ made'[r] = 0 /\ pc'[r] = "none"
      BY <1>0, <1>3, OnDiskType DEF CrashEffect, EndEffect, Leaves
    <2>2. "none" \in Past
      BY DEF Past
    <2>3. QED
      BY <1>2, <2>1, <2>2, PastFits DEF BudgetInv
  <1>4. CASE DeliverEffect(r)
    <2>1. /\ state'[r] \in State /\ state'[r].max = MaxHypotheses
          /\ made'[r] = 0 /\ pc'[r] = "ingest"
      <3>1. state[r].tree \in Trees /\ Resume(checkpoint[r]) \in State /\ FreshState \in State
        BY <1>0, FreshType, GraphAssumption DEF Resume, State
      <3>2. Resume(checkpoint[r]).max = MaxHypotheses /\ FreshState.max = MaxHypotheses
        BY <1>0 DEF Resume, State, FreshState
      <3>3. ASSUME NEW s \in State, s.max = MaxHypotheses
            PROVE  /\ [s EXCEPT !.tree = state[r].tree] \in State
                   /\ [s EXCEPT !.tree = state[r].tree].max = MaxHypotheses
        BY <3>1, <3>3 DEF State
      <3>4. QED
        BY <1>4, <3>1, <3>2, <3>3 DEF DeliverEffect
    <2>2. QED
      BY <1>2, <2>1 DEF BudgetInv, Fits
  <1>5. ASSUME NEW place, NEW next, NEW s, next # "script_gen",
               Moves(r, place, next, s), Fits(place, state[r], n) => Fits(next, s, n)
        PROVE  BudgetInv(r)'
    BY <1>0, <1>5 DEF BudgetInv, Moves, Adds
  <1>6. CASE IngestEffect(r)
    BY <1>0, <1>5, <1>6, NodesFit DEF IngestEffect
  <1>7. CASE InstallEffect(r)
    <2>1. PICK ok \in BOOLEAN :
            LET s == DependencyInstallNode(state[r], ok)
            IN  Moves(r, "dependency_install", RouteAfterDependencyInstall(s), s)
      BY <1>7 DEF InstallEffect
    <2>2. PICK s : s = DependencyInstallNode(state[r], ok)
      OBVIOUS
    <2>3. /\ Fits("dependency_install", state[r], n)
               => Fits(RouteAfterDependencyInstall(s), s, n)
          /\ RouteAfterDependencyInstall(s) # "script_gen"
      BY <1>0, <2>2, NodesFit DEF RouteAfterDependencyInstall
    <2>4. QED
      BY <1>5, <2>1, <2>2, <2>3
  <1>8. CASE WorkMoves(r)
    <2>1. CASE \E tree \in Trees :
                 Moves(r, "repo_analysis", "env_setup", RepoAnalysisNode(state[r], tree))
      BY <1>0, <1>5, <2>1, NodesFit
    <2>2. CASE Moves(r, "env_setup", "dependency_install", state[r])
      BY <1>0, <1>5, <2>2, NodesFit
    <2>3. CASE Moves(r, "hypothesis_gen", "script_gen", HypothesisGenNode(state[r]))
      BY <1>0, <2>3, NodesFit DEF BudgetInv, Moves, Adds
    <2>4. CASE Moves(r, "script_gen", "sandbox_exec", ScriptGenNode(state[r]))
      BY <1>0, <1>5, <2>4, NodesFit
    <2>5. CASE \E out \in AllOutcomes :
                 Moves(r, "sandbox_exec", "verdict", SandboxExecNode(state[r], out))
      BY <1>0, <1>5, <2>5, NodesFit
    <2>6. CASE Moves(r, "verdict", RouteAfterVerdict(VerdictNode(state[r])),
                     VerdictNode(state[r]))
      <3>1. RouteAfterVerdict(VerdictNode(state[r])) # "script_gen"
        BY DEF RouteAfterVerdict
      <3>2. QED
        BY <1>0, <1>5, <2>6, <3>1, NodesFit
    <2>7. CASE Moves(r, "minimization", "persist", MinimizationNode(state[r]))
      <3>1. "persist" \in Past
        BY DEF Past
      <3>2. Fits("minimization", state[r], n) => Fits("persist", MinimizationNode(state[r]), n)
        BY <1>0, <3>1, NodesFit, PastFits DEF Fits
      <3>3. QED
        BY <1>5, <2>7, <3>2
    <2>8. QED
      BY <1>8, <2>1, <2>2, <2>3, <2>4, <2>5, <2>6, <2>7 DEF WorkMoves
  \* Persist leaves the index alone.
  <1>9. ASSUME NEW place, NEW next \in Past, NEW s, s.idx = state[r].idx,
               Moves(r, place, next, s)
        PROVE  BudgetInv(r)'
    <2>1. next # "script_gen"
      BY <1>9 DEF Past, FailurePcs
    <2>2. Fits(place, state[r], n) => Fits(next, s, n)
      BY <1>9, PastFits DEF Fits
    <2>3. QED
      BY <1>5, <1>9, <2>1, <2>2
  <1>10. {"log", "log_failure", "return", "record_failure_1"} \subseteq Past
          /\ FailurePcs \subseteq Past
    BY DEF Past, FailurePcs
  <1>11. CASE WriteEffect(r)
    BY <1>9, <1>10, <1>11 DEF WriteEffect
  <1>12. CASE RecordEffect(r)
    BY <1>9, <1>10, <1>12 DEF RecordEffect
  <1>13. CASE SpillEffect(r)
    BY <1>9, <1>10, <1>13 DEF SpillEffect
  <1>14. CASE ReturnEffect(r)
    <2>1. /\ [state[r] EXCEPT !.final_verdict = TerminalVerdict(state[r]),
                              !.persist_error = FALSE].idx = state[r].idx
          /\ [state[r] EXCEPT !.final_verdict = "error", !.persist_error = TRUE].idx
               = state[r].idx
      BY <1>0 DEF State
    <2>2. QED
      BY <1>9, <1>10, <1>14, <2>1 DEF ReturnEffect
  <1>15. QED
    BY <1>1, <1>3, <1>4, <1>6, <1>7, <1>8, <1>11, <1>12, <1>13, <1>14
       DEF LocalStep, RunEffect, PassEffect, ReconcileEffect

\* No delivery makes more attempts than its budget, and one that finds the budget
\* spent makes a single attempt, however often the run was cut short before and
\* whatever its checkpoint kept.
THEOREM AttemptsBounded == Spec => []AttemptsPerDelivery
  <1>1. Init => \A r \in Runs : BudgetInv(r)
    <2> SUFFICES ASSUME Init, NEW r \in Runs PROVE BudgetInv(r)
      OBVIOUS
    <2>1. state[r].idx = 0 /\ made[r] = 0 /\ pc[r] = "none"
      BY DEF Init, FreshState
    <2>2. QED
      BY <2>1, PastFits, BudgetType DEF BudgetInv, Within, Past
  <1>2. TypeOK /\ (\A r \in Runs : BudgetInv(r)) /\ [Next]_vars
          => (\A r \in Runs : BudgetInv(r))'
    <2> SUFFICES ASSUME TypeOK, \A r \in Runs : BudgetInv(r), [Next]_vars, NEW r \in Runs
                 PROVE  BudgetInv(r)'
      OBVIOUS
    <2>1. LocalStep(r)
      BY LocalSteps
    <2>2. QED
      BY <2>1, BudgetStep
  <1>3. (\A r \in Runs : BudgetInv(r)) => AttemptsPerDelivery
    BY DEF BudgetInv, Fits, Within, Budget, AttemptsPerDelivery
  <1>4. QED
    BY <1>1, <1>2, <1>3, InitTypes, StepTypes, PTL DEF Spec

-----------------------------------------------------------------------------
(* What is particular about a run's first delivery                         *)

\* The places before dependencies are installed, and those of the attempts.
Early    == {"ingest", "repo_analysis", "env_setup", "dependency_install"}
Attempts == {"hypothesis_gen", "script_gen", "sandbox_exec", "verdict", "minimization"}

\* Nothing of an earlier delivery: no terminal row and no dead letter, and a thread
\* that knows no verdict but the refusal of its payload.
Untouched(r) == row[r].status \notin TerminalStatuses /\ ~letter[r].written

Innocent(s) == s.final_verdict \in {"unset", "invalid_input"} /\ s.last.verdict = "none"

\* Before its second delivery a run's row is terminal only where the task itself has
\* just made it so: by a failed installation, which persist then confirms.
FirstInv(r) ==
    /\ tries[r] = 0 => Untouched(r) /\ Innocent(checkpoint[r])
    /\ pc[r] # "none" => tries[r] >= 1
    /\ tries[r] = 1 /\ pc[r] \in Early => Untouched(r) /\ Innocent(state[r])
    /\ tries[r] = 1 /\ pc[r] \in Attempts => Untouched(r)
    /\ tries[r] = 1 /\ pc[r] = "persist" =>
          /\ ~letter[r].written
          /\ row[r].status \in TerminalStatuses => RowStatus(state[r]) = "error"

\* The nodes before the attempts keep a state innocent.
LEMMA EarlyNodes ==
    ASSUME NEW s \in State, Innocent(s)
    PROVE  /\ \A ok \in BOOLEAN : Innocent(IngestNode(s, ok))
           /\ \A t \in Trees : Innocent(RepoAnalysisNode(s, t))
           /\ \A t \in Trees : Innocent([Resume(s) EXCEPT !.tree = t])
           /\ \A ok \in BOOLEAN : Innocent(DependencyInstallNode(s, ok))
  BY DEF Innocent, IngestNode, RepoAnalysisNode, Resume, DependencyInstallNode, State

\* An innocent state with an error ends in an error.
LEMMA InnocentError ==
    ASSUME NEW s \in State, Innocent(s), s.error
    PROVE  RowStatus(s) = "error"
  <1>1. TerminalVerdict(s) # "infra_error"
    BY DEF Innocent, TerminalVerdict
  <1>2. QED
    BY <1>1 DEF RowStatus

\* Each local step keeps the invariant.
LEMMA FirstStep ==
    ASSUME TypeOK, NEW r \in Runs, FirstInv(r), LettersInv(r), LocalStep(r)
    PROVE  FirstInv(r)'
  <1>0. /\ state[r] \in State /\ checkpoint[r] \in State /\ row[r] \in Row
        /\ valid[r] \in BOOLEAN /\ tries[r] \in Nat /\ letter[r] \in Letter
        /\ state[r].tree \in Trees
    BY DEF TypeOK, State
  <1>1. CASE KeepsTask(r) /\ KeepsStore(r)
    BY <1>1 DEF FirstInv, Untouched, KeepsTask, KeepsStore
  <1>2. CASE PassEffect(r)
    BY <1>2 DEF FirstInv, Untouched, PassEffect, KeepsTask
  <1>3. "none" \notin Early /\ "none" \notin Attempts
    BY DEF Early, Attempts
  <1>4. CASE CrashEffect(r)
    BY <1>3, <1>4 DEF FirstInv, Untouched, CrashEffect
  <1>5. CASE DeliverEffect(r)
    <2>1. "ingest" \notin Attempts /\ "ingest" # "persist" /\ "ingest" # "none"
      BY DEF Attempts
    <2>2. ASSUME tries[r] = 0 PROVE Untouched(r)' /\ Innocent(state'[r])
      <3>1. Innocent([FreshState EXCEPT !.tree = state[r].tree])
        BY DEF Innocent, FreshState, NoLast
      <3>2. Innocent([Resume(checkpoint[r]) EXCEPT !.tree = state[r].tree])
        BY <1>0, <2>2, EarlyNodes DEF FirstInv
      <3>3. Innocent(state'[r])
        BY <1>5, <3>1, <3>2 DEF DeliverEffect
      <3>4. QED
        BY <1>5, <2>2, <3>3 DEF FirstInv, Untouched, DeliverEffect, KeepsStore
    <2>3. tries'[r] = tries[r] + 1 /\ pc'[r] = "ingest"
      BY <1>5 DEF DeliverEffect
    <2>4. tries'[r] >= 1 /\ (tries'[r] = 1 => tries[r] = 0)
      BY <1>0, <2>3
    <2>5. QED
      BY <2>1, <2>2, <2>3, <2>4 DEF FirstInv
  <1>6. CASE EndEffect(r)
    BY <1>3, <1>6 DEF FirstInv, Untouched, EndEffect, Leaves, KeepsStore
  <1>7. CASE ReconcileEffect(r)
    <2>1. letter[r].written
      BY <1>7 DEF LettersInv, ReconcileEffect
    <2>2. /\ tries[r] # 0 /\ pc'[r] = pc[r] /\ tries'[r] = tries[r]
          /\ tries[r] = 1 => pc[r] \notin Early \cup Attempts \cup {"persist"}
      BY <1>7, <2>1 DEF FirstInv, Untouched, ReconcileEffect, KeepsTask
    <2>3. QED
      BY <2>2 DEF FirstInv
  <1>8. ASSUME NEW place, NEW next, NEW s, Moves(r, place, next, s), place # "none",
               tries[r] = 1 /\ next \in Early => Untouched(r)' /\ Innocent(s),
               tries[r] = 1 /\ next \in Attempts => Untouched(r)',
               tries[r] = 1 /\ next = "persist" =>
                  /\ ~letter'[r].written
                  /\ row'[r].status \in TerminalStatuses => RowStatus(s) = "error"
        PROVE  FirstInv(r)'
    <2>1. tries[r] >= 1 /\ tries'[r] = tries[r] /\ pc'[r] = next /\ state'[r] = s
      BY <1>0, <1>8 DEF FirstInv, Moves
    <2>2. QED
      BY <1>0, <1>8, <2>1 DEF FirstInv
  <1>9. CASE IngestEffect(r)
    <2>1. "repo_analysis" \notin Attempts /\ "ingest" \in Early
      BY DEF Attempts, Early
    <2>2. pc[r] = "ingest"
      BY <1>9 DEF IngestEffect, Moves
    <2>3. ASSUME tries[r] = 1 PROVE Untouched(r)' /\ Innocent(IngestNode(state[r], valid[r]))
      <3>1. Untouched(r) /\ Innocent(state[r])
        BY <2>1, <2>2, <2>3 DEF FirstInv
      <3>2. QED
        BY <1>0, <1>9, <3>1, EarlyNodes
           DEF IngestEffect, Untouched, Row, TerminalStatuses
    <2>4. QED
      BY <1>8, <1>9, <2>1, <2>3 DEF IngestEffect
  <1>10. CASE InstallEffect(r)
    <2>1. PICK ok \in BOOLEAN :
            LET s == DependencyInstallNode(state[r], ok)
            IN  /\ Moves(r, "dependency_install", RouteAfterDependencyInstall(s), s)
                /\ \/ row'[r] = row[r]
                   \/ /\ InstallFails(state[r], ok)
                      /\ row'[r] = [row[r] EXCEPT !.status = "error",
                                                  !.persist_error = TRUE]
      BY <1>10 DEF InstallEffect
    <2>2. PICK s : s = DependencyInstallNode(state[r], ok)
      OBVIOUS
    <2>3. letter'[r] = letter[r] /\ pc[r] = "dependency_install" /\ s \in State
      BY <1>0, <1>10, <2>1, <2>2, NodesType DEF InstallEffect, Moves
    <2>4. ASSUME tries[r] = 1
          PROVE  Untouched(r) /\ Innocent(s)
      <3>1. Untouched(r) /\ Innocent(state[r])
        BY <2>3, <2>4 DEF FirstInv, Early
      <3>2. QED
        BY <1>0, <2>2, <3>1, EarlyNodes
    <2>5. CASE s.error
      <3>1. RouteAfterDependencyInstall(s) = "persist"
        BY <2>5 DEF RouteAfterDependencyInstall
      <3>2. tries[r] = 1 => RowStatus(s) = "error"
        BY <2>3, <2>4, <2>5, InnocentError
      <3>3. tries[r] = 1 => ~letter'[r].written
        BY <2>3, <2>4 DEF Untouched
      <3>4. "persist" \notin Early /\ "persist" \notin Attempts
        BY DEF Early, Attempts
      <3>5. Moves(r, "dependency_install", "persist", s)
        BY <2>1, <2>2, <3>1
      <3>6. QED
        BY <1>8, <3>2, <3>3, <3>4, <3>5
    <2>6. CASE ~s.error
      <3>1. RouteAfterDependencyInstall(s) = "hypothesis_gen"
        BY <2>6 DEF RouteAfterDependencyInstall
      <3>2. row'[r] = row[r]
        BY <1>0, <2>1, <2>2, <2>6 DEF DependencyInstallNode, State
      <3>3. tries[r] = 1 => Untouched(r)'
        BY <2>3, <2>4, <3>2 DEF Untouched
      <3>4. "hypothesis_gen" \notin Early /\ "hypothesis_gen" # "persist"
        BY DEF Early
      <3>5. Moves(r, "dependency_install", "hypothesis_gen", s)
        BY <2>1, <2>2, <3>1
      <3>6. QED
        BY <1>8, <3>3, <3>4, <3>5
    <2>7. QED
      BY <2>5, <2>6
  <1>11. CASE WorkMoves(r) /\ row'[r] = row[r] /\ letter'[r] = letter[r]
    <2>1. Untouched(r) => Untouched(r)'
      BY <1>11 DEF Untouched
    <2>2. \A place \in Early \cup Attempts :
             pc[r] = place /\ tries[r] = 1 => Untouched(r)
      BY DEF FirstInv
    <2>3. CASE \E tree \in Trees :
                 Moves(r, "repo_analysis", "env_setup", RepoAnalysisNode(state[r], tree))
      <3>1. pc[r] = "repo_analysis" /\ "repo_analysis" \in Early
            /\ "env_setup" \notin Attempts
        BY <2>3 DEF Moves, Early, Attempts
      <3>2. tries[r] = 1 => Innocent(state[r])
        BY <3>1 DEF FirstInv
      <3>3. QED
        BY <1>0, <1>8, <2>1, <2>2, <2>3, <3>1, <3>2, EarlyNodes
    <2>4. CASE Moves(r, "env_setup", "dependency_install", state[r])
      <3>1. pc[r] = "env_setup" /\ "env_setup" \in Early
            /\ "dependency_install" \notin Attempts
        BY <2>4 DEF Moves, Early, Attempts
      <3>2. tries[r] = 1 => Innocent(state[r])
        BY <3>1 DEF FirstInv
      <3>3. QED
        BY <1>8, <2>1, <2>2, <2>4, <3>1, <3>2
    <2>5. ASSUME NEW place \in Attempts, NEW next, NEW s, next \notin Early,
                 Moves(r, place, next, s)
          PROVE  FirstInv(r)'
      <3>1. pc[r] = place /\ place # "none"
        BY <1>3, <2>5 DEF Moves
      <3>2. tries[r] = 1 => Untouched(r)' /\ row'[r].status \notin TerminalStatuses
                            /\ ~letter'[r].written
        BY <1>11, <2>1, <2>2, <2>5, <3>1 DEF Untouched
      <3>3. QED
        BY <1>8, <2>5, <3>1, <3>2
    <2>6. /\ {"hypothesis_gen", "script_gen", "sandbox_exec", "verdict", "minimization"}
               = Attempts
          /\ "script_gen" \notin Early /\ "sandbox_exec" \notin Early
          /\ "verdict" \notin Early /\ "persist" \notin Early
      BY DEF Attempts, Early
    <2>7. RouteAfterVerdict(VerdictNode(state[r])) \notin Early
      BY DEF RouteAfterVerdict, Early
    <2>8. QED
      BY <1>11, <2>3, <2>4, <2>5, <2>6, <2>7 DEF WorkMoves
  <1>12. ASSUME NEW place, NEW next, NEW s, Moves(r, place, next, s), place # "none",
                next \notin Early \cup Attempts \cup {"persist"}
         PROVE  FirstInv(r)'
    BY <1>8, <1>12
  <1>13. /\ {"log", "log_failure", "return"} \cap (Early \cup Attempts \cup {"persist"}) = {}
         /\ FailurePcs \cap (Early \cup Attempts \cup {"persist", "none"}) = {}
         /\ {"record_failure_1", "record_failure_3"} \subseteq FailurePcs
    BY DEF Early, Attempts, FailurePcs
  <1>14. CASE WriteEffect(r)
    BY <1>12, <1>13, <1>14 DEF WriteEffect
  <1>15. CASE RecordEffect(r)
    BY <1>12, <1>13, <1>15 DEF RecordEffect
  <1>16. CASE SpillEffect(r)
    BY <1>12, <1>13, <1>16 DEF SpillEffect
  <1>17. CASE ReturnEffect(r)
    BY <1>12, <1>13, <1>17 DEF ReturnEffect
  <1>18. QED
    BY <1>1, <1>2, <1>4, <1>5, <1>6, <1>7, <1>9, <1>10, <1>11, <1>14, <1>15, <1>16, <1>17
       DEF LocalStep, RunEffect

-----------------------------------------------------------------------------
(* The mapping                                                             *)

\* What the readers of the rows see, as the refinement mapping gives it.
Seen == [q \in Runs |-> row[q].status]

Phase == [q \in Runs |-> CASE job[q] = "queued"  -> "waiting"
                           [] job[q] = "running" -> "working"
                           [] OTHER              -> "over"]

\* A step that leaves a run's part alone shows its readers nothing new.
LEMMA SeenKept ==
    ASSUME NEW q \in Runs, KeepsTask(q), KeepsStore(q)
    PROVE  Seen'[q] = Seen[q] /\ Phase'[q] = Phase[q] /\ tries'[q] = tries[q]
  BY DEF Seen, Phase, KeepsTask, KeepsStore

\* A step of r's task that does not end the delivery changes at most r's status.
LEMMA StatusMoves ==
    ASSUME TypeOK, TypeOK', NEW r \in Runs, OthersKept(r),
           job'[r] = job[r], tries'[r] = tries[r]
    PROVE  /\ Seen' = [Seen EXCEPT ![r] = row'[r].status]
           /\ Phase' = Phase
           /\ tries' = tries
  <1>1. \A q \in Runs \ {r} : Seen'[q] = Seen[q] /\ Phase'[q] = Phase[q]
                              /\ tries'[q] = tries[q]
    BY SeenKept DEF OthersKept
  <1>2. Seen'[r] = row'[r].status /\ Phase'[r] = Phase[r]
    BY DEF Seen, Phase
  <1>3. tries \in [Runs -> 0 .. MaxTries] /\ tries' \in [Runs -> 0 .. MaxTries]
    BY DEF TypeOK
  <1>4. Seen' = [Seen EXCEPT ![r] = row'[r].status]
    <2>1. \A q \in Runs : Seen'[q] = [Seen EXCEPT ![r] = row'[r].status][q]
      BY <1>1, <1>2 DEF Seen
    <2>2. QED
      BY <2>1 DEF Seen
  <1>5. Phase' = Phase
    <2>1. \A q \in Runs : Phase'[q] = Phase[q]
      BY <1>1, <1>2
    <2>2. QED
      BY <2>1 DEF Phase
  <1>6. QED
    BY <1>1, <1>3, <1>4, <1>5

\* The promise's actions, in these terms.
LEMMA PromiseSteps ==
    ASSUME NEW r \in Runs
    PROVE  /\ Seen' = Seen /\ Phase' = Phase /\ tries' = tries => UNCHANGED Promise!vars
           /\ /\ Seen' = [Seen EXCEPT ![r] = "error"] /\ Phase' = Phase /\ tries' = tries
              /\ tries[r] >= 1
              => Promise!Fault(r)
           /\ /\ Seen' = [Seen EXCEPT ![r] = "analyzing"] /\ Phase' = Phase
              /\ tries' = tries /\ job[r] = "running"
              /\ row[r].status \in TerminalStatuses => tries[r] >= 2
              => Promise!Begin(r)
           /\ /\ \E st \in TerminalStatuses : Seen' = [Seen EXCEPT ![r] = st]
              /\ Phase' = Phase /\ tries' = tries /\ job[r] = "running"
              /\ row[r].status \in TerminalStatuses => tries[r] >= 2
              => Promise!Conclude(r)
           /\ /\ Seen' = Seen /\ Phase' = [Phase EXCEPT ![r] = "over"] /\ tries' = tries
              /\ job[r] \in {"queued", "running"}
              => Promise!End(r)
           /\ /\ Seen' = Seen /\ Phase' = [Phase EXCEPT ![r] = "working"]
              /\ tries' = [tries EXCEPT ![r] = @ + 1]
              /\ job[r] = "queued" /\ tries[r] < MaxTries
              => Promise!Deliver(r)
  <1> USE DEF Seen, Phase
  <1>1. Seen' = Seen /\ Phase' = Phase /\ tries' = tries => UNCHANGED Promise!vars
    BY DEF Promise!vars
  <1>2. /\ Seen' = [Seen EXCEPT ![r] = "error"] /\ Phase' = Phase /\ tries' = tries
        /\ tries[r] >= 1
        => Promise!Fault(r)
    BY DEF Promise!Fault
  <1>3. /\ Phase[r] = "working" <=> job[r] = "running"
        /\ Phase[r] = "waiting" <=> job[r] = "queued"
        /\ job[r] \in {"queued", "running"} => Phase[r] # "over"
    OBVIOUS
  <1>4. Promise!Open(r) <=> job[r] = "running"
                            /\ (row[r].status \in TerminalStatuses => tries[r] >= 2)
    BY <1>3 DEF Promise!Open, Promise!Terminal, TerminalStatuses
  <1>5. /\ Seen' = [Seen EXCEPT ![r] = "analyzing"] /\ Phase' = Phase
        /\ tries' = tries /\ job[r] = "running"
        /\ row[r].status \in TerminalStatuses => tries[r] >= 2
        => Promise!Begin(r)
    BY <1>4 DEF Promise!Begin
  <1>6. /\ \E st \in TerminalStatuses : Seen' = [Seen EXCEPT ![r] = st]
        /\ Phase' = Phase /\ tries' = tries /\ job[r] = "running"
        /\ row[r].status \in TerminalStatuses => tries[r] >= 2
        => Promise!Conclude(r)
    BY <1>4 DEF Promise!Conclude, Promise!Terminal, TerminalStatuses
  <1>7. /\ Seen' = Seen /\ Phase' = [Phase EXCEPT ![r] = "over"] /\ tries' = tries
        /\ job[r] \in {"queued", "running"}
        => Promise!End(r)
    BY <1>3 DEF Promise!End
  <1>8. /\ Seen' = Seen /\ Phase' = [Phase EXCEPT ![r] = "working"]
        /\ tries' = [tries EXCEPT ![r] = @ + 1]
        /\ job[r] = "queued" /\ tries[r] < MaxTries
        => Promise!Deliver(r)
    BY <1>3 DEF Promise!Deliver
  <1>9. QED
    BY <1>1, <1>2, <1>5, <1>6, <1>7, <1>8

\* A step of the queue changes r's phase and count, and no row.
LEMMA JobMovesSeen ==
    ASSUME TypeOK, TypeOK', NEW r \in Runs, OthersKept(r), row'[r] = row[r]
    PROVE  /\ Seen' = Seen
           /\ Phase' = [Phase EXCEPT ![r] = Phase'[r]]
           /\ tries' = [tries EXCEPT ![r] = tries'[r]]
  <1>1. \A q \in Runs \ {r} : Seen'[q] = Seen[q] /\ Phase'[q] = Phase[q]
                              /\ tries'[q] = tries[q]
    BY SeenKept DEF OthersKept
  <1>2. Seen' = Seen
    <2>1. \A q \in Runs : Seen'[q] = Seen[q]
      BY <1>1 DEF Seen
    <2>2. QED
      BY <2>1 DEF Seen
  <1>3. Phase' = [Phase EXCEPT ![r] = Phase'[r]]
    <2>1. \A q \in Runs : Phase'[q] = [Phase EXCEPT ![r] = Phase'[r]][q]
      BY <1>1 DEF Phase
    <2>2. QED
      BY <2>1 DEF Phase
  <1>4. tries' = [tries EXCEPT ![r] = tries'[r]]
    <2>1. tries \in [Runs -> 0 .. MaxTries] /\ tries' \in [Runs -> 0 .. MaxTries]
      BY DEF TypeOK
    <2>2. QED
      BY <1>1, <2>1
  <1>5. QED
    BY <1>2, <1>3, <1>4

\* What may happen to the row of a run while its job stays where it is.
LEMMA StatusRefines ==
    ASSUME TypeOK, TypeOK', NEW r \in Runs, OthersKept(r),
           job'[r] = job[r], tries'[r] = tries[r],
           \/ row'[r].status = row[r].status
           \/ row'[r].status = "error" /\ tries[r] >= 1
           \/ /\ row'[r].status \in TerminalStatuses \cup {"analyzing"}
              /\ job[r] = "running"
              /\ row[r].status \in TerminalStatuses => tries[r] >= 2
    PROVE  [Promise!Next]_(Promise!vars)
  <1>1. /\ Seen' = [Seen EXCEPT ![r] = row'[r].status]
        /\ Phase' = Phase /\ tries' = tries
    BY StatusMoves
  <1>2. CASE row'[r].status = row[r].status
    <2>1. Seen' = Seen
      BY <1>1, <1>2 DEF Seen
    <2>2. QED
      BY <1>1, <2>1, PromiseSteps
  <1>3. CASE row'[r].status = "error" /\ tries[r] >= 1
    BY <1>1, <1>3, PromiseSteps DEF Promise!Next
  <1>4. CASE /\ row'[r].status \in TerminalStatuses \cup {"analyzing"}
             /\ job[r] = "running"
             /\ row[r].status \in TerminalStatuses => tries[r] >= 2
    BY <1>1, <1>4, PromiseSteps DEF Promise!Next
  <1>5. QED
    BY <1>2, <1>3, <1>4

\* The invariants that the mapping of a step rests on.
RefInv == TypeOK /\ \A r \in Runs : LettersInv(r) /\ FirstInv(r)

\* The steps that belong to one run.
LEMMA RunStepRefines ==
    ASSUME RefInv, TypeOK', NEW r \in Runs, RunEffect(r), OthersKept(r)
    PROVE  [Promise!Next]_(Promise!vars)
  <1>0. /\ TypeOK /\ LettersInv(r) /\ FirstInv(r)
        /\ state[r] \in State /\ row[r] \in Row /\ tries[r] \in Nat
        /\ job[r] \in {"queued", "running", "complete", "failed"}
    BY DEF RefInv, TypeOK
  <1>1. CASE DeliverEffect(r)
    <2>1. /\ row'[r] = row[r] /\ job[r] = "queued" /\ job'[r] = "running"
          /\ tries'[r] = tries[r] + 1
      BY <1>1 DEF DeliverEffect, KeepsStore
    <2>2. tries[r] < MaxTries
      <3>1. tries'[r] \in 0 .. MaxTries
        BY DEF TypeOK
      <3>2. QED
        BY <1>0, <2>1, <3>1, LifecycleAssumption
    <2>3. Phase'[r] = "working"
      BY <2>1 DEF Phase
    <2>4. Promise!Deliver(r)
      BY <1>0, <2>1, <2>2, <2>3, JobMovesSeen, PromiseSteps
    <2>5. QED
      BY <2>4 DEF Promise!Next
  <1>2. CASE EndEffect(r)
    <2>1. /\ row'[r] = row[r] /\ job[r] \in {"queued", "running"}
          /\ job'[r] \in {"complete", "failed"} /\ tries'[r] = tries[r]
      BY <1>2 DEF EndEffect, Leaves, KeepsStore
    <2>2. Phase'[r] = "over"
      BY <2>1 DEF Phase
    <2>3. tries' = tries
      <3>1. tries \in [Runs -> 0 .. MaxTries] /\ tries' \in [Runs -> 0 .. MaxTries]
        BY <1>0 DEF TypeOK
      <3>2. tries' = [tries EXCEPT ![r] = tries[r]]
        BY <1>0, <2>1, JobMovesSeen
      <3>3. QED
        BY <3>1, <3>2
    <2>4. Promise!End(r)
      BY <1>0, <2>1, <2>2, <2>3, JobMovesSeen, PromiseSteps
    <2>5. QED
      BY <2>4 DEF Promise!Next
  <1>3. CASE ReconcileEffect(r)
    <2>1. letter[r].written
      BY <1>0, <1>3 DEF LettersInv, ReconcileEffect
    <2>2. tries[r] >= 1
      BY <1>0, <2>1 DEF FirstInv, Untouched
    <2>3. /\ row'[r].status = row[r].status \/ row'[r].status = "error"
          /\ job'[r] = job[r] /\ tries'[r] = tries[r]
      BY <1>3 DEF ReconcileEffect, KeepsTask
    <2>4. QED
      BY <1>0, <2>2, <2>3, StatusRefines
  <1>4. ASSUME NEW place, NEW next, NEW s, Moves(r, place, next, s), place # "none"
        PROVE  /\ job[r] = "running" /\ job'[r] = job[r] /\ tries'[r] = tries[r]
               /\ pc[r] = place /\ tries[r] >= 1
    BY <1>0, <1>4 DEF Moves, FirstInv
  <1>5. CASE IngestEffect(r)
    <2>1. /\ job[r] = "running" /\ job'[r] = job[r] /\ tries'[r] = tries[r]
          /\ pc[r] = "ingest" /\ tries[r] >= 1
      BY <1>4, <1>5 DEF IngestEffect
    <2>2. row[r].status \in TerminalStatuses => tries[r] >= 2
      BY <1>0, <2>1 DEF FirstInv, Early, Untouched
    <2>3. row'[r].status = row[r].status \/ row'[r].status = "analyzing"
      BY <1>0, <1>5 DEF IngestEffect, Row
    <2>4. QED
      BY <1>0, <2>1, <2>2, <2>3, StatusRefines
  <1>6. CASE InstallEffect(r)
    <2>1. /\ job'[r] = job[r] /\ tries'[r] = tries[r] /\ tries[r] >= 1
          /\ row'[r].status = row[r].status \/ row'[r].status = "error"
      BY <1>0, <1>4, <1>6 DEF InstallEffect, Row
    <2>2. QED
      BY <1>0, <2>1, StatusRefines
  <1>7. CASE WorkMoves(r) /\ row'[r] = row[r] /\ letter'[r] = letter[r]
    <2>1. job'[r] = job[r] /\ tries'[r] = tries[r]
      BY <1>7 DEF WorkMoves, Moves
    <2>2. QED
      BY <1>0, <1>7, <2>1, StatusRefines
  <1>8. CASE WriteEffect(r)
    <2>1. /\ job[r] = "running" /\ job'[r] = job[r] /\ tries'[r] = tries[r]
          /\ pc[r] = "persist" /\ tries[r] >= 1
      BY <1>4, <1>8 DEF WriteEffect
    <2>2. row'[r] = row[r] \/ row'[r].status = RowStatus(state[r])
      BY <1>8 DEF WriteEffect, FinalRow
    <2>3. RowStatus(state[r]) \in TerminalStatuses
      BY <1>0, PersistType
    <2>4. (row[r].status \in TerminalStatuses => tries[r] >= 2) \/ RowStatus(state[r]) = "error"
      BY <1>0, <2>1 DEF FirstInv
    <2>5. QED
      BY <1>0, <2>1, <2>2, <2>3, <2>4, StatusRefines
  <1>9. CASE RecordEffect(r)
    <2>1. "none" \notin FailurePcs
      BY DEF FailurePcs
    <2>2. /\ job'[r] = job[r] /\ tries'[r] = tries[r] /\ tries[r] >= 1
          /\ row'[r].status = row[r].status \/ row'[r].status = "error"
      BY <1>0, <1>4, <1>9, <2>1 DEF RecordEffect, Row
    <2>3. QED
      BY <1>0, <2>2, StatusRefines
  <1>10. CASE SpillEffect(r)
    BY <1>0, <1>4, <1>10, StatusRefines DEF SpillEffect
  <1>11. CASE ReturnEffect(r)
    BY <1>0, <1>4, <1>11, StatusRefines DEF ReturnEffect
  <1>12. QED
    BY <1>1, <1>2, <1>3, <1>5, <1>6, <1>7, <1>8, <1>9, <1>10, <1>11 DEF RunEffect

\* Every step.
LEMMA StepRefines ==
    ASSUME RefInv, TypeOK', [Next]_vars
    PROVE  [Promise!Next]_(Promise!vars)
  <1>0. TypeOK
    BY DEF RefInv
  <1>1. ASSUME NEW r \in Runs, RunStep(r) PROVE [Promise!Next]_(Promise!vars)
    BY <1>0, <1>1, RunStepEffect, RunStepRefines
  <1>2. CASE \/ StartReconciliation \/ Restart \/ NeonDown \/ NeonUp \/ Idle
             \/ UNCHANGED vars
    <2>1. row' = row /\ job' = job /\ tries' = tries
      BY <1>2 DEF StartReconciliation, Restart, NeonDown, NeonUp, Idle, vars, taskVars,
           storeVars
    <2>2. QED
      BY <2>1 DEF Promise!vars
  <1>3. CASE Crash
    <2>1. /\ row' = row /\ tries' = tries
          /\ job' = [r \in Runs |-> IF job[r] = "running" THEN "queued" ELSE job[r]]
      BY <1>3 DEF Crash
    <2>2. Seen' = Seen
      BY <2>1 DEF Seen
    <2>3. Phase' = [r \in Runs |-> IF Phase[r] = "working" THEN "waiting" ELSE Phase[r]]
      <3>1. \A r \in Runs :
               Phase'[r] = IF Phase[r] = "working" THEN "waiting" ELSE Phase[r]
        BY <2>1 DEF Phase
      <3>2. QED
        BY <3>1 DEF Phase
    <2>4. Promise!Interrupt
      BY <2>1, <2>2, <2>3 DEF Promise!Interrupt, Seen, Phase
    <2>5. QED
      BY <2>4 DEF Promise!Next
  <1>4. QED
    BY <1>1, <1>2, <1>3 DEF Next, RunStep

\* The mapped system starts as the promise does.
LEMMA InitRefines == Init => Promise!Init
  BY DEF Init, Promise!Init

\* The life of runs keeps the promise made to the readers of the rows: a row's
\* status moves as RunPromise lets it, however tasks, crashes, outages, dead letters
\* and reconciliation interleave, for every set of runs and every bound.
THEOREM PromiseKept == Spec => KeepsPromise
  <1>1. Init => \A r \in Runs : FirstInv(r)
    <2> SUFFICES ASSUME Init, NEW r \in Runs PROVE FirstInv(r)
      OBVIOUS
    <2>1. /\ tries[r] = 0 /\ pc[r] = "none" /\ row[r].status = "queued"
          /\ letter[r].written = FALSE /\ checkpoint[r] = FreshState
      BY DEF Init, NoLetter
    <2>2. Innocent(FreshState)
      BY DEF Innocent, FreshState, NoLast
    <2>3. QED
      BY <2>1, <2>2 DEF FirstInv, Untouched, TerminalStatuses
  <1>2. /\ TypeOK /\ (\A r \in Runs : LettersInv(r)) /\ (\A r \in Runs : FirstInv(r))
        /\ [Next]_vars
        => (\A r \in Runs : FirstInv(r))'
    <2> SUFFICES ASSUME TypeOK, \A r \in Runs : LettersInv(r), \A r \in Runs : FirstInv(r),
                        [Next]_vars, NEW r \in Runs
                 PROVE  FirstInv(r)'
      OBVIOUS
    <2>1. LocalStep(r)
      BY LocalSteps
    <2>2. QED
      BY <2>1, FirstStep
  <1>3. TypeOK /\ (\A r \in Runs : LettersInv(r)) /\ (\A r \in Runs : FirstInv(r)) => RefInv
    BY DEF RefInv
  <1>4. RefInv /\ TypeOK' /\ [Next]_vars => [Promise!Next]_(Promise!vars)
    BY StepRefines
  <1>5. QED
    BY <1>1, <1>2, <1>3, <1>4, InitRefines, LettersHold, PTL
       DEF Spec, KeepsPromise, Promise!Spec
=============================================================================
