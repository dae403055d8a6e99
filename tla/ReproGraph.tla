----------------------------- MODULE ReproGraph -----------------------------
(***************************************************************************)
(* One call of the compiled graph (make_graph) for one run: the nodes of   *)
(* GraphNodes run one at a time along the graph's edges, from START to     *)
(* END.  The database is reachable and the worker does not crash here;     *)
(* RunLifecycle adds both.                                                 *)
(*                                                                         *)
(* LangGraph ends a call that has run as many nodes as its recursion limit *)
(* allows with an exception.  The worker leaves that limit at its default. *)
(***************************************************************************)
EXTENDS GraphNodes

CONSTANT
    RecursionLimit  \* how many nodes one call may run

ASSUME RecursionAssumption == RecursionLimit \in Nat

VARIABLES
    valid,   \* the payload passes ingest's validation
    pc,      \* the node to run next
    taken,   \* how many nodes the call has run
    state,   \* the state the graph threads through the nodes
    status   \* the status of the run's row

vars == <<valid, pc, taken, state, status>>

Nodes == {"ingest", "repo_analysis", "env_setup", "dependency_install",
          "hypothesis_gen", "script_gen", "sandbox_exec", "verdict",
          "minimization", "persist"}

Init ==
    /\ valid \in BOOLEAN
    /\ pc = "ingest"
    /\ taken = 0
    /\ state = FreshState
    /\ status = "queued"

\* Leave node for next with the state the node returned.
Step(node, next, s) ==
    /\ pc = node /\ taken < RecursionLimit
    /\ pc' = next
    /\ taken' = taken + 1
    /\ state' = s
    /\ UNCHANGED valid

-----------------------------------------------------------------------------
Ingest ==
    /\ Step("ingest", "repo_analysis", IngestNode(state, valid))
    /\ status' = IF valid THEN "analyzing" ELSE status

RepoAnalysis ==
    \E tree \in CloneResults(state) :
        /\ Step("repo_analysis", "env_setup", RepoAnalysisNode(state, tree))
        /\ UNCHANGED status

EnvSetup == Step("env_setup", "dependency_install", state) /\ UNCHANGED status

DependencyInstall ==
    \E ok \in BOOLEAN :
        LET s == DependencyInstallNode(state, ok)
        IN  /\ Step("dependency_install", RouteAfterDependencyInstall(s), s)
            /\ status' = IF InstallFails(state, ok) THEN "error" ELSE status

HypothesisGen ==
    Step("hypothesis_gen", "script_gen", HypothesisGenNode(state)) /\ UNCHANGED status

ScriptGen ==
    Step("script_gen", "sandbox_exec", ScriptGenNode(state)) /\ UNCHANGED status

\* The model gave no answer after all its retries: the node raises, and the
\* exception leaves the graph.
LLMGivesUp ==
    /\ pc \in {"hypothesis_gen", "script_gen"} /\ taken < RecursionLimit
    /\ pc' = "raised"
    /\ UNCHANGED <<valid, taken, state, status>>

\* There is a node to run, but no step left: the call raises.  Nobody catches
\* it, so that the row keeps the status it has.
OutOfSteps ==
    /\ pc \in Nodes /\ taken = RecursionLimit
    /\ pc' = "out_of_steps"
    /\ UNCHANGED <<valid, taken, state, status>>

SandboxExec ==
    \E out \in Outcomes :
        /\ Step("sandbox_exec", "verdict", SandboxExecNode(state, out))
        /\ UNCHANGED status

\* The next node is routed on the state that verdict returned.
Verdict ==
    LET s == VerdictNode(state)
    IN  Step("verdict", RouteAfterVerdict(s), s) /\ UNCHANGED status

Minimization ==
    Step("minimization", "persist", MinimizationNode(state)) /\ UNCHANGED status

Persist ==
    /\ Step("persist", "END", [state EXCEPT !.final_verdict = TerminalVerdict(state),
                                            !.persist_error = FALSE])
    /\ status' = RowStatus(state)

Terminated == pc \in {"END", "raised", "out_of_steps"} /\ UNCHANGED vars

Next ==
    \/ Ingest \/ RepoAnalysis \/ EnvSetup \/ DependencyInstall
    \/ HypothesisGen \/ ScriptGen \/ LLMGivesUp
    \/ SandboxExec \/ Verdict \/ Minimization \/ Persist
    \/ OutOfSteps \/ Terminated

\* The event loop keeps scheduling the task and every call a node awaits has a
\* time limit, so the task does not stop between two nodes.
Spec == Init /\ [][Next]_vars /\ WF_vars(Next)

-----------------------------------------------------------------------------
\* Every variable stays in its type.
TypeOK ==
    /\ valid \in BOOLEAN
    /\ pc \in Nodes \cup {"END", "raised", "out_of_steps"}
    /\ taken \in 0 .. RecursionLimit
    /\ state \in State
    /\ status \in TerminalStatuses \cup {"queued", "analyzing"}

\* The history is the list of attempts 1, 2, ... with none missing or doubled,
\* and their number respects both the request and the ceiling ingest imposes,
\* however the verdicts fall.
AttemptsInOrder ==
    /\ \A i \in 1 .. Len(state.history) : state.history[i].idx = i
    /\ Len(state.history) <= state.idx
    /\ state.idx <= Smaller(MaxHypotheses, Ceiling)

\* A match and an infrastructure failure are decisive: no attempt follows one.
NothingAfterDecisive ==
    \A i \in 1 .. state.idx - 1 :
        state.history[i].verdict \notin {"matched", "infra_error"}

LastVerdict == state.history[Len(state.history)].verdict

\* The terminal status tells what happened: success means the last attempt
\* matched, infra_error that it met an infrastructure failure, failure that every
\* attempt the run was entitled to was made in vain, error that none was made.
StatusTellsOutcome ==
    pc = "END" =>
        /\ status = "succeeded"   => state.history # << >> /\ LastVerdict = "matched"
        /\ status = "infra_error" => state.history # << >> /\ LastVerdict = "infra_error"
        /\ status = "failed"      =>
             /\ Len(state.history) = Smaller(MaxHypotheses, Ceiling)
             /\ LastVerdict \in {"no_match", "error"}
        /\ status = "error"       => state.history = << >>

\* The minimized script a finished run keeps is that of its matching attempt, and
\* a run that did not succeed keeps none.
MinimizedIsTheMatch ==
    pc = "END" =>
        state.minimized = IF status = "succeeded" THEN Len(state.history) ELSE 0

\* The call met the limit after as many attempts as the limit leaves room for: four
\* nodes come before the first attempt, each attempt takes four, and minimization
\* and persist follow the last.
CutShort == pc = "out_of_steps" /\ RecursionLimit <= 4 * state.idx + 5

\* Only attempts use the limit up: it never ends a call that has made fewer than
\* the limit leaves room for, whatever the nodes meet.
AttemptsBeforeLimit == pc = "out_of_steps" => CutShort

\* Whatever the nodes meet, the graph reaches END or leaves with an exception: that
\* of the LLM, or that of the limit once it has made the attempts there is room for.
GraphFinishes == <>(pc \in {"END", "raised"} \/ CutShort)

-----------------------------------------------------------------------------
\* nodes/repo_analysis.py, repo_analysis_node: the repository is cloned at the
\* requested commit or branch, so that no run succeeds on another revision.
SucceedsOnTheRevision == status = "succeeded" => state.tree # "other_revision"
=============================================================================
