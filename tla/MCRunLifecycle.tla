--------------------------- MODULE MCRunLifecycle ---------------------------
(***************************************************************************)
(* RunLifecycle for TLC.                                                   *)
(***************************************************************************)
EXTENDS RunLifecycle, TLC

CONSTANTS r1, r2

OneRun  == {r1}
TwoRuns == {r1, r2}

\* One outcome per branch of the routing; the rest is ReproGraph's.
DecisiveOutcomes == {"same_error", "infra", "clean"}
Match            == {"same_error"}

\* Two runs whose attempt has just matched; the worker is about to persist both.
Matched ==
    MinimizationNode(VerdictNode(SandboxExecNode(ScriptGenNode(HypothesisGenNode(
        IngestNode(RepoAnalysisNode(FreshState, "requested"), TRUE))), "same_error")))

AboutToPersist ==
    /\ valid = [r \in Runs |-> TRUE]
    /\ job = [r \in Runs |-> "running"]
    /\ tries = [r \in Runs |-> 1]
    /\ pc = [r \in Runs |-> "persist"]
    /\ state = [r \in Runs |-> Matched]
    /\ checkpoint = [r \in Runs |-> Matched]
    /\ made = [r \in Runs |-> 1]
    /\ row = [r \in Runs |-> [status |-> "analyzing", plausible |-> FALSE,
                              persist_error |-> FALSE]]
    /\ letter = [r \in Runs |-> NoLetter]
    /\ pass = [r \in Runs |-> "idle"]
    /\ up = TRUE /\ durable = TRUE /\ neon = TRUE
    /\ crashes = 0
    /\ outages = 0

RunSymmetry == Permutations(Runs)
=============================================================================
